-------------------------- MODULE SealCloseProofs --------------------------
(***************************************************************************)
(* Proofs about SealClose for any number of closes, leaves, nodes and      *)
(* events.                                                                 *)
(*                                                                         *)
(* The argument has four parts.  A close that has the session holds the    *)
(* lock through every await, so that no other takes its waiter (Locks,     *)
(* Waiting).  Whoever is told "sealed" is told so after the certificate    *)
(* was stored or could not be (Answers), and a frame of the directory is   *)
(* on its way only when it has decided (Decided).  A node that was taken   *)
(* off the map is not running (Nodes).  And until a submission goes        *)
(* unanswered every own closing leaf is remembered: by the submission that *)
(* is under way, or by the store (Remembered).                             *)
(***************************************************************************)
EXTENDS SealClose, FiniteSetTheorems, TLAPS

-----------------------------------------------------------------------------
(* The invariant.                                                          *)

\* A close with this record counts on its waiter.
Waits(r) ==
    /\ r.at = "await" \/ (r.rec = "active" /\ r.at \in {"sent", "carry", "sign"})
    /\ r.got = "none"

\* What a close knows and answers is true when the certificate came, as kept says.
Sound(r, came) ==
    /\ r.at # "done" => r.ans = "none"
    /\ r.got = "sealed" \/ r.ans = "sealed" => came
    /\ r.at = "sign" => r.pos # 0

Waiting == \A c \in Closer : Waits(call[c]) => waiter = c
Answers == \A p \in Proc : Sound(call[p], cert \/ unkept)
Decided == mail # {} \/ verifying # {} => dir # "none"

CloseInv ==
    /\ call \in [Proc -> Call]
    /\ {waiter, uniWaiter} \subseteq Closer \cup {NoCloser} /\ verifying \subseteq Closer
    /\ {held, cert, unkept} \subseteq BOOLEAN
    /\ mark \in {"none", "busy", "known"}
    /\ mail \subseteq {"sealed", "confirmed", "told", "upgraded"}
    /\ dir \in {"none", "bilateral", "unilateral"}
    /\ LocksHaveOwners /\ Waiting /\ Answers /\ Decided

\* A node that is being built is new and in nobody else's hands; one whose teardown has
\* come to the relay is down.
Nodes ==
    /\ node <= built /\ \A n \in running : n <= built
    /\ \A o \in ops : /\ o.n <= built /\ o.st # "pending"
                      /\ o.at = "build" => o.n # 0
                      /\ o.at = "release" => o.n \notin running
    /\ \A o, q \in ops : o.at = "build" /\ q.n = o.n => q = o
    /\ \A o \in ops : o.at = "build" => o.n # node /\ o.n \notin running

LifeInv == LifecycleTypeOK /\ Nodes /\ NoStrayNode

\* The leaves of this side and of the counterparty, and where they are.
LeavesOK ==
    /\ signed \in 0..MaxLeaves /\ silent \in BOOLEAN
    /\ carry \subseteq (Nat \ {0}) \X ({0} \cup Leaf) /\ IsFiniteSet(carry)
    /\ wire \subseteq Leaf
    /\ log \in Seq({0} \cup Leaf) /\ seen \in 0..Len(log)

Sent == {p \in Proc : At(p, "sent")}

\* A leaf in the store is the one the relay has there; there is at most one submission
\* and it knows the only leaf of ours outside; without one the store has that leaf.
Remembered ==
    /\ \A e \in carry : e[1] \in 1..Len(log) /\ e[2] = log[e[1]]
    /\ mark = "known" => OwnIn(carry) # {}
    /\ \A p, q \in Sent : p = q
    /\ \A p \in Sent : /\ wire \cup OwnOrdered \subseteq {call[p].leaf}
                       /\ call[p].leaf # 0
                       /\ mark # "none" \/ OwnIn(carry) # {}
    /\ wire \cap OwnOrdered = {}
    /\ Sent = {} => wire = {} /\ (OwnOrdered # {} => OwnIn(carry) # {})
    /\ \A p \in Proc : ~At(p, "sign")
    /\ \A k, l \in OwnOrdered : k = l

\* The counterparty closes once, and it is answered once.
AnswerOnce ==
    /\ \A i, j \in 1..Len(log) : log[i] = 0 /\ log[j] = 0 => i = j
    /\ ~At(Answerer, "idle") => \E i \in 1..seen : log[i] = 0

LeafInv == LeavesOK /\ AnswerOnce /\ (~silent => Remembered)

Inv == LifeInv /\ CloseInv /\ LeafInv

-----------------------------------------------------------------------------
(* The session's row and node.                                             *)

rowAndNode == <<status, seed, nodeVars, frozen, told>>

\* The parts of LifeInv are about these variables only.
LEMMA LifeStays ==
    ASSUME LifeInv, UNCHANGED rowAndNode, events' \in 0..MaxEvents
    PROVE  LifeInv'
  BY DEF LifeInv, LifecycleTypeOK, Nodes, NoStrayNode, rowAndNode, nodeVars

\* What is written is a status.
LEMMA WriteStatusOK ==
    ASSUME LifecycleTypeOK, NEW st \in Status, WriteStatus(st)
    PROVE  status' \in Status /\ seed' \in BOOLEAN
  BY DEF LifecycleTypeOK, WriteStatus, Writable, Status, Terminal

\* An event is counted up to the bound.
LEMMA EventOK ==
    ASSUME LifecycleTypeOK, Event
    PROVE  events' \in 0..MaxEvents
  BY LifecycleAssumption DEF LifecycleTypeOK, Event

\* The operations of left are joined by one that ends the node of now, or by none.
Joins(left) ==
    /\ UNCHANGED <<node, running, built, displaced>>
    /\ \/ ops' = left
       \/ /\ node # 0
          /\ \E o \in Op : /\ ops' = left \cup {o} /\ o.n = node /\ o.st # "pending"
                           /\ o.at \in {"destroy", "retire", "interrupt"}

\* A teardown that starts leaves the node to its operation.
LEMMA JoinsOK ==
    ASSUME LifeInv, NEW left \in SUBSET ops, Joins(left),
           status' \in Status, seed' \in BOOLEAN,
           frozen' \in BOOLEAN, told' \in BOOLEAN, events' \in 0..MaxEvents
    PROVE  LifeInv'
  <1>1. LifecycleTypeOK /\ Nodes /\ NoStrayNode
    BY DEF LifeInv
  <1>2. LifecycleTypeOK'
    BY <1>1 DEF LifecycleTypeOK, Joins
  <1>3. Nodes'
    <2>1. CASE ops' = left
      BY <1>1, <2>1 DEF Nodes, Joins
    <2>2. CASE ops' # left
      <3>1. PICK o \in Op : /\ ops' = left \cup {o} /\ o.n = node /\ o.st # "pending"
                            /\ o.at \in {"destroy", "retire", "interrupt"}
        BY <2>2 DEF Joins
      <3>2. \A q \in left : q \in ops
        OBVIOUS
      <3>3. UNCHANGED <<node, running, built>>
        BY DEF Joins
      <3> QED BY <1>1, <3>1, <3>2, <3>3 DEF Nodes
    <2> QED BY <2>1, <2>2
  <1>4. NoStrayNode'
    BY <1>1 DEF NoStrayNode, Joins
  <1> QED BY <1>2, <1>3, <1>4 DEF LifeInv

\* What begins an operation does so for the node of now.
LEMMA BeginJoins ==
    ASSUME LifecycleTypeOK
    PROVE  /\ \A st \in Status \ {"pending"} : StartDestroy(st) => Joins(ops)
           /\ \A at \in {"retire", "interrupt"} : StartRetire(at) => Joins(ops)
           /\ \A left : AbandonSession(left) => Joins(left)
  BY DEF LifecycleTypeOK, StartDestroy, StartRetire, AbandonSession, Joins, Teardown, Begin,
         Op, Status

\* A teardown that ends writes its status and turns to the relay; its node is down.
LEMMA DestroyedOK ==
    ASSUME LifeInv, NEW o \in ops, Destroyed(o)
    PROVE  LifeInv'
  <1> DEFINE o2 == Begin("release", o.n)
  <1>1. LifecycleTypeOK /\ Nodes /\ NoStrayNode
    BY DEF LifeInv
  <1>2. o \in Op /\ o2 \in Op /\ o2.n = o.n /\ o2.at = "release" /\ o2.st = "active"
    BY <1>1 DEF LifecycleTypeOK, Op, Begin, Status
  <1>3. /\ o.at = "destroy" /\ running' = running \ {o.n} /\ ops' = (ops \ {o}) \cup {o2}
        /\ UNCHANGED <<node, built, displaced, frozen, told, events>> /\ WriteStatus(o.st)
    BY DEF Destroyed
  <1>4. status' \in Status /\ seed' \in BOOLEAN
    BY <1>1, <1>2, <1>3, WriteStatusOK DEF Nodes, Op
  <1> HIDE DEF o2
  <1>5. LifecycleTypeOK'
    <2>1. ops' \subseteq Op /\ running' \subseteq 1..MaxNodes
      BY <1>1, <1>2, <1>3 DEF LifecycleTypeOK
    <2> QED BY <1>1, <1>3, <1>4, <2>1 DEF LifecycleTypeOK
  <1>6. Nodes'
    <2>1. \A q \in ops' : q = o2 \/ (q \in ops /\ q # o)
      BY <1>3
    <2>2. \A n \in running' : n \in running /\ n # o.n
      BY <1>3
    <2> QED BY <1>1, <1>2, <1>3, <2>1, <2>2 DEF Nodes
  <1>7. NoStrayNode'
    BY <1>1, <1>3 DEF NoStrayNode
  <1> QED BY <1>4, <1>5, <1>6, <1>7 DEF LifeInv

\* An entry that goes takes its node along, or the node is displaced.
LEMMA DropEntryOK ==
    ASSUME LifeInv, NEW o \in ops, DropEntry(o),
           NEW left \in SUBSET ops, ops' = left, o.n \notin running', running' \subseteq running,
           UNCHANGED <<built, frozen, told, events>>,
           status' \in Status, seed' \in BOOLEAN
    PROVE  LifeInv'
  <1>1. LifecycleTypeOK /\ Nodes /\ NoStrayNode
    BY DEF LifeInv
  <1>2. node' = 0 /\ displaced' = (displaced \/ node \notin {0, o.n})
    BY DEF DropEntry
  <1>3. displaced' \in BOOLEAN
    BY <1>2, Zenon
  <1>4. 0 \in 0..MaxNodes
    BY LifecycleAssumption
  <1>5. LifecycleTypeOK'
    <2>1. node' \in 0..MaxNodes /\ running' \subseteq 1..MaxNodes /\ ops' \subseteq Op
      BY <1>1, <1>2, <1>4 DEF LifecycleTypeOK
    <2> QED BY <1>1, <1>3, <2>1 DEF LifecycleTypeOK
  <1>6. Nodes'
    <2>1. node' <= built'
      BY <1>1, <1>2 DEF LifecycleTypeOK
    <2>2. \A q \in ops' : q \in ops
      OBVIOUS
    <2> QED BY <1>1, <1>2, <2>1, <2>2 DEF Nodes
  <1>7. NoStrayNode'
    BY <1>1, <1>2 DEF NoStrayNode, LifecycleTypeOK
  <1> QED BY <1>5, <1>6, <1>7 DEF LifeInv

\* Every operation that ends leaves the row and the node in order.
LEMMA FinishOK ==
    ASSUME LifeInv, NEW o \in ops, Finish(o)
    PROVE  LifeInv'
  <1>1. LifecycleTypeOK /\ Nodes /\ NoStrayNode /\ o \in Op
    BY DEF LifeInv, LifecycleTypeOK
  <1> USE <1>1
  <1>2. CASE Destroyed(o)
    BY <1>2, DestroyedOK
  <1>3. CASE Released(o)
    <2>1. o.n \notin running /\ running' = running /\ ops' = ops \ {o} /\ DropEntry(o)
      BY <1>3 DEF Released, Nodes
    <2>2. status' \in Status /\ seed' \in BOOLEAN
          /\ UNCHANGED <<built, frozen, told, events>>
      BY <1>3 DEF Released, LifecycleTypeOK
    <2> QED BY <2>1, <2>2, DropEntryOK
  <1>4. CASE Retired(o)
    <2>1. running' = running \ {o.n} /\ ops' = ops \ {o} /\ DropEntry(o)
      BY <1>4 DEF Retired
    <2>2. status' \in Status /\ seed' \in BOOLEAN
          /\ UNCHANGED <<built, frozen, told, events>>
      BY <1>4 DEF Retired, LifecycleTypeOK
    <2> QED BY <2>1, <2>2, DropEntryOK
  <1>5. CASE Expired(o)
    <2>1. AbandonSession(ops \ {o}) /\ UNCHANGED <<frozen, told, events>>
      BY <1>5 DEF Expired
    <2>2. Joins(ops \ {o})
      BY <2>1, BeginJoins
    <2>3. WriteStatus("abandoned")
      BY <2>1 DEF AbandonSession
    <2>4. status' \in Status /\ seed' \in BOOLEAN
      BY <2>3, WriteStatusOK DEF Status
    <2>5. frozen' \in BOOLEAN /\ told' \in BOOLEAN /\ events' \in 0..MaxEvents
      BY <2>1 DEF LifecycleTypeOK
    <2> QED BY <2>2, <2>4, <2>5, JoinsOK
  <1>6. CASE ReviveBuilt(o)
    <2> DEFINE o2 == Begin("wire", o.n)
    <2>1. o2 \in Op /\ o2.n = o.n /\ o2.at = "wire" /\ o2.st = "active"
      BY DEF LifecycleTypeOK, Op, Begin, Status
    <2>2. o.at = "build" /\ UNCHANGED <<status, seed, built, frozen, told, events>>
      BY <1>6 DEF ReviveBuilt
    <2>4. \/ /\ node' = o.n /\ running' = running \cup {o.n}
             /\ ops' = (ops \ {o}) \cup {o2}
             /\ displaced' = (displaced \/ node # 0)
          \/ ops' = ops \ {o} /\ UNCHANGED <<node, running, displaced>>
      BY <1>6 DEF ReviveBuilt
    <2> HIDE DEF o2
    <2>5. o.n \in 1..MaxNodes /\ o.n <= built
      BY <2>2, LifecycleAssumption DEF Nodes, Op
    <2>6. displaced' \in BOOLEAN /\ (~displaced' => ~displaced)
      <3>1. CASE displaced' = (displaced \/ node # 0)
        BY <3>1, Zenon
      <3>2. CASE UNCHANGED displaced
        BY <3>2 DEF LifecycleTypeOK
      <3> QED BY <2>4, <3>1, <3>2
    <2>7. LifecycleTypeOK'
      <3>1. ops' \subseteq Op
        BY <2>1, <2>4 DEF LifecycleTypeOK
      <3>2. node' \in 0..MaxNodes /\ running' \subseteq 1..MaxNodes
        <4>1. CASE UNCHANGED <<node, running>>
          BY <4>1 DEF LifecycleTypeOK
        <4>2. CASE node' = o.n /\ running' = running \cup {o.n}
          <5>1. node' \in 0..MaxNodes
            BY <2>5, <4>2
          <5>2. \A n \in running' : n \in 1..MaxNodes
            BY <2>5, <4>2 DEF LifecycleTypeOK
          <5> QED BY <5>1, <5>2
        <4> QED BY <2>4, <4>1, <4>2
      <3> QED BY <2>2, <2>6, <3>1, <3>2 DEF LifecycleTypeOK
    <2>8. Nodes'
      BY <2>1, <2>2, <2>4, <2>5 DEF Nodes
    <2>9. NoStrayNode'
      <3>1. CASE node # 0 /\ node' = o.n /\ displaced' = (displaced \/ node # 0)
        BY <3>1 DEF NoStrayNode
      <3>2. CASE node = 0 /\ node' = o.n /\ running' = running \cup {o.n}
        <4>1. ~displaced => running = {}
          BY <3>2 DEF NoStrayNode, LifecycleTypeOK
        <4> QED BY <2>6, <3>2, <4>1 DEF NoStrayNode
      <3>3. CASE UNCHANGED <<node, running, displaced>>
        BY <3>3 DEF NoStrayNode
      <3> QED BY <2>4, <3>1, <3>2, <3>3
    <2> QED BY <2>7, <2>8, <2>9 DEF LifeInv
  <1>7. CASE Revived(o)
    <2>1. ops' = ops \ {o} /\ UNCHANGED <<built, frozen, told, events>>
      BY <1>7 DEF Revived
    <2>2. CASE WriteStatus("active") /\ UNCHANGED <<node, running, displaced>>
      <3>1. status' \in Status /\ seed' \in BOOLEAN
        BY <2>2, WriteStatusOK DEF Status
      <3>2. Joins(ops \ {o})
        BY <2>1, <2>2 DEF Joins
      <3>3. frozen' \in BOOLEAN /\ told' \in BOOLEAN /\ events' \in 0..MaxEvents
        BY <2>1 DEF LifecycleTypeOK
      <3> QED BY <3>1, <3>2, <3>3, JoinsOK
    <2>3. CASE DropEntry(o) /\ running' = running \ {o.n} /\ UNCHANGED <<status, seed>>
      <3>1. status' \in Status /\ seed' \in BOOLEAN
        BY <2>3 DEF LifecycleTypeOK
      <3> QED BY <2>1, <2>3, <3>1, DropEntryOK
    <2> QED BY <1>7, <2>2, <2>3 DEF Revived
  <1> QED BY <1>2, <1>3, <1>4, <1>5, <1>6, <1>7 DEF Finish

\* What happens to a session starts an operation at most.
LEMMA HappeningOK ==
    ASSUME LifeInv, Happening
    PROVE  LifeInv'
  <1> USE DEF LifeInv
  <1>1. CASE MarkInterrupted
    <2>1. status' = "interrupted" /\ Event /\ UNCHANGED <<seed, frozen, told>> /\ Joins(ops)
      BY <1>1, BeginJoins DEF MarkInterrupted
    <2>2. status' \in Status /\ seed' \in BOOLEAN
          /\ frozen' \in BOOLEAN /\ told' \in BOOLEAN
      BY <2>1 DEF LifecycleTypeOK, Status, Terminal
    <2> QED BY <2>1, <2>2, EventOK, JoinsOK
  <1>2. CASE SetOffline \/ Freeze \/ CounterpartyAbandon
    <2>1. Event /\ UNCHANGED <<status, seed>> /\ Joins(ops)
      BY <1>2, BeginJoins DEF SetOffline, Freeze, CounterpartyAbandon, Status
    <2>2. frozen' \in BOOLEAN /\ told' \in BOOLEAN
      BY <1>2 DEF SetOffline, Freeze, CounterpartyAbandon, LifecycleTypeOK
    <2>3. status' \in Status /\ seed' \in BOOLEAN
      BY <2>1 DEF LifecycleTypeOK
    <2> QED BY <2>1, <2>2, <2>3, EventOK, JoinsOK
  <1>3. CASE Revive
    <2> DEFINE o2 == Begin("build", built + 1)
    <2>1. node = 0 /\ built < MaxNodes /\ built' = built + 1 /\ ops' = ops \cup {o2}
          /\ UNCHANGED <<status, seed, node, running, displaced, frozen, told, events>>
      BY <1>3 DEF Revive
    <2>2. built \in 1..MaxNodes /\ MaxNodes \in Nat
      BY LifecycleAssumption DEF LifecycleTypeOK
    <2>3. built + 1 \in 1..MaxNodes /\ built + 1 \in 0..MaxNodes
      BY <2>1, <2>2
    <2>4. o2 \in Op /\ o2.n = built + 1 /\ o2.at = "build" /\ o2.st = "active"
      BY <2>3 DEF Op, Begin, Status
    <2> HIDE DEF o2
    <2>5. LifecycleTypeOK'
      BY <2>1, <2>3, <2>4 DEF LifecycleTypeOK
    <2>6. \A q \in ops : q.n \in Nat
      BY <2>2 DEF LifecycleTypeOK, Op
    <2>7. running \subseteq Nat
      BY DEF LifecycleTypeOK
    <2>8. Nodes'
      BY <2>1, <2>2, <2>4, <2>6, <2>7 DEF Nodes
    <2>9. NoStrayNode'
      BY <2>1 DEF NoStrayNode
    <2> QED BY <2>5, <2>8, <2>9
  <1> QED BY <1>1, <1>2, <1>3 DEF Happening

\* A restart leaves nothing up.
LEMMA LifecycleRestartOK ==
    ASSUME LifeInv, LifecycleRestart
    PROVE  LifeInv'
  <1> USE DEF LifeInv
  <1>1. Event /\ seed' = FALSE /\ node' = 0 /\ running' = {} /\ frozen' = FALSE
        /\ UNCHANGED <<built, told, displaced>>
    BY DEF LifecycleRestart
  <1>2. Begin("expire", 0) \in Op /\ Begin("expire", 0).n = 0
        /\ Begin("expire", 0).at = "expire" /\ Begin("expire", 0).st = "active"
    BY LifecycleAssumption DEF Begin, Op, Status
  <1>3. ops' \subseteq {Begin("expire", 0)}
    BY DEF LifecycleRestart
  <1>4. status' \in Status
    BY DEF LifecycleRestart, LifecycleTypeOK, Status
  <1>5. built \in 1..MaxNodes /\ 0 \in 0..MaxNodes
    BY LifecycleAssumption DEF LifecycleTypeOK
  <1>6. LifecycleTypeOK'
    BY <1>1, <1>2, <1>3, <1>4, <1>5, EventOK DEF LifecycleTypeOK
  <1>7. Nodes' /\ NoStrayNode'
    BY <1>1, <1>2, <1>3, <1>5 DEF Nodes, NoStrayNode
  <1> QED BY <1>6, <1>7

\* A certificate marks the row and starts the teardown.
LEMMA MarkSealedOK ==
    ASSUME LifeInv, MarkSealed, events' \in 0..MaxEvents
    PROVE  LifeInv'
  <1>1. LifecycleTypeOK
    BY DEF LifeInv
  <1>2. WriteStatus("sealed") /\ StartDestroy("sealed") /\ UNCHANGED <<frozen, told>>
    BY DEF MarkSealed
  <1>3. Joins(ops)
    BY <1>1, <1>2, BeginJoins DEF Status
  <1>4. status' \in Status /\ seed' \in BOOLEAN
    BY <1>1, <1>2, WriteStatusOK DEF Status
  <1>5. frozen' \in BOOLEAN /\ told' \in BOOLEAN
    BY <1>1, <1>2 DEF LifecycleTypeOK
  <1> QED BY <1>3, <1>4, <1>5, JoinsOK

-----------------------------------------------------------------------------
(* The closes.                                                             *)

\* p goes on as r.  A close has the session, or does not get it, or gets a free one.
Turn(p, r) ==
    /\ r \in Call /\ call' = [call EXCEPT ![p] = r]
    /\ call[p].at # "done" /\ Sound(r, cert' \/ unkept')
    /\ {waiter', uniWaiter'} \subseteq Closer \cup {NoCloser}
    /\ IF p = Answerer THEN UNCHANGED <<held, waiter>>
       ELSE /\ \/ InCeremony(p) /\ held' \in BOOLEAN /\ (held' <=> r.at \in Ceremony)
               \/ ~InCeremony(p) /\ r.at \notin Ceremony /\ UNCHANGED <<held, waiter>>
               \/ ~InCeremony(p) /\ r.at \in Ceremony /\ ~held /\ held' = TRUE
            /\ Waits(r) => waiter' = p

\* The frames and certificates are in order, and the marker is someone's.
Orderly(p, r) ==
    /\ cert' \in {TRUE, cert} /\ unkept' \in {TRUE, unkept}
    /\ mark' \in {"none", "busy", "known"}
    /\ mark' = "busy" => r.at = "sent" \/ (mark = "busy" /\ call[p].at # "sent")
    /\ verifying' \subseteq Closer
    /\ mail' \subseteq {"sealed", "confirmed", "told", "upgraded"}
    /\ dir' \in {"none", "bilateral", "unilateral"}
    /\ Decided'

\* A close that waits for anything has the session.
LEMMA WaitsInCeremony ==
    ASSUME NEW c, Waits(call[c])
    PROVE  InCeremony(c)
  BY DEF Waits, InCeremony, Ceremony

\* The automatic answer is no close, and no close is NoCloser.
LEMMA ProcFacts == Answerer \notin Closer /\ NoCloser \notin Closer /\ Answerer # NoCloser
  BY CloserAssumption DEF Closer, NoCloser

\* A turn of one keeps the closes in order.
LEMMA TurnOK ==
    ASSUME CloseInv, NEW p \in Proc, NEW r, Turn(p, r), Orderly(p, r)
    PROVE  CloseInv'
  <1>1. /\ call \in [Proc -> Call] /\ LocksHaveOwners /\ Waiting /\ Answers
        /\ held \in BOOLEAN /\ cert \in BOOLEAN /\ unkept \in BOOLEAN
    BY DEF CloseInv
  <1>2. call' \in [Proc -> Call] /\ call'[p] = r /\ \A q \in Proc : q # p => call'[q] = call[q]
    BY <1>1 DEF Turn
  <1>3. Closer \subseteq Proc
    BY DEF Proc
  <1>4. \A c \in Closer : c # p => (InCeremony(c)' <=> InCeremony(c))
    BY <1>2, <1>3 DEF InCeremony
  <1>5. p \in Closer => (InCeremony(p)' <=> r.at \in Ceremony)
    BY <1>2 DEF InCeremony
  <1>6. cert' \in BOOLEAN /\ unkept' \in BOOLEAN /\ held' \in BOOLEAN
    BY <1>1 DEF Turn, Orderly
  <1>7. LocksHaveOwners'
    <2>1. mark' = "busy" => \E q \in Proc : At(q, "sent")'
      BY <1>1, <1>2 DEF LocksHaveOwners, Orderly, At
    <2>2. /\ \A c, d \in Closer : InCeremony(c)' /\ InCeremony(d)' => c = d
          /\ held' <=> \E c \in Closer : InCeremony(c)'
      <3>1. CASE p = Answerer
        BY <1>1, <1>4, <3>1, ProcFacts DEF Turn, LocksHaveOwners
      <3>2. CASE p # Answerer
        <4>1. p \in Closer
          BY <3>2 DEF Proc
        <4>2. /\ \A c, d \in Closer : InCeremony(c) /\ InCeremony(d) => c = d
              /\ held <=> \E c \in Closer : InCeremony(c)
          BY <1>1 DEF LocksHaveOwners
        <4>3. CASE InCeremony(p) /\ (held' <=> r.at \in Ceremony)
          BY <1>4, <1>5, <4>1, <4>2, <4>3
        <4>4. CASE ~InCeremony(p) /\ r.at \notin Ceremony /\ held' = held
          BY <1>4, <1>5, <4>1, <4>2, <4>4
        <4>5. CASE ~InCeremony(p) /\ r.at \in Ceremony /\ ~held /\ held' = TRUE
          BY <1>4, <1>5, <4>1, <4>2, <4>5
        <4> QED BY <3>2, <4>3, <4>4, <4>5 DEF Turn
      <3> QED BY <3>1, <3>2
    <2> QED BY <2>1, <2>2 DEF LocksHaveOwners
  <1>8. Waiting'
    <2> SUFFICES ASSUME NEW c \in Closer, Waits(call'[c])
                 PROVE  waiter' = c
      BY DEF Waiting
    <2>1. CASE c = p
      BY <1>2, <2>1, ProcFacts DEF Turn
    <2>2. CASE c # p
      <3>1. Waits(call[c]) /\ waiter = c /\ InCeremony(c)
        BY <1>1, <1>2, <1>3, <2>2, WaitsInCeremony DEF Waiting
      <3>2. CASE p = Answerer
        BY <3>1, <3>2 DEF Turn
      <3>3. CASE p # Answerer
        <4>1. p \in Closer
          BY <3>3 DEF Proc
        <4>2. held /\ ~InCeremony(p)
          BY <1>1, <2>2, <3>1, <4>1 DEF LocksHaveOwners
        <4> QED BY <3>1, <3>3, <4>2 DEF Turn
      <3> QED BY <3>2, <3>3
    <2> QED BY <2>1, <2>2
  <1>9. Answers'
    <2>1. cert \/ unkept => cert' \/ unkept'
      BY DEF Orderly
    <2> QED BY <1>1, <1>2, <2>1 DEF Answers, Sound, Turn
  <1> QED BY <1>2, <1>6, <1>7, <1>8, <1>9 DEF CloseInv, Turn, Orderly

\* The record of a close that is over, or looks for a certificate, or goes on.
LEMMA Records ==
    /\ Idle \in Call /\ Idle.at = "idle" /\ Idle.rec = "active" /\ Idle.got = "none"
    /\ Idle.ans = "none"
    /\ \A ans \in Answer : Ended(ans) \in Call /\ Ended(ans).at = "done"
                           /\ Ended(ans).got = "none" /\ Ended(ans).ans = ans
    /\ \A at \in {"pull", "flow"} : LET r == [Idle EXCEPT !.at = at] IN
         r \in Call /\ r.at = at /\ r.got = "none" /\ r.ans = "none" /\ r.rec = "active"
  BY DEF Idle, Ended, Call, Answer, Status

\* The close has the session, and what it goes on as is one of those.
Over(p) ==
    /\ InCeremony(p) /\ held' \in BOOLEAN
    /\ {waiter', uniWaiter'} \subseteq Closer \cup {NoCloser}

\* A close that ends frees the session.
LEMMA EndCloseTurn ==
    ASSUME CloseInv, NEW p \in Closer, NEW ans \in Answer, EndClose(p, ans),
           ans # "none", ans = "sealed" => cert \/ unkept,
           InCeremony(p), UNCHANGED <<cert, unkept>>,
           {waiter', uniWaiter'} \subseteq Closer \cup {NoCloser}
    PROVE  \E r \in Call : Turn(p, r) /\ r.at \in {"done", "pull"}
  <1>1. call[p].at \in Ceremony /\ call[p].at # "done"
    BY DEF InCeremony, Ceremony
  <1>2. p # Answerer
    BY ProcFacts
  <1>3. held' = FALSE
    BY DEF EndClose
  <1>4. PICK r \in {Ended(ans), [Idle EXCEPT !.at = "pull"]} :
           call' = [call EXCEPT ![p] = r]
    BY DEF EndClose
  <1>5. r \in Call /\ r.at \in {"done", "pull"} /\ r.got = "none"
        /\ (r.ans = "none" \/ (r.at = "done" /\ r.ans = ans))
    BY <1>4, Records
  <1>6. ~Waits(r) /\ r.at \notin Ceremony
    BY <1>5 DEF Waits, Ceremony
  <1>7. Sound(r, cert' \/ unkept')
    BY <1>5 DEF Sound
  <1> QED BY <1>1, <1>2, <1>3, <1>4, <1>5, <1>6, <1>7 DEF Turn

\* An escalation is a turn to the key.
LEMMA EscalateTurn ==
    ASSUME CloseInv, NEW p \in Closer, Escalate(p), InCeremony(p), UNCHANGED <<cert, unkept>>,
           waiter' \in Closer \cup {NoCloser}
    PROVE  \E r \in Call : Turn(p, r) /\ r.at = "key"
  <1> DEFINE r == [Idle EXCEPT !.at = "key", !.rec = call[p].rec]
  <1>1. call[p] \in Call /\ p # Answerer /\ call[p].at # "done" /\ held \in BOOLEAN
    BY ProcFacts DEF CloseInv, Proc, InCeremony, Ceremony
  <1>2. r \in Call /\ r.at = "key" /\ r.got = "none" /\ r.ans = "none"
    BY <1>1 DEF Call, Idle, Status, Answer
  <1>3. call' = [call EXCEPT ![p] = r] /\ uniWaiter' = p /\ held' = held
    BY DEF Escalate
  <1>4. held
    BY DEF CloseInv, LocksHaveOwners
  <1> HIDE DEF r
  <1>5. ~Waits(r) /\ r.at \in Ceremony /\ Sound(r, cert' \/ unkept')
    BY <1>2 DEF Waits, Ceremony, Sound
  <1> QED BY <1>1, <1>2, <1>3, <1>4, <1>5 DEF Turn

\* p submits, or stands where a submission is answered.
Ready(p) ==
    \/ p = Answerer /\ call[p].at \in {"settle", "sent", "carry", "sign"}
    \/ /\ p \in Closer
       /\ \/ call[p].at \in {"broker", "sent", "carry", "sign"}
          \/ At(p, "flow") /\ call[p].rec # "active"

LEMMA ReadyFacts ==
    ASSUME CloseInv, NEW p \in Proc, Ready(p)
    PROVE  /\ call[p] \in Call /\ call[p].at # "done" /\ held \in BOOLEAN
           /\ p # Answerer => p \in Closer /\ InCeremony(p) /\ held
           /\ Sound(call[p], cert \/ unkept)
           /\ call[p].at \in {"broker", "flow", "settle", "sent", "carry", "sign"}
           /\ p = Answerer => ~At(p, "broker")
           /\ Listening(p) \in Closer \cup {NoCloser}
           /\ {waiter, uniWaiter} \subseteq Closer \cup {NoCloser}
           /\ p # Answerer /\ call[p].rec = "active" /\ call[p].got = "none" => Listening(p) = p
  <1>1. /\ call[p] \in Call /\ held \in BOOLEAN /\ {waiter, uniWaiter} \subseteq Closer \cup {NoCloser}
        /\ Sound(call[p], cert \/ unkept)
    BY DEF CloseInv, Answers
  <1>2. call[p].at \in {"broker", "flow", "settle", "sent", "carry", "sign"} /\ call[p].at # "done"
    BY DEF Ready, At
  <1>3. p # Answerer => p \in Closer /\ InCeremony(p)
    BY DEF Ready, At, InCeremony, Ceremony
  <1>4. p # Answerer => held
    BY <1>3 DEF CloseInv, LocksHaveOwners
  <1>5. p = Answerer => ~At(p, "broker")
    BY ProcFacts DEF Ready, At
  <1>6. p # Answerer /\ call[p].rec = "active" /\ call[p].got = "none" => Listening(p) = p
    BY <1>3 DEF Ready, At, Listening, CloseInv, Waiting, Waits
  <1>7. Listening(p) \in Closer \cup {NoCloser}
    BY <1>1, <1>3, <1>5 DEF Listening
  <1> QED BY <1>1, <1>2, <1>3, <1>4, <1>5, <1>6, <1>7

\* What follows a submission that went through is a turn.
LEMMA AfterSubmitTurn ==
    ASSUME CloseInv, NEW p \in Proc, Ready(p), NEW known \in BOOLEAN, AfterSubmit(p, known),
           UNCHANGED <<cert, unkept>>
    PROVE  \E r \in Call : Turn(p, r) /\ r.at \in {"idle", "await", "key", "done", "pull"}
  <1> DEFINE Goal == \E r \in Call : Turn(p, r) /\ r.at \in {"idle", "await", "key", "done", "pull"}
  <1>1. CASE p = Answerer
    <2>1. call' = [call EXCEPT ![p] = Idle] /\ UNCHANGED <<held, waiter, uniWaiter>>
      BY <1>1 DEF AfterSubmit
    <2>2. Sound(Idle, cert' \/ unkept')
      BY Records DEF Sound
    <2> QED BY <1>1, <2>1, <2>2, ReadyFacts, Records DEF Turn
  <1>2. CASE p # Answerer /\ call[p].rec = "active"
    <2> DEFINE r == [Idle EXCEPT !.at = "await", !.root = known, !.got = call[p].got]
    <2>1. call' = [call EXCEPT ![p] = r] /\ waiter' = Listening(p) /\ UNCHANGED <<held, uniWaiter>>
      BY <1>2 DEF AfterSubmit
    <2>2. r \in Call /\ r.at = "await" /\ r.got = call[p].got /\ r.ans = "none"
      BY ReadyFacts DEF Call, Idle, Status, Answer
    <2> HIDE DEF r
    <2>3. Sound(r, cert' \/ unkept') /\ r.at \in Ceremony
      BY <2>2, ReadyFacts DEF Sound, Ceremony
    <2>4. Waits(r) => waiter' = p
      BY <1>2, <2>1, <2>2, ReadyFacts DEF Waits
    <2>5. Turn(p, r)
      BY <1>2, <2>1, <2>2, <2>3, <2>4, ReadyFacts DEF Turn
    <2> QED BY <2>2, <2>5
  <1>3. CASE p # Answerer /\ EndClose(p, "other") /\ UNCHANGED <<waiter, uniWaiter>>
    <2>1. "other" \in Answer
      BY DEF Answer
    <2>2. \E r \in Call : Turn(p, r) /\ r.at \in {"done", "pull"}
      BY <1>3, <2>1, ReadyFacts, EndCloseTurn
    <2> QED BY <2>2
  <1>4. CASE p # Answerer /\ Escalate(p) /\ UNCHANGED waiter
    <2>1. \E r \in Call : Turn(p, r) /\ r.at = "key"
      BY <1>4, ReadyFacts, EscalateTurn
    <2> QED BY <2>1
  <1> QED BY <1>1, <1>2, <1>3, <1>4 DEF AfterSubmit

\* What follows one that did not go through is a turn.
LEMMA AfterFailureTurn ==
    ASSUME CloseInv, NEW p \in Proc, Ready(p), AfterFailure(p), UNCHANGED <<cert, unkept>>
    PROVE  \E r \in Call : Turn(p, r) /\ r.at \in {"idle", "flow", "done", "pull"}
  <1>0. "other" \in Answer /\ "sealed" \in Answer /\ cert \in BOOLEAN
    BY DEF Answer, CloseInv
  <1>1. CASE p = Answerer
    <2>1. call' = [call EXCEPT ![p] = Idle] /\ UNCHANGED <<held, waiter, uniWaiter>>
      BY <1>1 DEF AfterFailure
    <2>2. Sound(Idle, cert' \/ unkept')
      BY Records DEF Sound
    <2> QED BY <1>1, <2>1, <2>2, ReadyFacts, Records DEF Turn
  <1>2. CASE p # Answerer /\ {waiter', uniWaiter'} \subseteq Closer \cup {NoCloser}
             /\ \/ EndClose(p, IF cert THEN "sealed" ELSE "other")
                \/ EndClose(p, "other")
    <2>1. CASE EndClose(p, "other")
      <3>1. \E r \in Call : Turn(p, r) /\ r.at \in {"done", "pull"}
        BY <1>0, <1>2, <2>1, ReadyFacts, EndCloseTurn
      <3> QED BY <3>1
    <2>2. CASE cert /\ EndClose(p, "sealed")
      <3>1. \E r \in Call : Turn(p, r) /\ r.at \in {"done", "pull"}
        BY <1>0, <1>2, <2>2, ReadyFacts, EndCloseTurn
      <3> QED BY <3>1
    <2> QED BY <1>0, <1>2, <2>1, <2>2
  <1>3. CASE p # Answerer /\ waiter' = NoCloser /\ UNCHANGED <<uniWaiter, held>>
             /\ call' = [call EXCEPT ![p] = [Idle EXCEPT !.at = "flow"]]
    <2> DEFINE r == [Idle EXCEPT !.at = "flow"]
    <2>1. r \in Call /\ r.at = "flow" /\ r.got = "none" /\ r.ans = "none" /\ r.rec = "active"
      BY Records
    <2> HIDE DEF r
    <2>2. Sound(r, cert' \/ unkept') /\ r.at \in Ceremony /\ ~Waits(r)
      BY <2>1 DEF Sound, Ceremony, Waits
    <2>3. Turn(p, r)
      BY <1>3, <2>1, <2>2, ReadyFacts DEF Turn, r
    <2> QED BY <2>1, <2>3
  <1>4. p = Answerer \/ {waiter', uniWaiter'} \subseteq Closer \cup {NoCloser}
    BY ReadyFacts DEF AfterFailure
  <1> QED BY <1>1, <1>2, <1>3, <1>4 DEF AfterFailure

\* p may submit: it has its broker, or asked the counterparty, or is the automatic answer.
MaySubmit(p) ==
    \/ p = Answerer /\ At(p, "settle")
    \/ p \in Closer /\ (At(p, "broker") \/ (At(p, "flow") /\ call[p].rec # "active"))

\* A submission came to something without a new leaf, ...
Settled(r) ==
    /\ r.at \in {"idle", "await", "key", "done", "pull", "flow", "carry"}
    /\ UNCHANGED <<signed, wire, silent>>
    /\ mark' = mark \/ (mark' = "known" /\ OwnIn(carry) # {})

\* ... or with one, which the relay is going to order or to refuse.
Submitted(r) ==
    /\ Unsubmitted /\ CanSign
    /\ r.at = "sent" /\ r.leaf = signed + 1
    /\ mark' = "busy" /\ signed' = signed + 1 /\ wire' = wire \cup {signed + 1}
    /\ UNCHANGED silent

\* A leaf that may still be signed is one of the leaves.
LEMMA NewLeaf ==
    ASSUME signed \in 0..MaxLeaves, CanSign
    PROVE  signed + 1 \in Leaf /\ signed + 1 \in 0..MaxLeaves /\ signed + 1 # 0
  BY CloserAssumption DEF CanSign, Leaf

\* submitSealLeaf up to its first await is a turn.
LEMMA SubmitTurn ==
    ASSUME CloseInv, LeavesOK, NEW p \in Proc, MaySubmit(p), Submit(p), UNCHANGED <<cert, unkept>>
    PROVE  \E r \in Call : Turn(p, r) /\ (Settled(r) \/ Submitted(r))
  <1>1. Ready(p)
    BY DEF MaySubmit, Ready, At
  <1>2. ASSUME NEW known \in BOOLEAN, AfterSubmit(p, known), UNCHANGED <<signed, wire, silent>>,
               mark' = mark \/ (mark' = "known" /\ OwnIn(carry) # {})
        PROVE  \E r \in Call : Turn(p, r) /\ Settled(r)
    <2>1. PICK r \in Call : Turn(p, r) /\ r.at \in {"idle", "await", "key", "done", "pull"}
      BY <1>1, <1>2, AfterSubmitTurn
    <2> QED BY <1>2, <2>1 DEF Settled
  <1>3. CASE AfterFailure(p) /\ UNCHANGED <<mark, signed, wire, silent>>
    <2>1. PICK r \in Call : Turn(p, r) /\ r.at \in {"idle", "flow", "done", "pull"}
      BY <1>1, <1>3, AfterFailureTurn
    <2> QED BY <1>3, <2>1 DEF Settled
  <1>4. CASE /\ call' = [call EXCEPT ![p].at = "carry"] /\ waiter' = Listening(p)
             /\ UNCHANGED <<mark, signed, wire, silent, held, uniWaiter>>
    <2> DEFINE r == [call[p] EXCEPT !.at = "carry"]
    <2>1. /\ r \in Call /\ r.at = "carry" /\ r.got = call[p].got /\ r.ans = call[p].ans
          /\ r.rec = call[p].rec /\ call' = [call EXCEPT ![p] = r]
      BY <1>1, <1>4, ReadyFacts DEF Call
    <2> HIDE DEF r
    <2>2. Sound(r, cert' \/ unkept') /\ r.at \in Ceremony
      BY <1>1, <2>1, ReadyFacts DEF Sound, Ceremony
    <2>3. p # Answerer /\ Waits(r) => waiter' = p
      BY <1>1, <1>4, <2>1, ReadyFacts DEF Waits
    <2>4. p = Answerer => waiter' = waiter
      BY <1>1, <1>4, ReadyFacts DEF Listening
    <2>5. Turn(p, r)
      BY <1>1, <1>4, <2>1, <2>2, <2>3, <2>4, ReadyFacts DEF Turn
    <2> QED BY <1>4, <2>1, <2>5 DEF Settled
  <1>5. CASE mark # "none" /\ AfterSubmit(p, mark = "known") /\ UNCHANGED <<mark, signed, wire, silent>>
    BY <1>2, <1>5
  <1>6. CASE /\ mark = "none" /\ OwnIn(carry) # {} /\ mark' = "known" /\ AfterSubmit(p, TRUE)
             /\ UNCHANGED <<signed, wire, silent>>
    BY <1>2, <1>6
  <1>7. CASE /\ Unsubmitted /\ mark' = "busy" /\ CanSign /\ signed' = signed + 1
             /\ wire' = wire \cup {signed + 1}
             /\ call' = [call EXCEPT ![p].at = "sent", ![p].leaf = signed + 1]
             /\ waiter' = Listening(p) /\ UNCHANGED <<silent, held, uniWaiter>>
    <2> DEFINE r == [call[p] EXCEPT !.at = "sent", !.leaf = signed + 1]
    <2>1. signed + 1 \in Leaf
      BY <1>7, NewLeaf DEF LeavesOK
    <2>2. /\ r \in Call /\ r.at = "sent" /\ r.got = call[p].got /\ r.ans = call[p].ans
          /\ r.rec = call[p].rec /\ r.leaf = signed + 1
      BY <1>1, <2>1, ReadyFacts DEF Call
    <2>3. call' = [call EXCEPT ![p] = r]
      BY <1>7 DEF CloseInv
    <2> HIDE DEF r
    <2>4. Sound(r, cert' \/ unkept') /\ r.at \in Ceremony
      BY <1>1, <2>2, ReadyFacts DEF Sound, Ceremony
    <2>5. p # Answerer /\ Waits(r) => waiter' = p
      BY <1>1, <1>7, <2>2, ReadyFacts DEF Waits
    <2>6. p = Answerer => waiter' = waiter
      BY <1>1, <1>7, ReadyFacts DEF Listening
    <2>7. Turn(p, r)
      BY <1>1, <1>7, <2>2, <2>3, <2>4, <2>5, <2>6, ReadyFacts DEF Turn
    <2> QED BY <1>7, <2>2, <2>7 DEF Submitted
  <1> QED BY <1>3, <1>4, <1>5, <1>6, <1>7 DEF Submit

-----------------------------------------------------------------------------
(* The closing leaves.                                                     *)

\* The answer is given once as long as nothing is delivered.
LEMMA AnswerStays ==
    ASSUME LeafInv, UNCHANGED <<log, seen>>, At(Answerer, "idle") => At(Answerer, "idle")'
    PROVE  AnswerOnce'
  BY DEF LeafInv, AnswerOnce

\* The turn of one that has begun starts no answer.
LEMMA BegunAnswer ==
    ASSUME CloseInv, NEW p \in Proc, NEW r, call' = [call EXCEPT ![p] = r],
           ~At(p, "idle") \/ p # Answerer
    PROVE  At(Answerer, "idle") => At(Answerer, "idle")'
  BY DEF CloseInv, At, Proc

\* Nothing changes for the leaves when no submission starts or ends and no leaf moves.
LEMMA LeafStays ==
    ASSUME LeafInv, call \in [Proc -> Call], UNCHANGED <<signed, silent, carry, wire, log>>,
           UNCHANGED seen, At(Answerer, "idle") => At(Answerer, "idle")',
           mark' = mark \/ (mark' = "known" /\ OwnIn(carry) # {}),
           \A q \in Proc : (At(q, "sent")' <=> At(q, "sent")) /\ (At(q, "sent") => call'[q].leaf = call[q].leaf),
           ~silent => \A q \in Proc : At(q, "sign")' => At(q, "sign")
    PROVE  LeafInv'
  <1>1. LeavesOK'
    BY DEF LeafInv, LeavesOK
  <1>2. ASSUME ~silent PROVE Remembered'
    <2>1. Sent' = Sent
      BY DEF Sent
    <2>2. \A q \in Sent : call'[q].leaf = call[q].leaf
      BY DEF Sent
    <2>3. OwnOrdered' = OwnOrdered /\ OwnIn(carry)' = OwnIn(carry)
      BY DEF OwnOrdered, Ordered, OwnIn
    <2>4. Remembered
      BY <1>2 DEF LeafInv
    <2> QED BY <1>2, <2>1, <2>2, <2>3, <2>4 DEF Remembered
  <1> QED BY <1>1, <1>2, AnswerStays DEF LeafInv

\* A submission leaves every leaf remembered.
LEMMA SubmitLeaves ==
    ASSUME CloseInv, LeafInv, NEW p \in Proc, MaySubmit(p), NEW r \in Call, Turn(p, r),
           Settled(r) \/ Submitted(r), UNCHANGED <<carry, log, seen>>
    PROVE  LeafInv'
  <1>1. call \in [Proc -> Call] /\ call' = [call EXCEPT ![p] = r] /\ ~At(p, "sent")
    BY DEF CloseInv, Turn, MaySubmit, At
  <1>2. LeavesOK /\ (At(Answerer, "idle") => At(Answerer, "idle")')
    <2>1. ~At(p, "idle")
      BY DEF MaySubmit, At
    <2> QED BY <1>1, <2>1, BegunAnswer DEF LeafInv
  <1>3. CASE Settled(r)
    <2>1. \A q \in Proc : /\ At(q, "sent")' <=> At(q, "sent")
                          /\ At(q, "sent") => call'[q].leaf = call[q].leaf
                          /\ At(q, "sign")' => At(q, "sign")
      BY <1>1, <1>3 DEF At, Settled
    <2> QED BY <1>1, <1>2, <1>3, <2>1, LeafStays DEF Settled, LeavesOK
  <1>4. CASE Submitted(r)
    <2>1. signed + 1 \in Leaf /\ signed + 1 \in 0..MaxLeaves /\ signed + 1 # 0
      BY <1>2, <1>4, NewLeaf DEF Submitted, LeavesOK
    <2>2. LeavesOK'
      BY <1>2, <1>4, <2>1 DEF LeavesOK, Submitted
    <2>3. ASSUME ~silent PROVE Remembered'
      <3>1. Remembered
        BY <2>3 DEF LeafInv
      <3>2. mark = "none" /\ OwnIn(carry) = {} /\ mark' = "busy" /\ wire' = wire \cup {signed + 1}
        BY <1>4 DEF Submitted, Unsubmitted
      <3>3. Sent = {}
        BY <3>1, <3>2 DEF Remembered
      <3>4. wire = {} /\ OwnOrdered = {}
        BY <3>1, <3>2, <3>3 DEF Remembered
      <3>5. OwnOrdered' = {} /\ OwnIn(carry)' = {}
        BY <3>2, <3>4 DEF OwnOrdered, Ordered, OwnIn
      <3>6. Sent' = {p} /\ call'[p].leaf = signed + 1 /\ \A q \in Proc : ~At(q, "sign")'
        BY <1>1, <1>4, <3>1, <3>3 DEF Sent, At, Submitted, Remembered
      <3>7. wire' = {signed + 1}
        BY <3>2, <3>4
      <3> QED BY <2>1, <3>1, <3>2, <3>5, <3>6, <3>7 DEF Remembered
    <2> QED BY <1>2, <1>4, <2>2, <2>3, AnswerStays DEF LeafInv, Submitted
  <1> QED BY <1>3, <1>4

-----------------------------------------------------------------------------
(* One lemma per action: its turn, and what becomes of the leaves.         *)

\* What a turn that touches neither frames nor certificates needs.
LEMMA OrderlyRest ==
    ASSUME CloseInv, NEW p, NEW r, UNCHANGED <<cert, unkept, verifying, mail, dir>>,
           mark' \in {mark, "none", "busy", "known"},
           mark' = "busy" => r.at = "sent" \/ (mark = "busy" /\ call[p].at # "sent")
    PROVE  Orderly(p, r)
  BY DEF CloseInv, Orderly, Decided

\* The store keeps what it has, and takes what is new.
LEMMA PutFacts ==
    ASSUME LeavesOK, NEW pos \in Nat \ {0}, NEW l \in {0} \cup Leaf
    PROVE  /\ Put(pos, l) \subseteq (Nat \ {0}) \X ({0} \cup Leaf) /\ IsFiniteSet(Put(pos, l))
           /\ carry \subseteq Put(pos, l)
           /\ \A e \in Put(pos, l) : e \in carry \/ e = <<pos, l>>
           /\ \E e \in Put(pos, l) : e[1] = pos
  <1>1. carry \subseteq (Nat \ {0}) \X ({0} \cup Leaf) /\ IsFiniteSet(carry)
    BY DEF LeavesOK
  <1>2. IsFiniteSet(carry \cup {<<pos, l>>})
    BY <1>1, FS_AddElement
  <1>3. CASE \E e \in carry : e[1] = pos
    BY <1>1, <1>3 DEF Put
  <1>4. CASE ~\E e \in carry : e[1] = pos
    <2>1. Put(pos, l) = carry \cup {<<pos, l>>}
      BY <1>4 DEF Put
    <2>2. <<pos, l>> \in Put(pos, l) /\ <<pos, l>>[1] = pos
          /\ <<pos, l>> \in (Nat \ {0}) \X ({0} \cup Leaf)
      BY <2>1
    <2>3. Put(pos, l) \subseteq (Nat \ {0}) \X ({0} \cup Leaf) /\ IsFiniteSet(Put(pos, l))
      BY <1>1, <1>2, <2>1, <2>2
    <2> QED BY <2>1, <2>2, <2>3
  <1> QED BY <1>3, <1>4

\* An own leaf that is stored is found there.
LEMMA OwnInFact ==
    ASSUME NEW set, NEW e \in set, e[2] # 0
    PROVE  OwnIn(set) # {}
  BY DEF OwnIn

LEMMA SubmitAckedOK ==
    ASSUME CloseInv, LeafInv, NEW p \in Proc, SubmitAcked(p)
    PROVE  CloseInv' /\ LeafInv'
  <1>1. /\ At(p, "sent") /\ mark' = "known" /\ AfterSubmit(p, TRUE)
        /\ UNCHANGED <<unkept, verifying, cert, log, seen, mail, dir, wire, signed, silent>>
    BY DEF SubmitAcked, submitRest
  <1>2. PICK i \in 1..Len(log) : log[i] = call[p].leaf /\ carry' = Put(i, call[p].leaf)
    BY DEF SubmitAcked
  <1>3. PICK r \in Call : Turn(p, r) /\ r.at \in {"idle", "await", "key", "done", "pull"}
    <2>1. Ready(p)
      BY <1>1 DEF Ready, At, Proc
    <2> QED BY <1>1, <2>1, AfterSubmitTurn
  <1>4. CloseInv'
    BY <1>1, <1>3, OrderlyRest, TurnOK
  <1>5. LeavesOK /\ call[p].leaf \in {0} \cup Leaf /\ i \in Nat \ {0}
    BY DEF LeafInv, CloseInv, Call, LeavesOK
  <1>6. LeavesOK'
    BY <1>1, <1>2, <1>5, PutFacts DEF LeavesOK
  <1>7. ASSUME ~silent PROVE Remembered'
    <2>1. Remembered
      BY <1>7 DEF LeafInv
    <2>2. p \in Sent /\ Sent = {p} /\ call[p].leaf \in Leaf
      BY <1>1, <1>5, <2>1 DEF Sent, Remembered
    <2>3. \A e \in carry' : e[1] \in 1..Len(log) /\ e[2] = log[e[1]]
      <3>1. \A e \in carry' : e \in carry \/ e = <<i, call[p].leaf>>
        BY <1>2, <1>5, PutFacts
      <3> QED BY <1>2, <2>1, <3>1 DEF Remembered
    <2>4. OwnIn(carry') # {}
      <3>1. PICK e \in carry' : e[1] = i
        BY <1>2, <1>5, PutFacts
      <3>2. e[2] = call[p].leaf /\ call[p].leaf # 0
        BY <1>2, <2>1, <2>2, <2>3, <3>1 DEF Remembered
      <3> QED BY <3>1, <3>2, OwnInFact
    <2>5. OwnOrdered' = OwnOrdered /\ call[p].leaf \in OwnOrdered
      BY <1>1, <1>2, <2>2 DEF OwnOrdered, Ordered
    <2>6. wire = {}
      BY <2>1, <2>2, <2>5 DEF Remembered
    <2>7. Sent' = {} /\ \A q \in Proc : ~At(q, "sign")'
      BY <1>3, <2>1, <2>2 DEF Sent, At, Turn, CloseInv, Remembered
    <2>8. OwnIn(carry)' # {}
      BY <2>4 DEF OwnIn
    <2> QED BY <1>1, <2>1, <2>3, <2>5, <2>6, <2>7, <2>8 DEF Remembered
  <1>8. AnswerOnce'
    BY <1>1, <1>3, BegunAnswer, AnswerStays DEF Turn, At
  <1> QED BY <1>1, <1>4, <1>6, <1>7, <1>8 DEF LeafInv

LEMMA SubmitRefusedOK ==
    ASSUME CloseInv, LeafInv, NEW p \in Proc, SubmitRefused(p)
    PROVE  CloseInv' /\ LeafInv'
  <1> DEFINE l == call[p].leaf
  <1>1. /\ At(p, "sent") /\ l \in wire
        /\ UNCHANGED <<unkept, verifying, cert, log, seen, mail, dir, carry, silent>>
    BY DEF SubmitRefused, submitRest
  <1>2. Ready(p) /\ LeavesOK /\ call \in [Proc -> Call] /\ held \in BOOLEAN
    BY <1>1 DEF Ready, At, Proc, LeafInv, CloseInv
  <1>3. \* What is known of the only submission.
        ~silent => /\ Remembered /\ Sent = {p} /\ wire = {l} /\ OwnOrdered = {} /\ OwnIn(carry) = {}
    <2>1. SUFFICES ASSUME ~silent
                   PROVE  Remembered /\ Sent = {p} /\ wire = {l} /\ OwnOrdered = {} /\ OwnIn(carry) = {}
      OBVIOUS
    <2>2. Remembered /\ p \in Sent
      BY <1>1, <2>1 DEF LeafInv, Sent
    <2>3. Sent = {p} /\ wire = {l}
      BY <1>1, <2>2 DEF Remembered
    <2>4. OwnOrdered = {}
      BY <2>2, <2>3 DEF Remembered
    <2>5. OwnIn(carry) = {}
      <3>1. \A e \in carry : e[2] \in {0} \cup Leaf /\ e[1] \in 1..Len(log) /\ e[2] = log[e[1]]
        BY <1>2, <2>2 DEF LeavesOK, Remembered
      <3>2. \A e \in carry : e[2] # 0 => e[2] \in OwnOrdered
        BY <3>1 DEF OwnOrdered, Ordered
      <3> QED BY <2>4, <3>2 DEF OwnIn
    <2> QED BY <2>2, <2>3, <2>4, <2>5
  <1>4. OwnOrdered' = OwnOrdered /\ OwnIn(carry)' = OwnIn(carry)
    BY <1>1 DEF OwnOrdered, Ordered, OwnIn
  <1>5. CASE /\ CanSign /\ signed' = signed + 1 /\ wire' = (wire \ {l}) \cup {signed + 1}
             /\ call' = [call EXCEPT ![p].leaf = signed + 1]
             /\ UNCHANGED <<mark, held, waiter, uniWaiter>>
    <2> DEFINE r == [call[p] EXCEPT !.leaf = signed + 1]
    <2>1. signed + 1 \in Leaf /\ signed + 1 \in 0..MaxLeaves /\ signed + 1 # 0
      BY <1>2, <1>5, NewLeaf DEF LeavesOK
    <2>2. /\ r \in Call /\ r.at = "sent" /\ r.got = call[p].got /\ r.ans = call[p].ans
          /\ r.rec = call[p].rec /\ r.leaf = signed + 1
      BY <1>1, <1>2, <2>1 DEF Call, At
    <2>3. call' = [call EXCEPT ![p] = r]
      BY <1>2, <1>5
    <2> HIDE DEF r
    <2>4. Sound(r, cert' \/ unkept') /\ r.at \in Ceremony /\ (Waits(r) => Waits(call[p]))
      BY <1>1, <1>2, <2>2, ReadyFacts DEF Sound, Ceremony, Waits, At
    <2>5. p \in Closer /\ Waits(r) => waiter = p
      BY <2>4 DEF CloseInv, Waiting
    <2>6. Turn(p, r)
      BY <1>2, <1>5, <2>2, <2>3, <2>4, <2>5, ReadyFacts DEF Turn
    <2>7. CloseInv'
      BY <1>1, <1>5, <2>2, <2>6, OrderlyRest, TurnOK
    <2>8. LeavesOK'
      BY <1>1, <1>2, <1>5, <2>1 DEF LeavesOK
    <2>9. ASSUME ~silent PROVE Remembered'
      <3>1. Sent' = {p} /\ call'[p].leaf = signed + 1 /\ \A q \in Proc : ~At(q, "sign")'
        BY <1>2, <1>3, <2>2, <2>3, <2>9 DEF Sent, At, Remembered
      <3>2. wire' = {signed + 1} /\ OwnOrdered' = {} /\ OwnIn(carry)' = {} /\ mark' = mark
        BY <1>3, <1>4, <1>5, <2>9
      <3>3. mark # "none" /\ mark # "known" /\ \A e \in carry : e[1] \in 1..Len(log) /\ e[2] = log[e[1]]
        BY <1>3, <2>9 DEF Remembered
      <3> QED BY <1>1, <2>1, <3>1, <3>2, <3>3 DEF Remembered
    <2>10. AnswerOnce'
      BY <1>1, <2>3, BegunAnswer, AnswerStays DEF At
    <2> QED BY <1>1, <2>7, <2>8, <2>9, <2>10 DEF LeafInv
  <1>6. CASE wire' = wire \ {l} /\ mark' = "none" /\ AfterFailure(p) /\ UNCHANGED signed
    <2>1. PICK r \in Call : Turn(p, r) /\ r.at \in {"idle", "flow", "done", "pull"}
      BY <1>1, <1>2, <1>6, AfterFailureTurn
    <2>2. CloseInv'
      BY <1>1, <1>6, <2>1, OrderlyRest, TurnOK DEF At
    <2>3. LeavesOK'
      BY <1>1, <1>2, <1>6 DEF LeavesOK
    <2>4. ASSUME ~silent PROVE Remembered'
      <3>1. Sent' = {} /\ \A q \in Proc : ~At(q, "sign")'
        BY <1>2, <1>3, <2>1, <2>4 DEF Sent, At, Remembered, Turn
      <3>2. wire' = {} /\ OwnOrdered' = {} /\ OwnIn(carry)' = {}
        BY <1>3, <1>4, <1>6, <2>4
      <3>3. \A e \in carry : e[1] \in 1..Len(log) /\ e[2] = log[e[1]]
        BY <1>3, <2>4 DEF Remembered
      <3> QED BY <1>1, <1>6, <3>1, <3>2, <3>3 DEF Remembered
    <2>5. AnswerOnce'
      BY <1>1, <2>1, BegunAnswer, AnswerStays DEF Turn, At
    <2> QED BY <1>1, <2>2, <2>3, <2>4, <2>5 DEF LeafInv
  <1> QED BY <1>5, <1>6 DEF SubmitRefused

LEMMA SubmitUnansweredOK ==
    ASSUME CloseInv, LeafInv, NEW p \in Proc, SubmitUnanswered(p)
    PROVE  CloseInv' /\ LeafInv'
  <1> DEFINE r == [call[p] EXCEPT !.at = "carry", !.leaf = 0]
  <1>1. /\ At(p, "sent") /\ mark' = "none" /\ silent' = TRUE
        /\ UNCHANGED <<unkept, verifying, cert, log, seen, mail, dir, carry, wire, signed,
                       held, waiter, uniWaiter>>
    BY DEF SubmitUnanswered, submitRest
  <1>2. Ready(p) /\ call \in [Proc -> Call]
    BY <1>1 DEF Ready, At, Proc, CloseInv
  <1>3. /\ r \in Call /\ r.at = "carry" /\ r.got = call[p].got /\ r.ans = call[p].ans
        /\ r.rec = call[p].rec
    BY <1>2 DEF Call
  <1>4. call' = [call EXCEPT ![p] = r]
    BY <1>2 DEF SubmitUnanswered
  <1> HIDE DEF r
  <1>5. Sound(r, cert' \/ unkept') /\ r.at \in Ceremony /\ (Waits(r) => Waits(call[p]))
    BY <1>1, <1>2, <1>3, ReadyFacts DEF Sound, Ceremony, Waits, At
  <1>6. p \in Closer /\ Waits(r) => waiter = p
    BY <1>5 DEF CloseInv, Waiting
  <1>7. Turn(p, r)
    BY <1>1, <1>2, <1>3, <1>4, <1>5, <1>6, ReadyFacts DEF Turn
  <1>8. CloseInv'
    BY <1>1, <1>7, OrderlyRest, TurnOK
  <1>9. AnswerOnce'
    BY <1>1, <1>4, BegunAnswer, AnswerStays DEF At
  <1> QED BY <1>1, <1>8, <1>9 DEF LeafInv, LeavesOK

LEMMA CarryBuildOK ==
    ASSUME CloseInv, LeafInv, NEW p \in Proc, CarryBuild(p)
    PROVE  CloseInv' /\ LeafInv'
  <1>1. /\ At(p, "carry") /\ UNCHANGED carry /\ UNCHANGED wire
        /\ UNCHANGED <<unkept, verifying, cert, log, seen, mail, dir>>
    BY DEF CarryBuild, submitRest
  <1>2. Ready(p) /\ call \in [Proc -> Call] /\ LeavesOK /\ mark \in {"none", "busy", "known"}
    BY <1>1 DEF Ready, At, Proc, CloseInv, LeafInv
  <1>3. ASSUME NEW r \in Call, Turn(p, r), r.at \in {"idle", "await", "key", "done", "pull", "flow"},
               mark' = mark \/ (mark' = "known" /\ OwnIn(carry) # {}),
               UNCHANGED <<signed, silent>>
        PROVE  CloseInv' /\ LeafInv'
    <2>1. CloseInv'
      <3>1. mark' = "busy" => mark = "busy" /\ call[p].at # "sent"
        BY <1>1, <1>3 DEF At
      <3>2. mark' \in {mark, "none", "busy", "known"}
        BY <1>3
      <3>3. Orderly(p, r)
        BY <1>1, <3>1, <3>2, OrderlyRest
      <3> QED BY <1>3, <3>3, TurnOK
    <2>2. \A q \in Proc : /\ At(q, "sent")' <=> At(q, "sent")
                          /\ At(q, "sent") => call'[q].leaf = call[q].leaf
                          /\ At(q, "sign")' => At(q, "sign")
      BY <1>1, <1>2, <1>3 DEF At, Turn
    <2>3. At(Answerer, "idle") => At(Answerer, "idle")'
      BY <1>1, <1>3, BegunAnswer DEF Turn, At
    <2> QED BY <1>1, <1>2, <1>3, <2>1, <2>2, <2>3, LeafStays
  <1>4. CASE AfterFailure(p) /\ UNCHANGED <<mark, signed, silent>>
    <2>1. PICK r \in Call : Turn(p, r) /\ r.at \in {"idle", "flow", "done", "pull"}
      BY <1>1, <1>2, <1>4, AfterFailureTurn
    <2> QED BY <1>3, <1>4, <2>1
  <1>5. CASE OwnIn(carry) # {} /\ mark' = "known" /\ AfterSubmit(p, TRUE)
             /\ UNCHANGED <<signed, silent>>
    <2>1. PICK r \in Call : Turn(p, r) /\ r.at \in {"idle", "await", "key", "done", "pull"}
      BY <1>1, <1>2, <1>5, AfterSubmitTurn
    <2> QED BY <1>3, <1>5, <2>1
  <1>6. CASE /\ CanSign /\ signed' = signed + 1 /\ silent' = TRUE
             /\ call' = [call EXCEPT ![p].at = "sign", ![p].leaf = signed + 1,
                                     ![p].pos = Cardinality(carry) + 1]
             /\ UNCHANGED <<mark, held, waiter, uniWaiter>>
    <2> DEFINE r == [call[p] EXCEPT !.at = "sign", !.leaf = signed + 1,
                                    !.pos = Cardinality(carry) + 1]
    <2>1. signed + 1 \in Leaf /\ signed + 1 \in 0..MaxLeaves
      BY <1>2, <1>6, NewLeaf DEF LeavesOK
    <2>2. Cardinality(carry) + 1 \in Nat /\ Cardinality(carry) + 1 # 0
      <3>1. Cardinality(carry) \in Nat
        BY <1>2, FS_CardinalityType DEF LeavesOK
      <3> QED BY <3>1
    <2>3. /\ r \in Call /\ r.at = "sign" /\ r.got = call[p].got /\ r.ans = call[p].ans
          /\ r.rec = call[p].rec /\ r.pos # 0
      BY <1>2, <2>1, <2>2 DEF Call
    <2>4. call' = [call EXCEPT ![p] = r]
      BY <1>2, <1>6
    <2> HIDE DEF r
    <2>5. Sound(r, cert' \/ unkept') /\ r.at \in Ceremony /\ (Waits(r) => Waits(call[p]))
      BY <1>1, <1>2, <2>3, ReadyFacts DEF Sound, Ceremony, Waits, At
    <2>6. p \in Closer /\ Waits(r) => waiter = p
      BY <2>5 DEF CloseInv, Waiting
    <2>7. Turn(p, r)
      BY <1>2, <1>6, <2>3, <2>4, <2>5, <2>6, ReadyFacts DEF Turn
    <2>8. CloseInv'
      BY <1>1, <1>2, <1>6, <2>7, OrderlyRest, TurnOK DEF At
    <2>9. AnswerOnce'
      BY <1>1, <2>4, BegunAnswer, AnswerStays DEF At
    <2> QED BY <1>1, <1>2, <1>6, <2>1, <2>8, <2>9 DEF LeafInv, LeavesOK
  <1> QED BY <1>4, <1>5, <1>6 DEF CarryBuild

LEMMA CarryStoreOK ==
    ASSUME CloseInv, LeafInv, NEW p \in Proc, CarryStore(p)
    PROVE  CloseInv' /\ LeafInv'
  <1>1. /\ At(p, "sign")
        /\ UNCHANGED <<unkept, verifying, cert, log, seen, mail, dir, wire, signed, silent>>
    BY DEF CarryStore, submitRest
  <1>2. Ready(p) /\ call \in [Proc -> Call] /\ LeavesOK /\ mark \in {"none", "busy", "known"}
    BY <1>1 DEF Ready, At, Proc, CloseInv, LeafInv
  <1>3. silent
    BY <1>1 DEF LeafInv, LeavesOK, Remembered
  <1>4. CASE carry' = Put(call[p].pos, call[p].leaf) /\ mark' = "known" /\ AfterSubmit(p, TRUE)
    <2>1. PICK r \in Call : Turn(p, r) /\ r.at \in {"idle", "await", "key", "done", "pull"}
      BY <1>1, <1>2, <1>4, AfterSubmitTurn
    <2>2. CloseInv'
      BY <1>1, <1>4, <2>1, OrderlyRest, TurnOK
    <2>3. call[p].pos \in Nat \ {0} /\ call[p].leaf \in {0} \cup Leaf
      BY <1>1, <1>2, ReadyFacts DEF Call, Sound, At
    <2>4. carry' \subseteq (Nat \ {0}) \X ({0} \cup Leaf) /\ IsFiniteSet(carry')
      <3>1. PICK k \in Nat \ {0}, l \in {0} \cup Leaf : k = call[p].pos /\ l = call[p].leaf
        BY <2>3
      <3>2. carry' = Put(k, l)
        BY <1>4, <3>1
      <3> QED BY <1>2, <3>2, PutFacts
    <2>5. LeavesOK'
      BY <1>1, <1>2, <2>4 DEF LeavesOK
    <2>6. AnswerOnce'
      BY <1>1, <2>1, BegunAnswer, AnswerStays DEF Turn, At
    <2> QED BY <1>1, <1>3, <2>2, <2>5, <2>6 DEF LeafInv
  <1>5. CASE AfterFailure(p) /\ UNCHANGED <<carry, mark>>
    <2>1. PICK r \in Call : Turn(p, r) /\ r.at \in {"idle", "flow", "done", "pull"}
      BY <1>1, <1>2, <1>5, AfterFailureTurn
    <2>2. CloseInv'
      BY <1>1, <1>2, <1>5, <2>1, OrderlyRest, TurnOK DEF At
    <2>3. LeavesOK'
      BY <1>1, <1>2, <1>5 DEF LeavesOK
    <2>4. AnswerOnce'
      BY <1>1, <2>1, BegunAnswer, AnswerStays DEF Turn, At
    <2> QED BY <1>1, <1>3, <2>2, <2>3, <2>4 DEF LeafInv
  <1> QED BY <1>4, <1>5 DEF CarryStore

\* Nothing of the session itself.
LEMMA LifeSame ==
    ASSUME LifeInv, UNCHANGED lifecycleVars
    PROVE  LifeInv'
  BY LifeStays DEF LifeInv, LifecycleTypeOK, lifecycleVars, rowAndNode, nodeVars

\* A turn that leaves the leaves alone.
LEMMA QuietTurn ==
    ASSUME CloseInv, LeafInv, NEW p \in Closer, NEW r \in Call, Turn(p, r),
           r.at \notin {"sent", "sign"}, ~At(p, "sent"), Orderly(p, r),
           UNCHANGED <<signed, silent, carry, wire, log, seen, mark>>
    PROVE  CloseInv' /\ LeafInv'
  <1>1. call \in [Proc -> Call] /\ call' = [call EXCEPT ![p] = r]
    BY DEF CloseInv, Turn
  <1>2. \A q \in Proc : /\ At(q, "sent")' <=> At(q, "sent")
                        /\ At(q, "sent") => call'[q].leaf = call[q].leaf
                        /\ At(q, "sign")' => At(q, "sign")
    BY <1>1 DEF At
  <1>3. p \in Proc /\ p # Answerer
    BY ProcFacts DEF Proc
  <1>4. At(Answerer, "idle") => At(Answerer, "idle")'
    BY <1>1, <1>3, BegunAnswer
  <1> QED BY <1>1, <1>2, <1>3, <1>4, LeafStays, TurnOK

\* A close outside the ceremony goes on outside, or takes the free session.
LEMMA OutsideTurn ==
    ASSUME CloseInv, NEW c \in Closer, NEW r \in Call, call' = [call EXCEPT ![c] = r],
           call[c].at \in {"idle", "gate", "force", "pull"},
           Sound(r, cert' \/ unkept'), r.at \notin {"sent", "carry", "sign", "await"},
           UNCHANGED <<waiter, uniWaiter>>,
           \/ r.at \notin Ceremony /\ UNCHANGED held
           \/ r.at \in Ceremony /\ ~held /\ held' = TRUE
    PROVE  Turn(c, r) /\ ~At(c, "sent")
  <1>1. ~InCeremony(c) /\ call[c].at # "done" /\ ~Waits(r) /\ c # Answerer /\ ~At(c, "sent")
    BY ProcFacts DEF InCeremony, Ceremony, Waits, At
  <1>2. {waiter', uniWaiter'} \subseteq Closer \cup {NoCloser}
    BY DEF CloseInv
  <1> QED BY <1>1, <1>2 DEF Turn

LEMMA StartOK ==
    ASSUME Inv, NEW c \in Closer, Start(c)
    PROVE  Inv'
  <1>1. /\ At(c, "idle") /\ UNCHANGED <<closeRest, waiter, uniWaiter>>
        /\ LifeInv /\ CloseInv /\ LeafInv /\ call \in [Proc -> Call] /\ c \in Proc
    BY DEF Start, Inv, CloseInv, Proc
  <1>2. PICK r : /\ call' = [call EXCEPT ![c] = r] /\ UNCHANGED held
                 /\ r \in {Ended("other"), [call[c] EXCEPT !.at = "gate", !.rec = status],
                           [call[c] EXCEPT !.at = "force", !.rec = status]}
    BY <1>1 DEF Start, Refused
  <1>3. status \in Status /\ call[c] \in Call /\ Sound(call[c], cert \/ unkept) /\ "other" \in Answer
    BY <1>1 DEF LifeInv, LifecycleTypeOK, CloseInv, Answers, Answer
  <1>4. /\ r \in Call /\ r.at \in {"done", "gate", "force"}
        /\ r.at # "done" => r.ans = call[c].ans /\ r.got = call[c].got
        /\ r.at = "done" => r.ans = "other" /\ r.got = "none"
    <2>1. CASE r = Ended("other")
      BY <1>3, <2>1, Records
    <2>2. CASE r = [call[c] EXCEPT !.at = "gate", !.rec = status]
      BY <1>3, <2>2 DEF Call
    <2>3. CASE r = [call[c] EXCEPT !.at = "force", !.rec = status]
      BY <1>3, <2>3 DEF Call
    <2> QED BY <1>2, <2>1, <2>2, <2>3
  <1>5. Sound(r, cert' \/ unkept')
    BY <1>1, <1>3, <1>4 DEF Sound, closeRest, history, At
  <1>6. Turn(c, r) /\ ~At(c, "sent")
    BY <1>1, <1>2, <1>4, <1>5, OutsideTurn DEF At, Ceremony
  <1>7. Orderly(c, r)
    BY <1>1, <1>6, OrderlyRest DEF closeRest, history, At
  <1>8. CloseInv' /\ LeafInv'
    BY <1>1, <1>4, <1>6, <1>7, QuietTurn DEF closeRest, history
  <1> QED BY <1>1, <1>8, LifeSame DEF closeRest, Inv

LEMMA ClaimOK ==
    ASSUME Inv, NEW c \in Closer, Claim(c)
    PROVE  Inv'
  <1>1. /\ At(c, "gate") /\ UNCHANGED <<closeRest, waiter, uniWaiter>>
        /\ LifeInv /\ CloseInv /\ LeafInv /\ call \in [Proc -> Call] /\ c \in Proc
    BY DEF Claim, Inv, CloseInv, Proc
  <1>2. PICK r : /\ call' = [call EXCEPT ![c] = r]
                 /\ \/ r = Ended("other") /\ UNCHANGED held
                    \/ /\ r \in {[call[c] EXCEPT !.at = "flow"], [call[c] EXCEPT !.at = "broker"]}
                       /\ ~held /\ held' = TRUE
    <2>1. CASE Refused(c)
      BY <2>1 DEF Refused
    <2>2. CASE /\ ~held /\ held' = TRUE
               /\ call' = [call EXCEPT ![c].at =
                              IF call[c].rec = "interrupted" THEN "flow" ELSE "broker"]
      BY <1>1, <2>2
    <2> QED BY <2>1, <2>2 DEF Claim
  <1>3. call[c] \in Call /\ Sound(call[c], cert \/ unkept) /\ "other" \in Answer
    BY <1>1 DEF CloseInv, Answers, Answer
  <1>4. r \in Call /\ r.at \in {"done", "flow", "broker"} /\ (r.at # "done" => r # Ended("other"))
    BY <1>2, <1>3, Records DEF Call
  <1>5. Sound(r, cert' \/ unkept')
    BY <1>1, <1>2, <1>3, Records DEF Sound, closeRest, history, Call, At
  <1>6. (r.at \notin Ceremony /\ UNCHANGED held) \/ (r.at \in Ceremony /\ ~held /\ held' = TRUE)
    BY <1>2, <1>3, Records DEF Ceremony, Call
  <1>7. Turn(c, r) /\ ~At(c, "sent")
    BY <1>1, <1>2, <1>4, <1>5, <1>6, OutsideTurn DEF At
  <1>8. Orderly(c, r)
    BY <1>1, <1>7, OrderlyRest DEF closeRest, history, At
  <1>9. CloseInv' /\ LeafInv'
    BY <1>1, <1>4, <1>7, <1>8, QuietTurn DEF closeRest, history
  <1> QED BY <1>1, <1>9, LifeSame DEF closeRest, Inv

\* What BrokerDone, AutoSubmit and FlowDone have in common.
LEMMA SubmitOK ==
    ASSUME CloseInv, LeafInv, NEW p \in Proc, MaySubmit(p), Submit(p),
           UNCHANGED <<cert, unkept, verifying, mail, dir, carry, log, seen>>
    PROVE  CloseInv' /\ LeafInv'
  <1>1. LeavesOK
    BY DEF LeafInv
  <1>2. PICK r \in Call : Turn(p, r) /\ (Settled(r) \/ Submitted(r))
    BY <1>1, SubmitTurn
  <1>3. call[p].at # "sent"
    BY DEF MaySubmit, At
  <1>4. mark' \in {mark, "none", "busy", "known"}
        /\ (mark' = "busy" => r.at = "sent" \/ (mark = "busy" /\ call[p].at # "sent"))
    BY <1>2, <1>3 DEF Settled, Submitted
  <1>5. Orderly(p, r)
    BY <1>4, OrderlyRest
  <1>6. CloseInv'
    BY <1>2, <1>5, TurnOK
  <1>7. LeafInv'
    BY <1>2, SubmitLeaves
  <1> QED BY <1>6, <1>7

LEMMA BrokerDoneOK ==
    ASSUME Inv, NEW c \in Closer, BrokerDone(c)
    PROVE  Inv'
  <1>1. c \in Proc /\ MaySubmit(c)
    BY DEF Proc, MaySubmit, BrokerDone
  <1> QED BY <1>1, SubmitOK, LifeSame DEF BrokerDone, submitRest, Inv

LEMMA AutoSubmitOK ==
    ASSUME Inv, AutoSubmit
    PROVE  Inv'
  <1>1. Answerer \in Proc /\ MaySubmit(Answerer)
    BY DEF Proc, MaySubmit, AutoSubmit
  <1> QED BY <1>1, SubmitOK, LifeSame DEF AutoSubmit, submitRest, Inv

\* A commitment, or none.
LEMMA CommitOK ==
    ASSUME LifeInv, CommitPending \/ UNCHANGED <<status, seed>>
    PROVE  status' \in Status /\ seed' \in BOOLEAN
  <1>1. CASE CommitPending
    BY <1>1 DEF CommitPending, Status
  <1>2. CASE UNCHANGED <<status, seed>>
    BY <1>2 DEF LifeInv, LifecycleTypeOK
  <1> QED BY <1>1, <1>2

LEMMA FlowDoneOK ==
    ASSUME Inv, NEW c \in Closer, FlowDone(c)
    PROVE  Inv'
  <1>1. /\ At(c, "flow") /\ UNCHANGED flowRest /\ c \in Proc
        /\ LifeInv /\ CloseInv /\ LeafInv /\ call \in [Proc -> Call]
        /\ InCeremony(c) /\ ~At(c, "sent") /\ c # Answerer
    BY ProcFacts DEF FlowDone, Inv, CloseInv, Proc, InCeremony, Ceremony, At
  <1>2. /\ UNCHANGED <<unkept, verifying, carry, cert, log, seen, mail, dir>>
        /\ UNCHANGED <<node, running, built, displaced, frozen, told, events>>
    BY <1>1 DEF flowRest
  <1>3. frozen' \in BOOLEAN /\ told' \in BOOLEAN /\ events' \in 0..MaxEvents
    BY <1>1, <1>2 DEF LifeInv, LifecycleTypeOK
  <1>4. LifeInv'
    <2>1. CommitPending \/ UNCHANGED <<status, seed>>
      BY DEF FlowDone
    <2>2. UNCHANGED ops \/ StartRetire("retire")
      BY DEF FlowDone
    <2>3. Joins(ops)
      BY <1>1, <1>2, <2>2, BeginJoins DEF Joins, LifeInv
    <2> QED BY <1>1, <1>3, <2>1, <2>3, CommitOK, JoinsOK
  <1>5. CASE call[c].rec = "interrupted" /\ Submit(c)
    <2>1. MaySubmit(c)
      BY <1>1, <1>5 DEF MaySubmit
    <2> QED BY <1>1, <1>2, <1>4, <1>5, <2>1, SubmitOK DEF Inv
  <1>6. CASE EndClose(c, "other") /\ UNCHANGED <<waiter, uniWaiter, mark, signed, wire, silent>>
    <2>1. "other" \in Answer /\ {waiter', uniWaiter'} \subseteq Closer \cup {NoCloser}
      BY <1>1, <1>6 DEF Answer, CloseInv
    <2>2. PICK r \in Call : Turn(c, r) /\ r.at \in {"done", "pull"}
      BY <1>1, <1>2, <1>6, <2>1, EndCloseTurn
    <2>3. Orderly(c, r)
      BY <1>1, <1>2, <1>6, OrderlyRest DEF At
    <2> QED BY <1>1, <1>2, <1>4, <1>6, <2>2, <2>3, QuietTurn DEF Inv
  <1>7. CASE /\ call[c].rec = "interrupted"
             /\ call' = [call EXCEPT ![c].at = "broker", ![c].rec = "bilateral"]
             /\ UNCHANGED <<held, waiter, uniWaiter, mark, signed, wire, silent>>
    <2> DEFINE r == [call[c] EXCEPT !.at = "broker", !.rec = "bilateral"]
    <2>1. call[c] \in Call /\ Sound(call[c], cert \/ unkept) /\ held /\ held \in BOOLEAN
          /\ {waiter, uniWaiter} \subseteq Closer \cup {NoCloser}
      BY <1>1 DEF CloseInv, Answers, LocksHaveOwners
    <2>2. /\ r \in Call /\ r.at = "broker" /\ r.got = call[c].got /\ r.ans = call[c].ans
          /\ call' = [call EXCEPT ![c] = r]
      BY <1>1, <1>7, <2>1 DEF Call
    <2> HIDE DEF r
    <2>3. Sound(r, cert' \/ unkept') /\ r.at \in Ceremony /\ ~Waits(r) /\ call[c].at # "done"
      BY <1>1, <1>2, <2>1, <2>2 DEF Sound, Ceremony, Waits, At
    <2>4. Turn(c, r)
      BY <1>1, <1>7, <2>1, <2>2, <2>3 DEF Turn
    <2>5. Orderly(c, r)
      BY <1>1, <1>2, <1>7, OrderlyRest DEF At
    <2> QED BY <1>1, <1>2, <1>4, <1>7, <2>2, <2>4, <2>5, QuietTurn DEF Inv
  <1> QED BY <1>5, <1>6, <1>7 DEF FlowDone

\* A close that ends and leaves everything else as it is.
LEMMA EndsOK ==
    ASSUME Inv, NEW c \in Closer, NEW ans \in {"sealed", "other"}, EndClose(c, ans),
           ans = "sealed" => call[c].got = "sealed",
           InCeremony(c), ~At(c, "sent"),
           {waiter', uniWaiter'} \subseteq Closer \cup {NoCloser},
           UNCHANGED <<lifecycleVars, mark, verifying, carry, cert, wire, log, seen, mail, dir,
                       signed, unkept, silent>>
    PROVE  Inv'
  <1>1. c \in Proc /\ LifeInv /\ CloseInv /\ LeafInv
    BY DEF Proc, Inv
  <1>2. ans \in Answer /\ ans # "none" /\ (ans = "sealed" => cert \/ unkept)
    BY <1>1 DEF Answer, CloseInv, Answers, Sound
  <1>3. PICK r \in Call : Turn(c, r) /\ r.at \in {"done", "pull"}
    BY <1>1, <1>2, EndCloseTurn
  <1>4. Orderly(c, r)
    BY <1>1, OrderlyRest DEF At
  <1>5. CloseInv' /\ LeafInv'
    BY <1>1, <1>3, <1>4, QuietTurn
  <1> QED BY <1>1, <1>5, LifeSame DEF Inv

LEMMA AwaitOK ==
    ASSUME Inv, NEW c \in Closer, Await(c)
    PROVE  Inv'
  <1>1. /\ At(c, "await") /\ waiter' = NoCloser
        /\ UNCHANGED <<lifecycleVars, mark, verifying, carry, cert, wire, log, seen, mail, dir,
                       signed, unkept, silent>>
    BY DEF Await, closeRest, history
  <1>2. c \in Proc /\ LifeInv /\ CloseInv /\ LeafInv /\ InCeremony(c) /\ ~At(c, "sent")
    BY <1>1 DEF Proc, Inv, InCeremony, Ceremony, At
  <1>3. uniWaiter \in Closer \cup {NoCloser}
    BY <1>2 DEF CloseInv
  <1>4. CASE call[c].got = "sealed" /\ EndClose(c, "sealed") /\ UNCHANGED uniWaiter
    BY <1>1, <1>2, <1>3, <1>4, EndsOK
  <1>5. CASE EndClose(c, "other") /\ UNCHANGED uniWaiter
    BY <1>1, <1>2, <1>3, <1>5, EndsOK
  <1>6. CASE Escalate(c)
    <2>1. PICK r \in Call : Turn(c, r) /\ r.at = "key"
      BY <1>1, <1>2, <1>6, EscalateTurn
    <2>2. Orderly(c, r)
      BY <1>1, <1>2, OrderlyRest DEF At
    <2>3. CloseInv' /\ LeafInv'
      BY <1>1, <1>2, <2>1, <2>2, QuietTurn
    <2> QED BY <1>1, <1>2, <2>3, LifeSame DEF Inv
  <1> QED BY <1>4, <1>5, <1>6 DEF Await

LEMMA UniDoneOK ==
    ASSUME Inv, NEW c \in Closer, UniDone(c)
    PROVE  Inv'
  <1>1. /\ At(c, "uni") /\ uniWaiter' = NoCloser /\ UNCHANGED waiter
        /\ UNCHANGED <<lifecycleVars, mark, verifying, carry, cert, wire, log, seen, mail, dir,
                       signed, unkept, silent>>
    BY DEF UniDone, closeRest, history
  <1>2. c \in Proc /\ InCeremony(c) /\ ~At(c, "sent") /\ waiter \in Closer \cup {NoCloser}
    BY <1>1 DEF Proc, Inv, CloseInv, InCeremony, Ceremony, At
  <1>3. CASE call[c].got = "sealed" /\ EndClose(c, "sealed")
    BY <1>1, <1>2, <1>3, EndsOK
  <1>4. CASE EndClose(c, "other")
    BY <1>1, <1>2, <1>4, EndsOK
  <1> QED BY <1>3, <1>4 DEF UniDone

LEMMA UniSendOK ==
    ASSUME Inv, NEW c \in Closer, UniSend(c)
    PROVE  Inv'
  <1>1. /\ At(c, "key")
        /\ UNCHANGED <<lifecycleVars, waiter, mark, verifying, carry, cert, wire, log, seen,
                       signed, unkept, silent>>
    BY DEF UniSend, history
  <1>2. /\ c \in Proc /\ LifeInv /\ CloseInv /\ LeafInv /\ InCeremony(c) /\ ~At(c, "sent")
        /\ c # Answerer /\ call[c].at # "done" /\ held /\ held \in BOOLEAN
        /\ {waiter, uniWaiter} \subseteq Closer \cup {NoCloser}
        /\ call[c] \in Call /\ Sound(call[c], cert \/ unkept)
    BY <1>1, ProcFacts
       DEF Proc, Inv, InCeremony, Ceremony, At, CloseInv, LocksHaveOwners, Answers
  <1>3. CASE EndClose(c, "other") /\ uniWaiter' = NoCloser /\ UNCHANGED <<dir, mail>>
    BY <1>1, <1>2, <1>3, EndsOK
  <1>4. CASE /\ \/ dir = "none" /\ dir' = "unilateral" /\ mail' = mail \cup {"confirmed"}
                \/ UNCHANGED <<dir, mail>>
             /\ call' = [call EXCEPT ![c] = [Idle EXCEPT !.at = "uni", !.got = call[c].got]]
             /\ UNCHANGED <<held, uniWaiter>>
    <2> DEFINE r == [Idle EXCEPT !.at = "uni", !.got = call[c].got]
    <2>1. r \in Call /\ r.at = "uni" /\ r.got = call[c].got /\ r.ans = "none"
      BY <1>2 DEF Call, Idle, Status, Answer
    <2>2. call' = [call EXCEPT ![c] = r]
      BY <1>4
    <2> HIDE DEF r
    <2>3. Sound(r, cert' \/ unkept') /\ r.at \in Ceremony /\ ~Waits(r)
      BY <1>1, <1>2, <2>1 DEF Sound, Ceremony, Waits
    <2>4. Turn(c, r)
      BY <1>1, <1>2, <1>4, <2>1, <2>2, <2>3 DEF Turn
    <2>5. Orderly(c, r)
      BY <1>1, <1>2, <1>4 DEF Orderly, CloseInv, Decided, At
    <2>6. CloseInv' /\ LeafInv'
      BY <1>1, <1>2, <2>1, <2>4, <2>5, QuietTurn
    <2> QED BY <1>1, <1>2, <2>6, LifeSame DEF Inv
  <1> QED BY <1>3, <1>4 DEF UniSend

LEMMA ForceDoneOK ==
    ASSUME Inv, NEW c \in Closer, ForceDone(c)
    PROVE  Inv'
  <1>1. /\ At(c, "force") /\ call' = [call EXCEPT ![c] = Ended("other")]
        /\ UNCHANGED <<held, waiter, uniWaiter, mark, verifying, carry, cert, wire, log, seen,
                       mail, dir, signed, unkept, silent>>
    BY DEF ForceDone, sealVars, outside, history
  <1>2. c \in Proc /\ LifeInv /\ CloseInv /\ LeafInv /\ ~At(c, "sent") /\ "other" \in Answer
    BY <1>1 DEF Proc, Inv, At, Answer
  <1> DEFINE r == Ended("other")
  <1>3. r \in Call /\ r.at = "done" /\ r.got = "none" /\ r.ans = "other"
    BY <1>2, Records
  <1> HIDE DEF r
  <1>4. Sound(r, cert' \/ unkept') /\ r.at \notin Ceremony
    BY <1>3 DEF Sound, Ceremony
  <1>5. call' = [call EXCEPT ![c] = r]
    BY <1>1 DEF r
  <1>6. Turn(c, r)
    BY <1>1, <1>2, <1>3, <1>4, <1>5, OutsideTurn DEF At
  <1>7. Orderly(c, r)
    BY <1>1, <1>2, OrderlyRest DEF At
  <1>8. CloseInv' /\ LeafInv'
    BY <1>1, <1>2, <1>3, <1>6, <1>7, QuietTurn
  <1>9. LifeInv'
    <2>1. CASE UNCHANGED lifecycleVars
      BY <1>2, <2>1, LifeSame
    <2>2. CASE AbandonSession(ops) /\ UNCHANGED <<frozen, told, events>>
      <3>1. Joins(ops) /\ WriteStatus("abandoned")
        BY <1>2, <2>2, BeginJoins DEF LifeInv, AbandonSession
      <3>2. status' \in Status /\ seed' \in BOOLEAN
        BY <1>2, <3>1, WriteStatusOK DEF Status, LifeInv
      <3>3. frozen' \in BOOLEAN /\ told' \in BOOLEAN /\ events' \in 0..MaxEvents
        BY <1>2, <2>2 DEF LifeInv, LifecycleTypeOK
      <3> QED BY <1>2, <3>1, <3>2, <3>3, JoinsOK
    <2> QED BY <2>1, <2>2 DEF ForceDone
  <1> QED BY <1>8, <1>9 DEF Inv

-----------------------------------------------------------------------------
(* The frames.                                                             *)

\* A certificate that comes is kept, or it is known that it could not be.
LEMMA SealedFacts ==
    ASSUME Inv, Sealed
    PROVE  /\ LifeInv' /\ cert' \in {TRUE, cert} /\ unkept' \in {TRUE, unkept}
           /\ cert' \/ unkept'
  <1>1. LifeInv /\ Keep /\ MarkSealed
    BY DEF Inv, Sealed
  <1>2. events' \in 0..MaxEvents
    BY <1>1, EventOK DEF Keep, LifeInv, LifecycleTypeOK
  <1>3. cert' \in {TRUE, cert} /\ unkept' \in {TRUE, unkept} /\ (cert' \/ unkept')
    BY <1>1 DEF Keep
  <1> QED BY <1>1, <1>2, <1>3, MarkSealedOK

LEMMA PullDoneOK ==
    ASSUME Inv, NEW c \in Closer, PullDone(c)
    PROVE  Inv'
  <1>1. /\ At(c, "pull")
        /\ UNCHANGED <<held, waiter, uniWaiter, mark, verifying, carry, wire, log, seen, mail,
                       dir, signed, silent>>
    BY DEF PullDone, listenRest
  <1>2. c \in Proc /\ LifeInv /\ CloseInv /\ LeafInv /\ ~At(c, "sent")
        /\ "other" \in Answer /\ "sealed" \in Answer
    BY <1>1 DEF Proc, Inv, At, Answer
  <1>3. ASSUME NEW ans \in {"sealed", "other"}, call' = [call EXCEPT ![c] = Ended(ans)],
               ans = "sealed" => cert',
               cert' \in {TRUE, cert}, unkept' \in {TRUE, unkept}
        PROVE  CloseInv' /\ LeafInv'
    <2> DEFINE r == Ended(ans)
    <2>1. r \in Call /\ r.at = "done" /\ r.got = "none" /\ r.ans = ans
      BY <1>2, Records
    <2>2. call' = [call EXCEPT ![c] = r]
      BY <1>3
    <2> HIDE DEF r
    <2>3. Sound(r, cert' \/ unkept') /\ r.at \notin Ceremony
      BY <1>3, <2>1 DEF Sound, Ceremony
    <2>4. Turn(c, r)
      BY <1>1, <1>2, <2>1, <2>2, <2>3, OutsideTurn DEF At
    <2>5. Orderly(c, r)
      BY <1>1, <1>2, <1>3 DEF Orderly, CloseInv, Decided, At
    <2> QED BY <1>1, <1>2, <2>1, <2>4, <2>5, QuietTurn
  <1>4. CASE Sealed /\ call' = [call EXCEPT ![c] = Ended(IF cert' THEN "sealed" ELSE "other")]
    <2>1. LifeInv' /\ cert' \in {TRUE, cert} /\ unkept' \in {TRUE, unkept}
      BY <1>4, SealedFacts
    <2>2. CASE cert'
      BY <1>3, <1>4, <2>1, <2>2 DEF Inv
    <2>3. CASE ~cert'
      BY <1>3, <1>4, <2>1, <2>3 DEF Inv
    <2> QED BY <2>2, <2>3
  <1>5. CASE call' = [call EXCEPT ![c] = Ended("other")] /\ NotSealed
    <2>1. UNCHANGED <<lifecycleVars, cert, unkept>>
      BY <1>5 DEF NotSealed
    <2> QED BY <1>2, <1>3, <1>5, <2>1, LifeSame DEF Inv
  <1> QED BY <1>4, <1>5 DEF PullDone

\* A close is told what, or is not reached.
LEMMA TellFacts ==
    ASSUME CloseInv, NEW c \in Closer \cup {NoCloser},
           NEW what \in {"sealed", "local", "directory"}, Tell(c, what)
    PROVE  /\ call' \in [Proc -> Call]
           /\ \A q \in Proc : /\ call'[q].at = call[q].at /\ call'[q].leaf = call[q].leaf
                              /\ call'[q].ans = call[q].ans /\ call'[q].rec = call[q].rec
                              /\ call'[q].pos = call[q].pos
                              /\ call'[q].got \in {call[q].got, what}
                              /\ q = c /\ Waits(call[q]) => ~Waits(call'[q])
                              /\ Waits(call'[q]) => Waits(call[q])
  <1>1. call \in [Proc -> Call]
    BY DEF CloseInv
  <1>2. CASE c \in Closer /\ call[c].got = "none" /\ call[c].at \notin {"done", "pull"}
    <2> DEFINE r == [call[c] EXCEPT !.got = what]
    <2>1. c \in Proc /\ call' = [call EXCEPT ![c] = r]
      BY <1>1, <1>2 DEF Tell, Proc
    <2>2. /\ r \in Call /\ r.at = call[c].at /\ r.leaf = call[c].leaf /\ r.ans = call[c].ans
          /\ r.rec = call[c].rec /\ r.pos = call[c].pos /\ r.got = what
      BY <1>1, <2>1 DEF Call
    <2> HIDE DEF r
    <2>3. ~Waits(r)
      BY <2>2 DEF Waits
    <2> QED BY <1>1, <2>1, <2>2, <2>3
  <1>3. CASE ~(c \in Closer /\ call[c].got = "none" /\ call[c].at \notin {"done", "pull"})
    <2>1. call' = call
      BY <1>3 DEF Tell
    <2>2. ~Waits(call[c]) \/ c \notin Closer
      BY <1>3 DEF Waits
    <2>3. c \in Proc /\ c = Answerer => FALSE
      BY ProcFacts
    <2>4. \A q \in Proc : q = c => q \in Closer
      BY ProcFacts DEF Proc
    <2> QED BY <1>1, <2>1, <2>2, <2>4
  <1> QED BY <1>2, <1>3

\* A frame takes away a waiter only with the news.
LEMMA FrameOK ==
    ASSUME CloseInv, LeafInv, NEW c \in Closer \cup {NoCloser},
           NEW what \in {"sealed", "local", "directory"},
           Tell(c, what) \/ UNCHANGED call,
           waiter' = waiter \/ (waiter' = NoCloser /\ c = waiter /\ Tell(c, what)),
           uniWaiter' \in Closer \cup {NoCloser},
           cert' \in {TRUE, cert}, unkept' \in {TRUE, unkept},
           what = "sealed" => cert' \/ unkept',
           verifying' \subseteq Closer, Decided',
           mail' \subseteq {"sealed", "confirmed", "told", "upgraded"},
           UNCHANGED listenRest
    PROVE  CloseInv' /\ LeafInv'
  <1>1. UNCHANGED <<held, mark, carry, wire, log, seen, dir, signed, silent>>
    BY DEF listenRest
  <1>2. /\ call' \in [Proc -> Call]
        /\ \A q \in Proc : /\ call'[q].at = call[q].at /\ call'[q].leaf = call[q].leaf
                           /\ call'[q].ans = call[q].ans /\ call'[q].pos = call[q].pos
                           /\ call'[q].got \in {call[q].got, what}
                           /\ Waits(call'[q]) => Waits(call[q])
    BY TellFacts DEF CloseInv
  <1>3. \A q \in Proc : (At(q, "sent")' <=> At(q, "sent")) /\ (At(q, "sign")' <=> At(q, "sign"))
    BY <1>2 DEF At
  <1>4. LeafInv'
    <2>1. At(Answerer, "idle") => At(Answerer, "idle")'
      BY <1>2 DEF At, Proc
    <2> QED BY <1>1, <1>2, <1>3, <2>1, LeafStays DEF CloseInv
  <1>5. LocksHaveOwners'
    <2>1. \A d \in Closer : InCeremony(d)' <=> InCeremony(d)
      BY <1>2 DEF InCeremony, Proc
    <2>2. LocksHaveOwners
      BY DEF CloseInv
    <2> QED BY <1>1, <1>3, <2>1, <2>2 DEF LocksHaveOwners
  <1>6. Waiting'
    <2> SUFFICES ASSUME NEW d \in Closer, Waits(call'[d])
                 PROVE  waiter' = d
      BY DEF Waiting
    <2>1. Waits(call[d]) /\ waiter = d /\ d \in Proc
      BY <1>2 DEF CloseInv, Waiting, Proc
    <2>2. ~(c = waiter /\ Tell(c, what))
      BY <2>1, TellFacts
    <2> QED BY <2>1, <2>2
  <1>7. Answers'
    <2>1. cert \/ unkept => cert' \/ unkept'
      OBVIOUS
    <2>2. \A q \in Proc : Sound(call[q], cert \/ unkept)
      BY DEF CloseInv, Answers
    <2> QED BY <1>2, <2>1, <2>2 DEF Answers, Sound
  <1>8. cert' \in BOOLEAN /\ unkept' \in BOOLEAN /\ waiter' \in Closer \cup {NoCloser}
    BY DEF CloseInv
  <1> QED BY <1>1, <1>2, <1>4, <1>5, <1>6, <1>7, <1>8 DEF CloseInv

LEMMA SealedArrivesOK ==
    ASSUME Inv, SealedArrives
    PROVE  Inv'
  <1>1. /\ "sealed" \in mail /\ mail' = mail \ {"sealed"} /\ waiter' = NoCloser
        /\ UNCHANGED <<uniWaiter, verifying>> /\ UNCHANGED listenRest
    BY DEF SealedArrives, Take
  <1>2. /\ LifeInv /\ CloseInv /\ LeafInv /\ waiter \in Closer \cup {NoCloser}
        /\ uniWaiter \in Closer \cup {NoCloser} /\ verifying \subseteq Closer
        /\ mail' \subseteq {"sealed", "confirmed", "told", "upgraded"}
    BY <1>1 DEF Inv, CloseInv
  <1>3. Decided'
    BY <1>1, <1>2 DEF CloseInv, Decided, listenRest
  <1>4. CASE Sealed /\ Tell(waiter, "sealed")
    <2>1. LifeInv' /\ cert' \in {TRUE, cert} /\ unkept' \in {TRUE, unkept} /\ (cert' \/ unkept')
      BY <1>4, SealedFacts
    <2>2. CloseInv' /\ LeafInv'
      BY <1>1, <1>2, <1>3, <1>4, <2>1, FrameOK
    <2> QED BY <2>1, <2>2 DEF Inv
  <1>5. CASE Tell(waiter, "local") /\ NotSealed
    <2>1. LifeInv' /\ UNCHANGED <<cert, unkept>>
      BY <1>2, <1>5, LifeSame DEF NotSealed
    <2>2. CloseInv' /\ LeafInv'
      BY <1>1, <1>2, <1>3, <1>5, <2>1, FrameOK
    <2> QED BY <2>1, <2>2 DEF Inv
  <1> QED BY <1>4, <1>5 DEF SealedArrives

LEMMA RejectedArrivesOK ==
    ASSUME Inv, RejectedArrives
    PROVE  Inv'
  <1>1. /\ waiter' = NoCloser /\ Tell(waiter, "directory") /\ NotSealed
        /\ UNCHANGED <<mail, uniWaiter, verifying>> /\ UNCHANGED listenRest
    BY DEF RejectedArrives
  <1>2. /\ LifeInv /\ CloseInv /\ LeafInv /\ waiter \in Closer \cup {NoCloser}
        /\ uniWaiter' \in Closer \cup {NoCloser} /\ verifying' \subseteq Closer
        /\ mail' \subseteq {"sealed", "confirmed", "told", "upgraded"}
    BY <1>1 DEF Inv, CloseInv
  <1>3. Decided'
    BY <1>1, <1>2 DEF CloseInv, Decided, listenRest
  <1>4. LifeInv' /\ UNCHANGED <<cert, unkept>>
    BY <1>1, <1>2, LifeSame DEF NotSealed
  <1>5. CloseInv' /\ LeafInv'
    BY <1>1, <1>2, <1>3, <1>4, FrameOK
  <1> QED BY <1>4, <1>5 DEF Inv

LEMMA ConfirmedArrivesOK ==
    ASSUME Inv, ConfirmedArrives
    PROVE  Inv'
  <1>1. /\ "confirmed" \in mail /\ mail' = mail \ {"confirmed"} /\ NotSealed
        /\ verifying' = verifying \cup ({uniWaiter} \ {NoCloser})
        /\ UNCHANGED <<call, waiter, uniWaiter>> /\ UNCHANGED listenRest
    BY DEF ConfirmedArrives, Take
  <1>2. /\ LifeInv /\ CloseInv /\ LeafInv
        /\ uniWaiter' \in Closer \cup {NoCloser} /\ verifying' \subseteq Closer
        /\ mail' \subseteq {"sealed", "confirmed", "told", "upgraded"}
    BY <1>1 DEF Inv, CloseInv
  <1>3. Decided'
    BY <1>1, <1>2 DEF CloseInv, Decided, listenRest
  <1>4. LifeInv' /\ UNCHANGED <<cert, unkept>>
    BY <1>1, <1>2, LifeSame DEF NotSealed
  <1>5. CloseInv' /\ LeafInv'
    BY <1>1, <1>2, <1>3, <1>4, FrameOK
  <1> QED BY <1>4, <1>5 DEF Inv

LEMMA ConfirmedVerifiedOK ==
    ASSUME Inv, NEW c \in Closer, ConfirmedVerified(c)
    PROVE  Inv'
  <1>1. /\ c \in verifying /\ verifying' = verifying \ {c} /\ uniWaiter' = NoCloser
        /\ UNCHANGED <<waiter, mail>> /\ UNCHANGED listenRest
    BY DEF ConfirmedVerified
  <1>2. /\ LifeInv /\ CloseInv /\ LeafInv
        /\ uniWaiter' \in Closer \cup {NoCloser} /\ verifying' \subseteq Closer
        /\ mail' \subseteq {"sealed", "confirmed", "told", "upgraded"}
    BY <1>1 DEF Inv, CloseInv
  <1>3. Decided'
    BY <1>1, <1>2 DEF CloseInv, Decided, listenRest
  <1>4. CASE Sealed /\ Tell(c, "sealed")
    <2>1. LifeInv' /\ cert' \in {TRUE, cert} /\ unkept' \in {TRUE, unkept} /\ (cert' \/ unkept')
      BY <1>4, SealedFacts
    <2>2. CloseInv' /\ LeafInv'
      BY <1>1, <1>2, <1>3, <1>4, <2>1, FrameOK
    <2> QED BY <2>1, <2>2 DEF Inv
  <1>5. CASE Tell(c, "directory") /\ NotSealed
    <2>1. LifeInv' /\ UNCHANGED <<cert, unkept>>
      BY <1>2, <1>5, LifeSame DEF NotSealed
    <2>2. CloseInv' /\ LeafInv'
      BY <1>1, <1>2, <1>3, <1>5, <2>1, FrameOK
    <2> QED BY <2>1, <2>2 DEF Inv
  <1> QED BY <1>4, <1>5 DEF ConfirmedVerified

LEMMA EarlyArrivesOK ==
    ASSUME Inv, EarlyArrives
    PROVE  Inv'
  <1>1. /\ uniWaiter' = NoCloser /\ Tell(uniWaiter, "directory") /\ NotSealed
        /\ UNCHANGED <<mail, waiter, verifying>> /\ UNCHANGED listenRest
    BY DEF EarlyArrives
  <1>2. /\ LifeInv /\ CloseInv /\ LeafInv /\ uniWaiter \in Closer \cup {NoCloser}
        /\ uniWaiter' \in Closer \cup {NoCloser} /\ verifying' \subseteq Closer
        /\ mail' \subseteq {"sealed", "confirmed", "told", "upgraded"}
    BY <1>1 DEF Inv, CloseInv
  <1>3. Decided'
    BY <1>1, <1>2 DEF CloseInv, Decided, listenRest
  <1>4. LifeInv' /\ UNCHANGED <<cert, unkept>>
    BY <1>1, <1>2, LifeSame DEF NotSealed
  <1>5. CloseInv' /\ LeafInv'
    BY <1>1, <1>2, <1>3, <1>4, FrameOK
  <1> QED BY <1>4, <1>5 DEF Inv

LEMMA ToldArrivesOK ==
    ASSUME Inv, ToldArrives
    PROVE  Inv'
  <1>1. /\ "told" \in mail /\ mail' \in {mail \ {"told"}, (mail \ {"told"}) \cup {"upgraded"}}
        /\ cert' \in {TRUE, cert}
        /\ UNCHANGED <<lifecycleVars, unkept, call, waiter, uniWaiter, verifying>>
        /\ UNCHANGED listenRest
    BY DEF ToldArrives
  <1>2. /\ LifeInv /\ CloseInv /\ LeafInv
        /\ uniWaiter' \in Closer \cup {NoCloser} /\ verifying' \subseteq Closer
        /\ mail' \subseteq {"sealed", "confirmed", "told", "upgraded"}
    BY <1>1 DEF Inv, CloseInv
  <1>3. Decided'
    BY <1>1, <1>2 DEF CloseInv, Decided, listenRest
  <1>4. LifeInv'
    BY <1>1, <1>2, LifeSame
  <1>5. CloseInv' /\ LeafInv'
    BY <1>1, <1>2, <1>3, FrameOK
  <1> QED BY <1>4, <1>5 DEF Inv

LEMMA UpgradedArrivesOK ==
    ASSUME Inv, UpgradedArrives
    PROVE  Inv'
  <1>1. /\ "upgraded" \in mail /\ mail' = mail \ {"upgraded"} /\ MarkSealed
        /\ UNCHANGED <<events, cert, unkept, call, waiter, uniWaiter, verifying>>
        /\ UNCHANGED listenRest
    BY DEF UpgradedArrives, Take
  <1>2. /\ LifeInv /\ CloseInv /\ LeafInv
        /\ uniWaiter' \in Closer \cup {NoCloser} /\ verifying' \subseteq Closer
        /\ mail' \subseteq {"sealed", "confirmed", "told", "upgraded"}
    BY <1>1 DEF Inv, CloseInv
  <1>3. Decided'
    BY <1>1, <1>2 DEF CloseInv, Decided, listenRest
  <1>4. LifeInv'
    BY <1>1, <1>2, MarkSealedOK DEF LifeInv, LifecycleTypeOK
  <1>5. CloseInv' /\ LeafInv'
    BY <1>1, <1>2, <1>3, FrameOK
  <1> QED BY <1>4, <1>5 DEF Inv

-----------------------------------------------------------------------------
(* The relay, the directory, restarts and operations.                      *)

\* CloseInv stays when no close moves and mail only with the directory's word.
LEMMA CloseStays ==
    ASSUME CloseInv, UNCHANGED <<call, held, waiter, uniWaiter, verifying, cert, unkept>>,
           mark' \in {mark, "none"},
           mail' \subseteq {"sealed", "confirmed", "told", "upgraded"},
           dir' \in {"none", "bilateral", "unilateral"}, Decided'
    PROVE  CloseInv'
  <1>1. \A c : InCeremony(c)' <=> InCeremony(c)
    BY DEF InCeremony
  <1>2. \A p : At(p, "sent")' <=> At(p, "sent")
    BY DEF At
  <1>3. LocksHaveOwners'
    BY <1>1, <1>2 DEF CloseInv, LocksHaveOwners
  <1>4. Waiting' /\ Answers'
    BY DEF CloseInv, Waiting, Answers
  <1> QED BY <1>3, <1>4 DEF CloseInv

\* A leaf that joins the relay's log changes none that is there.
LEMMA LogGrows ==
    ASSUME LeavesOK, NEW l \in {0} \cup Leaf, log' = Append(log, l)
    PROVE  /\ log' \in Seq({0} \cup Leaf) /\ Len(log') = Len(log) + 1 /\ Len(log) \in Nat
           /\ log'[Len(log) + 1] = l /\ \A i \in 1..Len(log) : log'[i] = log[i]
           /\ OwnOrdered' = OwnOrdered \cup ({l} \ {0})
  <1>1. log \in Seq({0} \cup Leaf)
    BY DEF LeavesOK
  <1>2. /\ log' \in Seq({0} \cup Leaf) /\ Len(log') = Len(log) + 1 /\ Len(log) \in Nat
        /\ log'[Len(log) + 1] = l /\ \A i \in 1..Len(log) : log'[i] = log[i]
    BY <1>1
  <1>3. 0 \notin Leaf
    BY DEF Leaf
  <1>4. \A k \in Leaf : Ordered(k)' <=> Ordered(k) \/ k = l
    <2> TAKE k \in Leaf
    <2>1. Ordered(k)' <=> \E i \in 1..(Len(log) + 1) : log'[i] = k
      BY <1>2 DEF Ordered
    <2>2. 1..(Len(log) + 1) = 1..Len(log) \cup {Len(log) + 1}
      BY <1>2
    <2> QED BY <1>2, <2>1, <2>2 DEF Ordered
  <1>5. OwnOrdered' = {k \in Leaf : Ordered(k)'}
    BY DEF OwnOrdered, Leaf
  <1>6. OwnOrdered' = OwnOrdered \cup ({l} \ {0})
    BY <1>3, <1>4, <1>5 DEF OwnOrdered
  <1> QED BY <1>2, <1>6

LEMMA RelayOrdersOK ==
    ASSUME Inv, NEW l \in Leaf, RelayOrders(l)
    PROVE  Inv'
  <1>1. /\ l \in wire /\ wire' = wire \ {l} /\ log' = Append(log, l)
        /\ UNCHANGED <<lifecycleVars, call, held, waiter, uniWaiter, mark, verifying, carry, cert,
                       seen, mail, dir, signed, unkept, silent>>
    BY DEF RelayOrders, outsideRest, sealVars, history
  <1>2. LifeInv /\ CloseInv /\ LeavesOK /\ AnswerOnce /\ (~silent => Remembered)
    BY DEF Inv, LeafInv
  <1>3. CloseInv'
    <2>1. Decided'
      BY <1>1, <1>2 DEF CloseInv, Decided
    <2> QED BY <1>1, <1>2, <2>1, CloseStays DEF CloseInv
  <1>4. l # 0 /\ l \in {0} \cup Leaf
    BY DEF Leaf
  <1>5. /\ log' \in Seq({0} \cup Leaf) /\ Len(log') = Len(log) + 1 /\ Len(log) \in Nat
        /\ log'[Len(log) + 1] = l /\ \A i \in 1..Len(log) : log'[i] = log[i]
        /\ OwnOrdered' = OwnOrdered \cup {l}
    BY <1>1, <1>2, <1>4, LogGrows
  <1>6. LeavesOK'
    BY <1>1, <1>2, <1>5 DEF LeavesOK
  <1>7. AnswerOnce'
    <2>1. \A i \in 1..Len(log') : log'[i] = 0 => i \in 1..Len(log) /\ log[i] = 0
      BY <1>4, <1>5
    <2>2. \A i \in 1..seen : i \in 1..Len(log)
      BY <1>2, <1>5 DEF LeavesOK
    <2> QED BY <1>1, <1>2, <1>5, <2>1, <2>2 DEF AnswerOnce, At
  <1>8. ASSUME ~silent PROVE Remembered'
    <2>1. Remembered
      BY <1>2, <1>8
    <2>2. Sent # {}
      BY <1>1, <2>1 DEF Remembered
    <2>3. wire = {l} /\ OwnOrdered = {} /\ wire' = {} /\ OwnOrdered' = {l}
      BY <1>1, <1>5, <2>1, <2>2 DEF Remembered
    <2>4. Sent' = Sent /\ \A q \in Proc : ~At(q, "sign")'
      BY <1>1, <2>1 DEF Sent, At, Remembered
    <2>5. \A e \in carry : e[1] \in 1..Len(log') /\ e[2] = log'[e[1]]
      BY <1>5, <2>1 DEF Remembered
    <2>6. OwnIn(carry)' = OwnIn(carry)
      BY <1>1 DEF OwnIn
    <2> QED BY <1>1, <2>1, <2>2, <2>3, <2>4, <2>5, <2>6 DEF Remembered
  <1> QED BY <1>1, <1>2, <1>3, <1>6, <1>7, <1>8, LifeSame DEF Inv, LeafInv

LEMMA TheirLeafOK ==
    ASSUME Inv, TheirLeaf
    PROVE  Inv'
  <1>1. /\ \A i \in 1..Len(log) : log[i] # 0
        /\ log' = Append(log, 0)
        /\ UNCHANGED <<lifecycleVars, call, held, waiter, uniWaiter, mark, verifying, carry, cert,
                       wire, seen, mail, dir, signed, unkept, silent>>
    BY DEF TheirLeaf, outsideRest, sealVars, history
  <1>2. LifeInv /\ CloseInv /\ LeavesOK /\ AnswerOnce /\ (~silent => Remembered)
    BY DEF Inv, LeafInv
  <1>3. CloseInv'
    <2>1. Decided'
      BY <1>1, <1>2 DEF CloseInv, Decided
    <2> QED BY <1>1, <1>2, <2>1, CloseStays DEF CloseInv
  <1>4. /\ log' \in Seq({0} \cup Leaf) /\ Len(log') = Len(log) + 1 /\ Len(log) \in Nat
        /\ log'[Len(log) + 1] = 0 /\ \A i \in 1..Len(log) : log'[i] = log[i]
        /\ OwnOrdered' = OwnOrdered
    BY <1>1, <1>2, LogGrows
  <1>5. LeavesOK'
    BY <1>1, <1>2, <1>4 DEF LeavesOK
  <1>6. AnswerOnce'
    <2>1. \A i \in 1..Len(log') : log'[i] = 0 => i = Len(log) + 1
      BY <1>1, <1>4
    <2>2. \A i \in 1..seen : i \in 1..Len(log)
      BY <1>2, <1>4 DEF LeavesOK
    <2>3. At(Answerer, "idle")
      BY <1>1, <1>2, <2>2 DEF AnswerOnce
    <2> QED BY <1>1, <2>1, <2>3 DEF AnswerOnce, At
  <1>7. ASSUME ~silent PROVE Remembered'
    <2>1. Remembered
      BY <1>2, <1>7
    <2>2. Sent' = Sent /\ \A q \in Proc : ~At(q, "sign")'
      BY <1>1, <2>1 DEF Sent, At, Remembered
    <2>3. \A e \in carry : e[1] \in 1..Len(log') /\ e[2] = log'[e[1]]
      BY <1>4, <2>1 DEF Remembered
    <2>4. OwnIn(carry)' = OwnIn(carry)
      BY <1>1 DEF OwnIn
    <2> QED BY <1>1, <1>4, <2>1, <2>2, <2>3, <2>4 DEF Remembered
  <1> QED BY <1>1, <1>2, <1>3, <1>5, <1>6, <1>7, LifeSame DEF Inv, LeafInv

\* The directory decides.
LEMMA DirOK ==
    ASSUME Inv, DirBilateral \/ DirTheirs
    PROVE  Inv'
  <1>1. /\ dir' \in {"bilateral", "unilateral"}
        /\ mail' \subseteq mail \cup {"sealed", "told"}
        /\ UNCHANGED <<lifecycleVars, call, held, waiter, uniWaiter, mark, verifying, carry, cert,
                       wire, log, seen, signed, unkept, silent>>
    BY DEF DirBilateral, DirTheirs, outsideRest, sealVars, history
  <1>2. LifeInv /\ CloseInv /\ LeafInv
    BY DEF Inv
  <1>3. CloseInv'
    <2>1. Decided'
      BY <1>1 DEF Decided
    <2> QED BY <1>1, <1>2, <2>1, CloseStays DEF CloseInv
  <1>4. LeafInv'
    BY <1>1, <1>2, LeafStays DEF CloseInv, At
  <1> QED BY <1>1, <1>2, <1>3, <1>4, LifeSame DEF Inv

\* A leaf that is delivered is stored at its place, and may be answered.
LEMMA DeliverOK ==
    ASSUME Inv, Deliver
    PROVE  Inv'
  <1> DEFINE l == log[seen + 1]
  <1>1. /\ seen < Len(log) /\ seen' = seen + 1 /\ carry' = Put(seen + 1, l)
        /\ UNCHANGED <<lifecycleVars, held, waiter, uniWaiter, mark, verifying, cert, wire, log,
                       mail, dir, signed, unkept, silent>>
    BY DEF Deliver, history
  <1>2. LifeInv /\ CloseInv /\ LeavesOK /\ AnswerOnce /\ (~silent => Remembered)
        /\ call \in [Proc -> Call] /\ Answerer \in Proc
    BY DEF Inv, LeafInv, CloseInv, Proc
  <1>3. seen + 1 \in 1..Len(log) /\ l \in {0} \cup Leaf /\ seen + 1 \in Nat \ {0} /\ seen \in Nat
        /\ Len(log) \in Nat
    BY <1>1, <1>2 DEF LeavesOK
  <1>4. /\ carry' \subseteq (Nat \ {0}) \X ({0} \cup Leaf) /\ IsFiniteSet(carry')
        /\ carry \subseteq carry' /\ \A e \in carry' : e \in carry \/ e = <<seen + 1, l>>
    <2>1. PICK k \in Nat \ {0}, m \in {0} \cup Leaf : k = seen + 1 /\ m = l
      BY <1>3
    <2>2. carry' = Put(k, m)
      BY <1>1, <2>1
    <2>3. \A e \in carry' : e \in carry \/ e = <<k, m>>
      BY <1>2, <2>2, PutFacts
    <2>4. /\ carry' \subseteq (Nat \ {0}) \X ({0} \cup Leaf) /\ IsFiniteSet(carry')
          /\ carry \subseteq carry'
      BY <1>2, <2>2, PutFacts
    <2> QED BY <2>1, <2>3, <2>4
  <1>5. LeavesOK'
    BY <1>1, <1>2, <1>3, <1>4 DEF LeavesOK
  <1>6. \* The automatic answer starts from nothing, or nobody moves.
        \/ /\ l = 0 /\ mark = "none" /\ At(Answerer, "idle")
           /\ call' = [call EXCEPT ![Answerer].at = "settle"]
        \/ UNCHANGED call
    <2>1. l = 0 => \A i \in 1..seen : log[i] # 0
      BY <1>2, <1>3 DEF AnswerOnce
    <2>2. l = 0 => At(Answerer, "idle")
      BY <1>2, <2>1 DEF AnswerOnce
    <2> QED BY <2>2 DEF Deliver
  <1>7. AnswerOnce'
    <2>1. ~At(Answerer, "idle")' => l = 0 \/ ~At(Answerer, "idle")
      BY <1>6 DEF At
    <2>2. \A i \in 1..seen : i \in 1..(seen + 1)
      BY <1>3
    <2> QED BY <1>1, <1>2, <1>3, <2>1, <2>2 DEF AnswerOnce
  <1>8. OwnIn(carry) \subseteq OwnIn(carry)' /\ OwnOrdered' = OwnOrdered
    BY <1>1, <1>4 DEF OwnIn, OwnOrdered, Ordered
  <1>9. ASSUME ~silent PROVE Remembered'
    <2>1. Remembered
      BY <1>2, <1>9
    <2>2. \A q \in Proc : /\ At(q, "sent")' <=> At(q, "sent")
                          /\ At(q, "sent") => call'[q] = call[q]
                          /\ ~At(q, "sign")'
      <3>1. CASE UNCHANGED call
        BY <2>1, <3>1 DEF At, Remembered
      <3>2. CASE At(Answerer, "idle") /\ call' = [call EXCEPT ![Answerer].at = "settle"]
        <4>1. call'[Answerer].at = "settle" /\ call[Answerer].at = "idle"
          BY <1>2, <3>2 DEF At, Call
        <4>2. \A q \in Proc : q # Answerer => call'[q] = call[q]
          BY <1>2, <3>2
        <4> QED BY <2>1, <4>1, <4>2 DEF At, Remembered
      <3> QED BY <1>6, <3>1, <3>2
    <2>3. Sent' = Sent /\ \A q \in Sent : call'[q].leaf = call[q].leaf
      BY <2>2 DEF Sent
    <2>4. \A e \in carry' : e[1] \in 1..Len(log) /\ e[2] = log[e[1]]
      BY <1>3, <1>4, <2>1 DEF Remembered
    <2> QED BY <1>1, <1>8, <2>1, <2>2, <2>3, <2>4 DEF Remembered
  <1>10. CloseInv'
    <2>1. CASE UNCHANGED call
      <3>1. Decided'
        BY <1>1, <1>2 DEF CloseInv, Decided
      <3> QED BY <1>1, <1>2, <2>1, <3>1, CloseStays DEF CloseInv
    <2>2. CASE /\ mark = "none" /\ At(Answerer, "idle")
               /\ call' = [call EXCEPT ![Answerer].at = "settle"]
      <3> DEFINE r == [call[Answerer] EXCEPT !.at = "settle"]
      <3>1. /\ r \in Call /\ r.at = "settle" /\ r.got = call[Answerer].got
            /\ r.ans = call[Answerer].ans /\ call' = [call EXCEPT ![Answerer] = r]
        BY <1>2, <2>2 DEF Call
      <3> HIDE DEF r
      <3>2. Sound(call[Answerer], cert \/ unkept) /\ {waiter, uniWaiter} \subseteq Closer \cup {NoCloser}
        BY <1>2 DEF CloseInv, Answers
      <3>3. Sound(r, cert' \/ unkept') /\ call[Answerer].at # "done"
        BY <1>1, <2>2, <3>1, <3>2 DEF Sound, At
      <3>4. Turn(Answerer, r)
        BY <1>1, <3>1, <3>2, <3>3 DEF Turn
      <3>5. Orderly(Answerer, r)
        BY <1>1, <1>2, <2>2, OrderlyRest
      <3> QED BY <1>2, <3>4, <3>5, TurnOK
    <2> QED BY <1>6, <2>1, <2>2
  <1> QED BY <1>1, <1>2, <1>5, <1>7, <1>9, <1>10, LifeSame DEF Inv, LeafInv

LEMMA CoSignOK ==
    ASSUME Inv, CoSign
    PROVE  Inv'
  <1>1. CommitPending /\ Event /\ UNCHANGED <<nodeVars, frozen, told>>
        /\ UNCHANGED <<call, held, waiter, uniWaiter, mark, verifying, carry, cert, wire, log,
                       seen, mail, dir, signed, unkept, silent>>
    BY DEF CoSign, sealVars, outside, history
  <1>2. LifeInv /\ CloseInv /\ LeafInv /\ Decided
    BY DEF Inv, CloseInv
  <1>3. LifeInv'
    <2>1. Joins(ops)
      BY <1>1 DEF Joins, nodeVars
    <2>2. frozen' \in BOOLEAN /\ told' \in BOOLEAN /\ events' \in 0..MaxEvents
      BY <1>1, <1>2, EventOK DEF LifeInv, LifecycleTypeOK
    <2> QED BY <1>1, <1>2, <2>1, <2>2, CommitOK, JoinsOK
  <1>4. CloseInv'
    BY <1>1, <1>2, CloseStays DEF CloseInv, Decided
  <1>5. LeafInv'
    BY <1>1, <1>2, LeafStays DEF CloseInv, At
  <1> QED BY <1>3, <1>4, <1>5 DEF Inv

LEMMA HappeningInv ==
    ASSUME Inv, Happening, UNCHANGED <<call, held, sealVars, outside, history>>
    PROVE  Inv'
  <1>1. UNCHANGED <<call, held, waiter, uniWaiter, mark, verifying, carry, cert, wire, log,
                    seen, mail, dir, signed, unkept, silent>>
    BY DEF sealVars, outside, history
  <1>2. LifeInv /\ CloseInv /\ LeafInv /\ Decided
    BY DEF Inv, CloseInv
  <1>3. LifeInv'
    BY <1>2, HappeningOK
  <1>4. CloseInv'
    BY <1>1, <1>2, CloseStays DEF CloseInv, Decided
  <1>5. LeafInv'
    BY <1>1, <1>2, LeafStays DEF CloseInv, At
  <1> QED BY <1>3, <1>4, <1>5 DEF Inv

\* An operation that evicts the marker forgets a submission under way, or finds the leaf of
\* one that went through in the store.
LEMMA OperationOK ==
    ASSUME Inv, NEW o \in ops, Operation(o)
    PROVE  Inv'
  <1>1. /\ Finish(o) /\ mark' = (IF Evicts(o) THEN "none" ELSE mark)
        /\ silent' = (silent \/ (Evicts(o) /\ mark = "busy"))
        /\ UNCHANGED <<call, held, waiter, uniWaiter, verifying, carry, cert, wire, log,
                       seen, mail, dir, signed, unkept>>
    BY DEF Operation, outside
  <1>2. LifeInv /\ CloseInv /\ LeavesOK /\ AnswerOnce /\ (~silent => Remembered) /\ Decided
    BY DEF Inv, CloseInv, LeafInv
  <1>3. LifeInv'
    BY <1>1, <1>2, FinishOK
  <1>4. CloseInv'
    <2>1. Decided'
      BY <1>1, <1>2 DEF Decided
    <2>2. mark' \in {mark, "none"}
      BY <1>1
    <2> QED BY <1>1, <1>2, <2>1, <2>2, CloseStays DEF CloseInv
  <1>5. LeavesOK' /\ AnswerOnce'
    <2>1. silent' \in BOOLEAN
      BY <1>1, Zenon
    <2> QED BY <1>1, <1>2, <2>1 DEF LeavesOK, AnswerOnce, At
  <1>6. ASSUME ~silent' PROVE Remembered'
    <2>1. ~silent /\ ~(Evicts(o) /\ mark = "busy")
      BY <1>1, <1>6, Zenon
    <2>2. Remembered /\ mark \in {"none", "busy", "known"}
      BY <1>2, <2>1 DEF CloseInv
    <2>3. mark' = mark \/ (mark' = "none" /\ (mark = "none" \/ OwnIn(carry) # {}))
      BY <1>1, <2>1, <2>2 DEF Remembered
    <2>4. Sent' = Sent /\ OwnOrdered' = OwnOrdered /\ OwnIn(carry)' = OwnIn(carry)
      BY <1>1 DEF Sent, At, OwnOrdered, Ordered, OwnIn
    <2> QED BY <1>1, <2>2, <2>3, <2>4 DEF Remembered, At
  <1> QED BY <1>3, <1>4, <1>5, <1>6 DEF Inv, LeafInv

\* A restart forgets what is in memory; the leaf of a submission that went through is in
\* the store.
LEMMA RestartOK ==
    ASSUME Inv, Restart
    PROVE  Inv'
  <1>1. /\ LifecycleRestart
        /\ call' = [p \in Proc |-> IF At(p, "done") THEN call[p] ELSE Idle]
        /\ held' = FALSE /\ waiter' = NoCloser /\ uniWaiter' = NoCloser
        /\ mark' = "none" /\ verifying' = {}
        /\ silent' = (silent \/ \E p \in Proc : At(p, "sent"))
        /\ UNCHANGED <<carry, cert, wire, log, seen, mail, dir, signed, unkept>>
    BY DEF Restart, outside
  <1>2. LifeInv /\ CloseInv /\ LeavesOK /\ AnswerOnce /\ (~silent => Remembered) /\ Decided
        /\ call \in [Proc -> Call] /\ Answers
    BY DEF Inv, CloseInv, LeafInv
  <1>3. \A p \in Proc : /\ call'[p] \in Call /\ call'[p].at \in {"done", "idle"}
                        /\ call'[p] = call[p] \/ call'[p] = Idle
    BY <1>1, <1>2, Records DEF At
  <1>4. call' \in [Proc -> Call]
    BY <1>1, <1>3
  <1>5. CloseInv'
    <2>1. \A c \in Closer : ~InCeremony(c)' /\ ~Waits(call'[c])
      BY <1>3 DEF InCeremony, Ceremony, Waits, Proc
    <2>2. LocksHaveOwners' /\ Waiting'
      BY <1>1, <2>1 DEF LocksHaveOwners, Waiting
    <2>3. Answers'
      BY <1>1, <1>2, <1>3, Records DEF Answers, Sound
    <2>4. Decided'
      BY <1>1, <1>2 DEF Decided
    <2> QED BY <1>1, <1>2, <1>4, <2>2, <2>3, <2>4 DEF CloseInv
  <1>6. LeavesOK' /\ AnswerOnce'
    <2>1. silent' \in BOOLEAN
      BY <1>1, Zenon
    <2>2. ~At(Answerer, "idle")' => ~At(Answerer, "idle")
      BY <1>3, Records DEF At, Proc
    <2> QED BY <1>1, <1>2, <2>1, <2>2 DEF LeavesOK, AnswerOnce
  <1>7. ASSUME ~silent' PROVE Remembered'
    <2>1. ~silent /\ \A p \in Proc : ~At(p, "sent")
      BY <1>1, <1>7, Zenon
    <2>2. Remembered /\ Sent = {}
      BY <1>2, <2>1 DEF Sent
    <2>3. Sent' = {} /\ \A p \in Proc : ~At(p, "sign")'
      BY <1>3 DEF Sent, At
    <2>4. OwnOrdered' = OwnOrdered /\ OwnIn(carry)' = OwnIn(carry)
      BY <1>1 DEF OwnOrdered, Ordered, OwnIn
    <2> QED BY <1>1, <2>2, <2>3, <2>4 DEF Remembered
  <1> QED BY <1>2, <1>5, <1>6, <1>7, LifecycleRestartOK, <1>1 DEF Inv, LeafInv

-----------------------------------------------------------------------------
(* The invariant in every behaviour.                                       *)

LEMMA InitInv == Init => Inv
  <1> SUFFICES ASSUME Init PROVE Inv
    OBVIOUS
  <1> USE DEF Init, LifecycleInit
  <1>1. LifeInv
    <2>1. 1 \in 1..MaxNodes /\ 0 \in 0..MaxNodes /\ 1 \in 0..MaxNodes /\ 0 \in 0..MaxEvents
      BY LifecycleAssumption
    <2>2. LifecycleTypeOK
      BY <2>1 DEF LifecycleTypeOK, Status
    <2>3. Nodes /\ NoStrayNode
      BY DEF Terminal, Nodes, NoStrayNode
    <2> QED BY <2>2, <2>3 DEF LifeInv
  <1>2. \A p \in Proc : call[p] = Idle
    OBVIOUS
  <1>3. CloseInv
    <2>1. call \in [Proc -> Call]
      BY Records
    <2>2. \A c \in Closer : ~InCeremony(c) /\ ~Waits(call[c])
      BY <1>2, Records DEF InCeremony, Ceremony, Waits, Proc
    <2>3. LocksHaveOwners /\ Waiting
      BY <2>2 DEF LocksHaveOwners, Waiting
    <2>4. Answers
      BY <1>2, Records DEF Answers, Sound
    <2> QED BY <2>1, <2>3, <2>4 DEF CloseInv, Decided
  <1>4. LeavesOK
    <2>1. 0 \in 0..MaxLeaves /\ IsFiniteSet({})
      BY FS_EmptySet, CloserAssumption
    <2>2. << >> \in Seq({0} \cup Leaf) /\ Len(<< >>) = 0
      OBVIOUS
    <2>3. log \in Seq({0} \cup Leaf) /\ seen \in 0..Len(log)
      BY <2>2
    <2>4. signed \in 0..MaxLeaves /\ silent \in BOOLEAN /\ wire \subseteq Leaf
      BY <2>1
    <2>5. carry \subseteq (Nat \ {0}) \X ({0} \cup Leaf) /\ IsFiniteSet(carry)
      BY <2>1
    <2> QED BY <2>3, <2>4, <2>5 DEF LeavesOK
  <1>5. AnswerOnce
    BY <1>2, Records DEF AnswerOnce, At, Proc
  <1>6. Remembered
    <2>1. Sent = {} /\ \A p \in Proc : ~At(p, "sign")
      BY <1>2, Records DEF Sent, At
    <2>2. OwnOrdered = {}
      BY DEF OwnOrdered, Ordered
    <2> QED BY <2>1, <2>2 DEF Remembered
  <1> QED BY <1>1, <1>3, <1>4, <1>5, <1>6 DEF Inv, LeafInv

\* A step of a close.
LEMMA CloserStepInv ==
    ASSUME Inv, NEW c \in Closer, CloserStep(c)
    PROVE  Inv'
  BY ClaimOK, BrokerDoneOK, FlowDoneOK, AwaitOK, UniSendOK, UniDoneOK, PullDoneOK, ForceDoneOK
     DEF CloserStep

\* A step of a submission.
LEMMA SubmitStepInv ==
    ASSUME Inv, NEW p \in Proc, SubmitStep(p)
    PROVE  Inv'
  <1>1. LifeInv /\ CloseInv /\ LeafInv
    BY DEF Inv
  <1>2. UNCHANGED lifecycleVars
    BY DEF SubmitStep, SubmitAcked, SubmitRefused, SubmitUnanswered, CarryBuild, CarryStore,
           submitRest
  <1>3. CloseInv' /\ LeafInv'
    BY <1>1, SubmitAckedOK, SubmitRefusedOK, SubmitUnansweredOK, CarryBuildOK, CarryStoreOK
       DEF SubmitStep
  <1> QED BY <1>1, <1>2, <1>3, LifeSame DEF Inv

\* A frame.
LEMMA FrameStepInv ==
    ASSUME Inv, FrameStep
    PROVE  Inv'
  BY SealedArrivesOK, RejectedArrivesOK, ConfirmedArrivesOK, EarlyArrivesOK, ToldArrivesOK,
     UpgradedArrivesOK, ConfirmedVerifiedOK, DeliverOK DEF FrameStep

\* What is outside.
LEMMA OutsideStepInv ==
    ASSUME Inv, OutsideStep
    PROVE  Inv'
  BY TheirLeafOK, DirOK, RelayOrdersOK DEF OutsideStep

LEMMA NextInv == Inv /\ [Next]_vars => Inv'
  <1> SUFFICES ASSUME Inv, [Next]_vars PROVE Inv'
    OBVIOUS
  <1>1. CASE UNCHANGED vars
    <2>1. UNCHANGED <<call, held, waiter, uniWaiter, mark, verifying, carry, cert, wire, log,
                      seen, mail, dir, signed, unkept, silent>> /\ UNCHANGED lifecycleVars
      BY <1>1 DEF vars, sealVars, outside, history
    <2>2. LifeInv /\ CloseInv /\ LeafInv
      BY DEF Inv
    <2>3. CloseInv' /\ LeafInv'
      BY <2>1, <2>2, CloseStays, LeafStays DEF CloseInv, Decided, At
    <2> QED BY <2>1, <2>2, <2>3, LifeSame DEF Inv
  <1>2. ASSUME NEW c \in Closer, Start(c) PROVE Inv'
    BY <1>2, StartOK
  <1>3. CASE LocalStep
    BY <1>3, CloserStepInv, SubmitStepInv, AutoSubmitOK DEF LocalStep
  <1>4. CASE FrameStep
    BY <1>4, FrameStepInv
  <1>5. CASE OutsideStep
    BY <1>5, OutsideStepInv
  <1>6. CASE Happening /\ UNCHANGED <<call, held, sealVars, outside, history>>
    BY <1>6, HappeningInv
  <1>7. ASSUME NEW o \in ops, Operation(o) PROVE Inv'
    BY <1>7, OperationOK
  <1>8. CASE CoSign
    BY <1>8, CoSignOK
  <1>9. CASE Restart
    BY <1>9, RestartOK
  <1> QED BY <1>1, <1>2, <1>3, <1>4, <1>5, <1>6, <1>7, <1>8, <1>9 DEF Next

\* The invariant holds in every behaviour.
THEOREM Invariance == Spec => []Inv
  BY InitInv, NextInv, PTL DEF Spec

\* Every variable keeps its type, for any number of closes, leaves, nodes and events.
THEOREM TypeCorrect == Spec => []TypeOK
  <1>1. Inv => TypeOK
    BY DEF Inv, LifeInv, CloseInv, LeafInv, LeavesOK, TypeOK
  <1> QED BY <1>1, Invariance, PTL

\* Closes exclude each other through every await, and neither the lock nor the marker is
\* ever left behind without one who is going to release it, whatever frame, restart or
\* teardown comes between.
THEOREM LocksOwned == Spec => []LocksHaveOwners
  <1>1. Inv => LocksHaveOwners
    BY DEF Inv, CloseInv
  <1> QED BY <1>1, Invariance, PTL

\* The waiter of a close that waits for its bilateral certificate is its own until it is
\* told: pendingSealWaiters is keyed by session, and no other close writes it meanwhile.
THEOREM WaiterSafe == Spec => []WaiterKept
  <1>1. Inv => WaiterKept
    BY DEF Inv, CloseInv, Waiting, Waits, WaiterKept, At
  <1> QED BY <1>1, Invariance, PTL

\* Until an operation takes another's entry, the node that is up is the one in activeNodes.
THEOREM NodesKnown == Spec => []NoStrayNode
  <1>1. Inv => NoStrayNode
    BY DEF Inv, LifeInv
  <1> QED BY <1>1, Invariance, PTL

\* Until a submission goes unanswered, or is forgotten while it is under way (by a restart, or
\* by a teardown that evicts its mark), this side has one closing leaf at most, at the relay
\* and in its store: submitSealLeaf finds what an earlier one left, in memory or in the seal
\* leaf store, across any other teardown and restart.
THEOREM LeafOnce == Spec => []OneClosingLeaf
  <1>1. Inv => OneClosingLeaf
    <2> SUFFICES ASSUME Inv, ~silent
                 PROVE  Cardinality(OwnOrdered \cup OwnIn(carry)) <= 1
      BY DEF OneClosingLeaf
    <2>1. LeavesOK /\ Remembered
      BY DEF Inv, LeafInv
    <2>2. OwnIn(carry) \subseteq OwnOrdered
      <3>1. \A e \in carry : e[2] \in {0} \cup Leaf /\ e[1] \in 1..Len(log) /\ e[2] = log[e[1]]
        BY <2>1 DEF LeavesOK, Remembered
      <3>2. \A e \in carry : e[2] # 0 => e[2] \in OwnOrdered
        BY <3>1 DEF OwnOrdered, Ordered
      <3> QED BY <3>2 DEF OwnIn
    <2>3. OwnOrdered \cup OwnIn(carry) = OwnOrdered
      BY <2>2
    <2>4. CASE OwnOrdered = {}
      BY <2>3, <2>4, FS_EmptySet
    <2>5. CASE OwnOrdered # {}
      <3>1. PICK l \in OwnOrdered : TRUE
        BY <2>5
      <3>2. OwnOrdered = {l}
        BY <2>1, <3>1 DEF Remembered
      <3>3. Cardinality({l}) = 1
        BY FS_Singleton
      <3> QED BY <2>3, <3>2, <3>3
    <2> QED BY <2>4, <2>5
  <1> QED BY <1>1, Invariance, PTL

-----------------------------------------------------------------------------
(* What a close promises.                                                  *)

Answered == [c \in Closer |-> call[c].ans]
Promise == [Outcome!Next]_(Outcome!vars)

\* Nobody answers, nothing is certified and nothing stored.
LEMMA QuietPromise ==
    ASSUME UNCHANGED <<dir, cert, unkept>>, \A c \in Closer : call'[c].ans = call[c].ans
    PROVE  Promise
  <1>1. Answered' = Answered
    BY DEF Answered
  <1> QED BY <1>1 DEF Promise, Outcome!vars, Answered

\* One goes on as r: an answer "sealed" comes with the certificate.
LEMMA TurnPromise ==
    ASSUME CloseInv, NEW p \in Proc, NEW r \in Call, Turn(p, r), UNCHANGED <<dir, cert, unkept>>
    PROVE  Promise
  <1>1. call' = [call EXCEPT ![p] = r] /\ call[p].at # "done" /\ Sound(r, cert' \/ unkept')
        /\ call \in [Proc -> Call] /\ Sound(call[p], cert \/ unkept)
    BY DEF Turn, CloseInv, Answers
  <1>2. call[p].ans = "none" /\ r.ans \in {"none", "sealed", "other"}
    BY <1>1 DEF Sound, Call, Answer
  <1>3. \A c \in Closer : call'[c].ans = IF c = p THEN r.ans ELSE call[c].ans
    BY <1>1 DEF Proc
  <1>4. CASE p \notin Closer \/ r.ans = "none"
    BY <1>2, <1>3, <1>4, QuietPromise
  <1>5. CASE p \in Closer /\ r.ans # "none"
    <2>1. Answered' = [Answered EXCEPT ![p] = r.ans] /\ Answered[p] = "none"
      BY <1>2, <1>3, <1>5 DEF Answered
    <2>2. r.ans = "sealed" => cert' \/ unkept'
      BY <1>1 DEF Sound
    <2>3. Outcome!Reply(p)
      BY <1>2, <1>5, <2>1, <2>2 DEF Outcome!Reply, Answered
    <2> QED BY <1>5, <2>3 DEF Promise, Outcome!Next
  <1> QED BY <1>4, <1>5

\* Whoever submits gives an answer that is true.
LEMMA SubmitStepPromise ==
    ASSUME Inv, NEW p \in Proc, SubmitStep(p)
    PROVE  Promise
  <1>1. CloseInv /\ call \in [Proc -> Call] /\ UNCHANGED <<dir, cert, unkept>>
    BY DEF Inv, CloseInv, SubmitStep, SubmitAcked, SubmitRefused, SubmitUnanswered, CarryBuild,
           CarryStore, submitRest
  <1>2. Ready(p)
    BY DEF SubmitStep, SubmitAcked, SubmitRefused, SubmitUnanswered, CarryBuild, CarryStore,
           Ready, At, Proc
  <1>3. ASSUME AfterSubmit(p, TRUE) PROVE Promise
    <2>1. \E r \in Call : Turn(p, r)
      BY <1>1, <1>2, <1>3, AfterSubmitTurn
    <2> QED BY <1>1, <2>1, TurnPromise
  <1>4. ASSUME AfterFailure(p) PROVE Promise
    <2>1. \E r \in Call : Turn(p, r)
      BY <1>1, <1>2, <1>4, AfterFailureTurn
    <2> QED BY <1>1, <2>1, TurnPromise
  <1>5. ASSUME NEW r, call' = [call EXCEPT ![p] = r], r.ans = call[p].ans
        PROVE  Promise
    <2>1. \A c \in Closer : call'[c].ans = call[c].ans
      BY <1>1, <1>5 DEF Proc
    <2> QED BY <1>1, <2>1, QuietPromise
  <1>6. CASE SubmitAcked(p)
    BY <1>3, <1>6 DEF SubmitAcked
  <1>7. CASE SubmitRefused(p)
    <2> DEFINE r == [call[p] EXCEPT !.leaf = signed + 1]
    <2>1. CASE call' = [call EXCEPT ![p].leaf = signed + 1]
      <3>1. call' = [call EXCEPT ![p] = r] /\ r.ans = call[p].ans
        BY <1>1, <2>1 DEF Call
      <3> QED BY <1>5, <3>1
    <2> QED BY <1>4, <1>7, <2>1 DEF SubmitRefused
  <1>8. CASE SubmitUnanswered(p)
    <2> DEFINE r == [call[p] EXCEPT !.at = "carry", !.leaf = 0]
    <2>1. call' = [call EXCEPT ![p] = r] /\ r.ans = call[p].ans
      BY <1>1, <1>8 DEF Call, SubmitUnanswered
    <2> QED BY <1>5, <2>1
  <1>9. CASE CarryBuild(p)
    <2> DEFINE r == [call[p] EXCEPT !.at = "sign", !.leaf = signed + 1,
                                    !.pos = Cardinality(carry) + 1]
    <2>1. CASE call' = [call EXCEPT ![p].at = "sign", ![p].leaf = signed + 1,
                                    ![p].pos = Cardinality(carry) + 1]
      <3>1. call' = [call EXCEPT ![p] = r] /\ r.ans = call[p].ans
        BY <1>1, <2>1 DEF Call
      <3> QED BY <1>5, <3>1
    <2> QED BY <1>3, <1>4, <1>9, <2>1 DEF CarryBuild
  <1>10. CASE CarryStore(p)
    BY <1>3, <1>4, <1>10 DEF CarryStore
  <1> QED BY <1>6, <1>7, <1>8, <1>9, <1>10 DEF SubmitStep

\* The certificate comes after the directory's decision.
LEMMA LearnPromise ==
    ASSUME Keep, dir # "none", UNCHANGED dir, \A c \in Closer : call'[c].ans = call[c].ans
    PROVE  Promise
  <1>1. Answered' = Answered
    BY DEF Answered
  <1>2. Outcome!Come
    BY DEF Keep, Outcome!Come
  <1>3. Outcome!Learn
    BY <1>1, <1>2 DEF Outcome!Learn, Answered
  <1> QED BY <1>3 DEF Promise, Outcome!Next

LEMMA CloserStepPromise ==
    ASSUME Inv, NEW c \in Closer, Start(c) \/ CloserStep(c)
    PROVE  Promise
  <1>1. /\ CloseInv /\ LeafInv /\ LeavesOK /\ c \in Proc /\ call \in [Proc -> Call]
        /\ call[c] \in Call /\ Sound(call[c], cert \/ unkept) /\ c # Answerer
        /\ "other" \in Answer /\ "sealed" \in Answer
        /\ {waiter, uniWaiter} \subseteq Closer \cup {NoCloser}
    BY ProcFacts DEF Inv, CloseInv, LeafInv, Proc, Answers, Answer
  <1>2. ASSUME NEW r, call' = [call EXCEPT ![c] = r], r.ans = call[c].ans,
               UNCHANGED <<dir, cert, unkept>>
        PROVE  Promise
    <2>1. \A d \in Closer : call'[d].ans = call[d].ans
      BY <1>1, <1>2 DEF Proc
    <2> QED BY <1>2, <2>1, QuietPromise
  <1>3. \* An answer "other" needs nothing.
        ASSUME call' = [call EXCEPT ![c] = Ended("other")], call[c].at # "done",
               UNCHANGED <<dir, cert, unkept>>
        PROVE  Promise
    <2>1. Ended("other").ans = "other" /\ call[c].ans = "none"
      BY <1>1, <1>3, Records DEF Sound
    <2>2. Answered' = [Answered EXCEPT ![c] = "other"] /\ Answered[c] = "none"
      BY <1>1, <1>3, <2>1 DEF Answered, Proc
    <2>3. Outcome!Reply(c)
      BY <1>3, <2>2 DEF Outcome!Reply, Answered
    <2> QED BY <2>3 DEF Promise, Outcome!Next
  <1>4. ASSUME NEW ans \in {"sealed", "other"}, EndClose(c, ans), InCeremony(c),
               ans = "sealed" => call[c].got = "sealed",
               {waiter', uniWaiter'} \subseteq Closer \cup {NoCloser},
               UNCHANGED <<dir, cert, unkept>>
        PROVE  Promise
    <2>1. ans = "sealed" => cert \/ unkept
      BY <1>1, <1>4 DEF Sound
    <2>2. \E r \in Call : Turn(c, r)
      BY <1>1, <1>4, <2>1, EndCloseTurn DEF Answer
    <2> QED BY <1>1, <1>4, <2>2, TurnPromise
  <1>5. ASSUME Submit(c), MaySubmit(c), UNCHANGED <<dir, cert, unkept>> PROVE Promise
    <2>1. \E r \in Call : Turn(c, r)
      BY <1>1, <1>5, SubmitTurn
    <2> QED BY <1>1, <1>5, <2>1, TurnPromise
  <1>6. CASE Start(c)
    <2>1. At(c, "idle") /\ UNCHANGED <<dir, cert, unkept>>
      BY <1>6 DEF Start, closeRest, history
    <2>2. CASE Refused(c)
      BY <1>3, <2>1, <2>2 DEF Refused, At
    <2>3. ASSUME NEW at \in {"gate", "force"},
                 call' = [call EXCEPT ![c].at = at, ![c].rec = status]
          PROVE  Promise
      <3> DEFINE r == [call[c] EXCEPT !.at = at, !.rec = status]
      <3>1. call' = [call EXCEPT ![c] = r] /\ r.ans = call[c].ans
        BY <1>1, <2>3 DEF Call
      <3> QED BY <1>2, <2>1, <3>1
    <2> QED BY <1>6, <2>2, <2>3 DEF Start
  <1>7. CASE Claim(c)
    <2>1. At(c, "gate") /\ UNCHANGED <<dir, cert, unkept>>
      BY <1>7 DEF Claim, closeRest, history
    <2>2. CASE Refused(c)
      BY <1>3, <2>1, <2>2 DEF Refused, At
    <2>3. ASSUME NEW at, call' = [call EXCEPT ![c].at = at]
          PROVE  Promise
      <3> DEFINE r == [call[c] EXCEPT !.at = at]
      <3>1. call' = [call EXCEPT ![c] = r] /\ r.ans = call[c].ans
        BY <1>1, <2>3 DEF Call
      <3> QED BY <1>2, <2>1, <3>1
    <2> QED BY <1>7, <2>2, <2>3 DEF Claim
  <1>8. CASE BrokerDone(c)
    BY <1>1, <1>5, <1>8 DEF BrokerDone, MaySubmit, submitRest
  <1>9. CASE FlowDone(c)
    <2>1. At(c, "flow") /\ InCeremony(c) /\ UNCHANGED <<dir, cert, unkept>>
      BY <1>9 DEF FlowDone, flowRest, InCeremony, Ceremony, At
    <2>2. CASE call[c].rec = "interrupted" /\ Submit(c)
      BY <1>5, <2>1, <2>2 DEF MaySubmit
    <2>3. CASE EndClose(c, "other") /\ UNCHANGED <<waiter, uniWaiter>>
      BY <1>1, <1>4, <2>1, <2>3
    <2>4. CASE call' = [call EXCEPT ![c].at = "broker", ![c].rec = "bilateral"]
      <3> DEFINE r == [call[c] EXCEPT !.at = "broker", !.rec = "bilateral"]
      <3>1. call' = [call EXCEPT ![c] = r] /\ r.ans = call[c].ans
        BY <1>1, <2>4 DEF Call
      <3> QED BY <1>2, <2>1, <3>1
    <2> QED BY <1>9, <2>2, <2>3, <2>4 DEF FlowDone
  <1>10. CASE Await(c)
    <2>1. At(c, "await") /\ InCeremony(c) /\ UNCHANGED <<dir, cert, unkept>> /\ waiter' = NoCloser
      BY <1>10 DEF Await, closeRest, history, InCeremony, Ceremony, At
    <2>2. CASE call[c].got = "sealed" /\ EndClose(c, "sealed") /\ UNCHANGED uniWaiter
      BY <1>1, <1>4, <2>1, <2>2
    <2>3. CASE EndClose(c, "other") /\ UNCHANGED uniWaiter
      BY <1>1, <1>4, <2>1, <2>3
    <2>4. CASE Escalate(c)
      <3>1. \E r \in Call : Turn(c, r)
        BY <1>1, <2>1, <2>4, EscalateTurn
      <3> QED BY <1>1, <2>1, <3>1, TurnPromise
    <2> QED BY <1>10, <2>2, <2>3, <2>4 DEF Await
  <1>11. CASE UniDone(c)
    <2>1. At(c, "uni") /\ InCeremony(c) /\ UNCHANGED <<dir, cert, unkept, waiter>>
          /\ uniWaiter' = NoCloser
      BY <1>11 DEF UniDone, closeRest, history, InCeremony, Ceremony, At
    <2> QED BY <1>1, <1>4, <1>11, <2>1 DEF UniDone
  <1>12. CASE UniSend(c)
    <2>1. At(c, "key") /\ InCeremony(c) /\ UNCHANGED <<cert, unkept, waiter>>
      BY <1>12 DEF UniSend, history, InCeremony, Ceremony, At
    <2>2. CASE EndClose(c, "other") /\ uniWaiter' = NoCloser /\ UNCHANGED dir
      BY <1>1, <1>4, <2>1, <2>2
    <2>3. CASE /\ (dir = "none" /\ dir' = "unilateral") \/ UNCHANGED dir
               /\ call' = [call EXCEPT ![c] = [Idle EXCEPT !.at = "uni", !.got = call[c].got]]
      <3> DEFINE r == [Idle EXCEPT !.at = "uni", !.got = call[c].got]
      <3>1. r.ans = "none" /\ call[c].ans = "none" /\ call' = [call EXCEPT ![c] = r]
        BY <1>1, <2>1, <2>3 DEF Idle, Sound, At
      <3> HIDE DEF r
      <3>2. \A d \in Closer : call'[d].ans = call[d].ans
        BY <1>1, <3>1 DEF Proc
      <3>3. Answered' = Answered
        BY <3>2 DEF Answered
      <3>4. CASE dir = "none" /\ dir' = "unilateral"
        BY <2>1, <3>3, <3>4 DEF Promise, Outcome!Next, Outcome!Decide, Answered
      <3>5. CASE UNCHANGED dir
        BY <2>1, <3>2, <3>5, QuietPromise
      <3> QED BY <2>3, <3>4, <3>5
    <2> QED BY <1>12, <2>2, <2>3 DEF UniSend
  <1>13. CASE PullDone(c)
    <2>1. At(c, "pull") /\ UNCHANGED dir
      BY <1>13 DEF PullDone, listenRest
    <2>2. CASE call' = [call EXCEPT ![c] = Ended("other")] /\ NotSealed
      BY <1>3, <2>1, <2>2 DEF NotSealed, At
    <2>3. CASE /\ dir # "none" /\ Sealed
               /\ call' = [call EXCEPT ![c] = Ended(IF cert' THEN "sealed" ELSE "other")]
      <3> DEFINE ans == IF cert' THEN "sealed" ELSE "other"
      <3>1. Ended(ans).ans = ans /\ call[c].ans = "none"
        BY <1>1, <2>1, Records DEF Sound, At
      <3>2. call' = [call EXCEPT ![c] = Ended(ans)]
        BY <2>3
      <3>3. ans \in {"sealed", "other"} /\ (ans = "sealed" => cert')
        OBVIOUS
      <3> HIDE DEF ans
      <3>4. Answered' = [Answered EXCEPT ![c] = ans] /\ Answered[c] = "none"
        BY <1>1, <3>1, <3>2 DEF Answered, Proc
      <3>5. Outcome!Come
        BY <2>3 DEF Sealed, Keep, Outcome!Come
      <3>6. Outcome!Reply(c)
        BY <2>1, <3>3, <3>4, <3>5 DEF Outcome!Reply, Answered
      <3> QED BY <3>6 DEF Promise, Outcome!Next
    <2> QED BY <1>13, <2>2, <2>3 DEF PullDone
  <1>14. CASE ForceDone(c)
    BY <1>3, <1>14 DEF ForceDone, sealVars, outside, history, At
  <1> QED BY <1>6, <1>7, <1>8, <1>9, <1>10, <1>11, <1>12, <1>13, <1>14 DEF CloserStep

LEMMA FramePromise ==
    ASSUME Inv, FrameStep
    PROVE  Promise
  <1>1. /\ CloseInv /\ LeafInv /\ call \in [Proc -> Call] /\ Decided
        /\ {waiter, uniWaiter} \subseteq Closer \cup {NoCloser} /\ verifying \subseteq Closer
    BY DEF Inv, CloseInv
  <1>2. ASSUME NEW c \in Closer \cup {NoCloser}, NEW what \in {"sealed", "local", "directory"},
               Tell(c, what)
        PROVE  \A d \in Closer : call'[d].ans = call[d].ans
    BY <1>1, <1>2, TellFacts DEF Proc
  <1>3. CASE SealedArrives
    <2>1. \A d \in Closer : call'[d].ans = call[d].ans
      BY <1>1, <1>2, <1>3 DEF SealedArrives
    <2>2. UNCHANGED dir /\ dir # "none" /\ (Keep \/ UNCHANGED <<cert, unkept>>)
      BY <1>1, <1>3 DEF SealedArrives, Take, Sealed, NotSealed, listenRest, Decided
    <2> QED BY <2>1, <2>2, QuietPromise, LearnPromise
  <1>4. CASE RejectedArrives
    <2>1. Tell(waiter, "directory") /\ UNCHANGED <<dir, cert, unkept>>
      BY <1>4 DEF RejectedArrives, NotSealed, listenRest
    <2> QED BY <1>1, <1>2, <2>1, QuietPromise
  <1>5. CASE ConfirmedArrives
    <2>1. UNCHANGED <<call, dir, cert, unkept>>
      BY <1>5 DEF ConfirmedArrives, NotSealed, listenRest
    <2> QED BY <2>1, QuietPromise
  <1>6. CASE EarlyArrives
    <2>1. Tell(uniWaiter, "directory") /\ UNCHANGED <<dir, cert, unkept>>
      BY <1>6 DEF EarlyArrives, NotSealed, listenRest
    <2> QED BY <1>1, <1>2, <2>1, QuietPromise
  <1>7. CASE ToldArrives
    <2>1. UNCHANGED <<call, dir, unkept>> /\ dir # "none" /\ cert' \in {TRUE, cert}
      BY <1>1, <1>7 DEF ToldArrives, listenRest, Decided
    <2>2. Answered' = Answered
      BY <2>1 DEF Answered
    <2>3. CASE cert' = TRUE
      <3>1. Outcome!Learn
        BY <2>1, <2>2, <2>3 DEF Outcome!Learn, Outcome!Come, Answered
      <3> QED BY <3>1 DEF Promise, Outcome!Next
    <2>4. CASE cert' = cert
      BY <2>1, <2>4, QuietPromise
    <2> QED BY <2>1, <2>3, <2>4
  <1>8. CASE UpgradedArrives
    <2>1. UNCHANGED <<call, dir, cert, unkept>>
      BY <1>8 DEF UpgradedArrives, listenRest
    <2> QED BY <2>1, QuietPromise
  <1>9. ASSUME NEW c \in Closer, ConfirmedVerified(c) PROVE Promise
    <2>1. \A d \in Closer : call'[d].ans = call[d].ans
      BY <1>2, <1>9 DEF ConfirmedVerified
    <2>2. UNCHANGED dir /\ dir # "none" /\ (Keep \/ UNCHANGED <<cert, unkept>>)
      BY <1>1, <1>9 DEF ConfirmedVerified, Sealed, NotSealed, listenRest, Decided
    <2> QED BY <2>1, <2>2, QuietPromise, LearnPromise
  <1>10. CASE Deliver
    <2>1. UNCHANGED <<dir, cert, unkept>>
      BY <1>10 DEF Deliver, history
    <2>2. \A d \in Closer : call'[d].ans = call[d].ans
      BY <1>1, <1>10, ProcFacts DEF Deliver, Proc
    <2> QED BY <2>1, <2>2, QuietPromise
  <1> QED BY <1>3, <1>4, <1>5, <1>6, <1>7, <1>8, <1>9, <1>10 DEF FrameStep

LEMMA NextPromise == Inv /\ [Next]_vars => Promise
  <1> SUFFICES ASSUME Inv, [Next]_vars PROVE Promise
    OBVIOUS
  <1>1. CASE UNCHANGED vars
    BY <1>1, QuietPromise DEF vars, sealVars, outside, history
  <1>2. ASSUME NEW c \in Closer, Start(c) \/ CloserStep(c) PROVE Promise
    BY <1>2, CloserStepPromise
  <1>3. ASSUME NEW p \in Proc, SubmitStep(p) PROVE Promise
    BY <1>3, SubmitStepPromise
  <1>4. CASE AutoSubmit
    <2>1. Answerer \in Proc /\ MaySubmit(Answerer) /\ Submit(Answerer) /\ CloseInv /\ LeavesOK
          /\ UNCHANGED <<dir, cert, unkept>>
      BY <1>4 DEF AutoSubmit, Proc, MaySubmit, Inv, LeafInv, submitRest
    <2>2. \E r \in Call : Turn(Answerer, r)
      BY <2>1, SubmitTurn
    <2> QED BY <2>1, <2>2, TurnPromise
  <1>5. CASE FrameStep
    BY <1>5, FramePromise
  <1>6. CASE OutsideStep
    <2>1. UNCHANGED <<call, cert, unkept>>
      BY <1>6 DEF OutsideStep, TheirLeaf, DirBilateral, DirTheirs, RelayOrders, outsideRest,
                  sealVars, history
    <2>2. Answered' = Answered
      BY <2>1 DEF Answered
    <2>3. UNCHANGED dir \/ (dir = "none" /\ dir' \in {"bilateral", "unilateral"})
      BY <1>6 DEF OutsideStep, TheirLeaf, DirBilateral, DirTheirs, RelayOrders
    <2>4. CASE dir = "none" /\ dir' \in {"bilateral", "unilateral"}
      BY <2>1, <2>2, <2>4 DEF Promise, Outcome!Next, Outcome!Decide, Answered
    <2>5. CASE UNCHANGED dir
      BY <2>1, <2>5, QuietPromise
    <2> QED BY <2>3, <2>4, <2>5
  <1>7. CASE UNCHANGED <<call, held, sealVars, outside, history>>
    BY <1>7, QuietPromise DEF sealVars, outside, history
  <1>8. ASSUME NEW o \in ops, Operation(o) PROVE Promise
    BY <1>8, QuietPromise DEF Operation, outside
  <1>9. CASE CoSign
    BY <1>9, QuietPromise DEF CoSign, sealVars, outside, history
  <1>10. CASE Restart
    <2>1. /\ call' = [p \in Proc |-> IF At(p, "done") THEN call[p] ELSE Idle]
          /\ UNCHANGED <<dir, cert, unkept>>
      BY <1>10 DEF Restart, outside
    <2>2. \A c \in Closer : Sound(call[c], cert \/ unkept)
      BY DEF Inv, CloseInv, Answers, Proc
    <2>3. \A c \in Closer : call'[c].ans = call[c].ans
      BY <2>1, <2>2, Records DEF Sound, At, Proc
    <2> QED BY <2>1, <2>3, QuietPromise
  <1> QED BY <1>1, <1>2, <1>3, <1>4, <1>5, <1>6, <1>7, <1>8, <1>9, <1>10 DEF Next, LocalStep

\* SealClose implements SealOutcome: whatever overlaps, a close that answers "sealed" has
\* the directory's certificate in the store, for good, or knows that it could not be stored.
THEOREM PromiseKept == Spec => KeepsPromise
  <1>1. Init => Outcome!Init
    BY Records DEF Init, Outcome!Init, Proc
  <1>2. Inv /\ [Next]_vars => [Outcome!Next]_(Outcome!vars)
    BY NextPromise DEF Promise
  <1> QED BY <1>1, <1>2, Invariance, PTL DEF Spec, KeepsPromise, Outcome!Spec

-----------------------------------------------------------------------------
(* Who writes over a terminal status.                                      *)

Final == status \in Terminal /\ status' # status => StaleWrite

LEMMA FinishFinal ==
    ASSUME NEW o \in ops, Finish(o)
    PROVE  Final
  <1>1. CASE Destroyed(o)
    <2>1. o.at = "destroy" /\ ops' = (ops \ {o}) \cup {Begin("release", o.n)}
      BY <1>1 DEF Destroyed
    <2>2. Begin("release", o.n).at = "release"
      BY DEF Begin
    <2>3. o \in ops \ ops'
      BY <2>1, <2>2
    <2> QED BY <2>1, <2>3 DEF Final, StaleWrite
  <1>2. CASE Released(o) \/ Retired(o) \/ ReviveBuilt(o)
    BY <1>2 DEF Released, Retired, ReviveBuilt, Final
  <1>3. CASE Expired(o)
    <2>1. o.at = "expire"
          /\ (ops' = ops \ {o} \/ ops' = (ops \ {o}) \cup {Begin("retire", node)})
      BY <1>3 DEF Expired, AbandonSession
    <2>2. Begin("retire", node).at = "retire"
      BY DEF Begin
    <2>3. o \in ops \ ops'
      BY <2>1, <2>2
    <2> QED BY <2>1, <2>3 DEF Final, StaleWrite
  <1>4. CASE Revived(o)
    <2>1. o.at = "wire" /\ ops' = ops \ {o}
      BY <1>4 DEF Revived
    <2> QED BY <2>1 DEF Final, StaleWrite
  <1> QED BY <1>1, <1>2, <1>3, <1>4 DEF Finish

\* A seal refuses to repeat or overwrite a terminal status.
LEMMA MarkSealedFinal ==
    ASSUME MarkSealed
    PROVE  Final
  BY DEF MarkSealed, WriteStatus, Writable, Final

LEMMA NextFinal == Inv /\ [Next]_vars => [(status \in Terminal /\ status' # status) => StaleWrite]_vars
  <1> SUFFICES ASSUME Inv, Next PROVE Final
    BY DEF Final
  <1>1. CASE UNCHANGED status
    BY <1>1 DEF Final
  <1>2. ASSUME NEW c \in Closer, Start(c) \/ CloserStep(c) PROVE Final
    <2>1. CASE Start(c) \/ Claim(c) \/ BrokerDone(c) \/ Await(c) \/ UniSend(c) \/ UniDone(c)
      <3>1. UNCHANGED status
        BY <2>1 DEF Start, Claim, BrokerDone, Await, UniSend, UniDone, closeRest, submitRest,
                    lifecycleVars
      <3> QED BY <1>1, <3>1
    <2>2. CASE FlowDone(c)
      BY <2>2 DEF FlowDone, CommitPending, Final, Terminal
    <2>3. CASE PullDone(c)
      BY <2>3, MarkSealedFinal DEF PullDone, Sealed, NotSealed, lifecycleVars, Final
    <2>4. CASE ForceDone(c)
      <3>1. CASE UNCHANGED lifecycleVars
        BY <3>1 DEF Final, lifecycleVars
      <3>2. CASE AbandonSession(ops)
        <4>1. status' = "abandoned"
          BY <3>2 DEF AbandonSession, WriteStatus, Writable
        <4>2. At(c, "force") /\ call'[c] = Ended("other")
          BY <2>4 DEF ForceDone, Inv, CloseInv, Proc
        <4>3. call'[c].at = "done"
          BY <4>2, Records DEF Answer
        <4>4. ~At(c, "force")'
          BY <4>3 DEF At
        <4> QED BY <4>1, <4>2, <4>4 DEF Final, StaleWrite
      <3> QED BY <2>4, <3>1, <3>2 DEF ForceDone
    <2> QED BY <1>2, <2>1, <2>2, <2>3, <2>4 DEF CloserStep
  <1>3. ASSUME NEW p \in Proc, SubmitStep(p) PROVE Final
    <2>1. UNCHANGED status
      BY <1>3 DEF SubmitStep, SubmitAcked, SubmitRefused, SubmitUnanswered, CarryBuild,
                  CarryStore, submitRest, lifecycleVars
    <2> QED BY <1>1, <2>1
  <1>4. CASE AutoSubmit
    BY <1>4 DEF AutoSubmit, submitRest, lifecycleVars, Final
  <1>5. CASE FrameStep
    <2>1. UNCHANGED lifecycleVars \/ MarkSealed
      BY <1>5 DEF FrameStep, SealedArrives, RejectedArrives, ConfirmedArrives, EarlyArrives,
                  ToldArrives, UpgradedArrives, ConfirmedVerified, Deliver, Sealed, NotSealed
    <2> QED BY <2>1, MarkSealedFinal DEF lifecycleVars, Final
  <1>6. CASE OutsideStep
    BY <1>6 DEF OutsideStep, TheirLeaf, DirBilateral, DirTheirs, RelayOrders, outsideRest,
                lifecycleVars, Final
  <1>7. CASE Happening
    BY <1>7 DEF Happening, MarkInterrupted, SetOffline, Freeze, CounterpartyAbandon, Revive,
                Final, Terminal
  <1>8. ASSUME NEW o \in ops, Operation(o) PROVE Final
    BY <1>8, FinishFinal DEF Operation
  <1>9. CASE CoSign
    BY <1>9 DEF CoSign, CommitPending, Final, Terminal
  <1>10. CASE Restart
    BY <1>10 DEF Restart, LifecycleRestart, Final, Terminal
  <1> QED BY <1>2, <1>3, <1>4, <1>5, <1>6, <1>7, <1>8, <1>9, <1>10 DEF Next, LocalStep

\* A sealed or abandoned row is written over only by an operation that looked at it before
\* it was terminal and waited meanwhile, or by a forced close that told the others first.
THEOREM FinalOrStale == Spec => FinalUnlessStale
  BY NextFinal, Invariance, PTL DEF Spec, FinalUnlessStale

=============================================================================
