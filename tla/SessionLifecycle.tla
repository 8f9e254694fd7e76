-------------------------- MODULE SessionLifecycle --------------------------
(***************************************************************************)
(* One session of one agent: its row, its node, and the operations that    *)
(* change them.  The row has a status; the node is found through the map   *)
(* activeNodes.  Each operation stops or builds a node, which takes time,  *)
(* and writes the status or the map before or after that, so operations    *)
(* overlap.  The daemon may die at any point.                              *)
(*                                                                         *)
(* SealClose extends this module with the closes and the certificates.     *)
(***************************************************************************)
EXTENDS Naturals, FiniteSets

CONSTANTS
    MaxNodes,       \* bound: nodes built for the session
    MaxEvents       \* bound: interruptions, revivals, sweeps and restarts

ASSUME LifecycleAssumption == MaxNodes \in Nat \ {0} /\ MaxEvents \in Nat

VARIABLES
    status,     \* the row's status
    seed,       \* the identity a revival needs is in memory (sessionSeeds)
    node,       \* the node activeNodes has, 0 for none
    running,    \* the nodes that are up
    built,      \* nodes built so far
    ops,        \* operations that wait for a node or a relay
    frozen,     \* the session may not be revived (frozenSessions)
    told,       \* the counterparty's abandonment is noted
    \* history
    displaced,  \* a node that was up lost its entry in activeNodes to another operation
    events

nodeVars == <<node, running, built, ops, displaced>>
lifecycleVars == <<status, seed, nodeVars, frozen, told, events>>

Status   == {"active", "interrupted", "pending", "sealed", "abandoned"}
Terminal == {"sealed", "abandoned"}

\* Two operations that wait at the same point for the same node count as one; st is the
\* status a teardown is going to write.
Op == [at : {"destroy", "release", "retire", "interrupt", "build", "wire", "expire"}, n : 0..MaxNodes,
       st : Status]

LifecycleTypeOK ==
    /\ status \in Status /\ node \in 0..MaxNodes
    /\ running \subseteq 1..MaxNodes /\ built \in 1..MaxNodes
    /\ ops \subseteq Op
    /\ {seed, frozen, told, displaced} \subseteq BOOLEAN
    /\ events \in 0..MaxEvents

\* A conversation both sides have, open or interrupted a while ago.
LifecycleInit ==
    /\ \/ status = "active" /\ node = 1 /\ running = {1}
       \/ status = "interrupted" /\ node = 0 /\ running = {}
    /\ seed = TRUE /\ built = 1 /\ ops = {}
    /\ frozen = FALSE /\ told = FALSE
    /\ displaced = FALSE /\ events = 0

Event == events < MaxEvents /\ events' = events + 1

-----------------------------------------------------------------------------
(* The row.                                                                *)

\* Mutant of Writable: the row takes every write.
WritableAlways(st) == TRUE

\* updateSessionStatus lets a seal neither repeat nor overwrite a terminal status; every
\* other status is written over whatever is there.
Writable(st) == st = "sealed" => status \notin Terminal

\* updateSessionStatus: the identity goes with a terminal status, also with a refused one.
WriteStatus(st) ==
    /\ status' = IF Writable(st) THEN st ELSE status
    /\ seed' = (seed /\ st \notin Terminal)

\* persistSealInterruptedCommitment: only an open row becomes a pending one.
CommitPending ==
    /\ status \in {"active", "interrupted"}
    /\ status' = "pending" /\ seed' = FALSE

-----------------------------------------------------------------------------
(* The node.                                                               *)

Begin(at, n) == [at |-> at, n |-> n, st |-> "active"]
Teardown(n, st) == [at |-> "destroy", n |-> n, st |-> st]

\* detachSessionRelay: a node is off the relay as soon as its teardown starts.
Attached == node # 0 /\ \A o \in ops : o.n = node => o.at \in {"build", "wire"}

\* Mutant of StartDestroy: the node of a sealed session is left alone.
StartDestroyUnlessSealed(st) ==
    /\ ops' = IF node = 0 \/ st = "sealed" THEN ops ELSE ops \cup {Teardown(node, st)}
    /\ UNCHANGED <<node, running, built, displaced>>

\* destroySessionNode with the status it is going to write; nothing without an entry.
StartDestroy(st) ==
    /\ ops' = IF node = 0 THEN ops ELSE ops \cup {Teardown(node, st)}
    /\ UNCHANGED <<node, running, built, displaced>>

\* retireSessionNode, which writes no status, or the end of markInterruptedWithDetails.
StartRetire(at) ==
    /\ ops' = IF node = 0 THEN ops ELSE ops \cup {Begin(at, node)}
    /\ UNCHANGED <<node, running, built, displaced>>

\* The entry goes by its key, whichever node it has by now.
DropEntry(o) ==
    /\ node' = 0
    /\ displaced' = (displaced \/ node \notin {0, o.n})

\* destroySessionNode, after node.stop(): the status, then the relay is told.
Destroyed(o) ==
    /\ o.at = "destroy"
    /\ running' = running \ {o.n}
    /\ WriteStatus(o.st)
    /\ ops' = (ops \ {o}) \cup {Begin("release", o.n)}
    /\ UNCHANGED <<node, built, displaced, frozen, told, events>>

\* destroySessionNode, after releaseSessionReservation.
Released(o) ==
    /\ o.at = "release"
    /\ DropEntry(o)
    /\ ops' = ops \ {o}
    /\ UNCHANGED <<status, seed, running, built, frozen, told, events>>

\* Mutant of Retired: the node is forgotten before it is stopped.
RetiredUnstopped(o) ==
    /\ o.at \in {"retire", "interrupt"}
    /\ DropEntry(o)
    /\ ops' = ops \ {o}
    /\ UNCHANGED <<status, seed, running, built, frozen, told, events>>

\* retireSessionNode and markInterruptedWithDetails, after node.stop().
Retired(o) ==
    /\ o.at \in {"retire", "interrupt"}
    /\ running' = running \ {o.n}
    /\ DropEntry(o)
    /\ ops' = ops \ {o}
    /\ UNCHANGED <<status, seed, built, frozen, told, events>>

-----------------------------------------------------------------------------
(* What ends or suspends the conversation.                                 *)

\* markInterruptedWithDetails: the relay, a closed stream or a refused key interrupts an
\* active session.
MarkInterrupted ==
    /\ status = "active" /\ Event
    /\ status' = "interrupted"
    /\ StartRetire("interrupt")
    /\ UNCHANGED <<seed, frozen, told>>

\* Stopping the agent takes every active session down.
SetOffline ==
    /\ status = "active" /\ Event
    /\ StartDestroy("interrupted")
    /\ UNCHANGED <<status, seed, frozen, told>>

\* freezeSession: a frame that fails to verify.
Freeze ==
    /\ node # 0 /\ Event
    /\ frozen' = TRUE
    /\ StartDestroy("interrupted")
    /\ UNCHANGED <<status, seed, told>>

\* retireOnCounterpartyAbandon: the first notice to an open session.
CounterpartyAbandon ==
    /\ status \in {"active", "interrupted"} /\ ~told /\ Event
    /\ told' = TRUE
    /\ StartRetire("retire")
    /\ UNCHANGED <<status, seed, frozen>>

\* abandonSession: the status at once, then the node is retired.
AbandonSession(left) ==
    /\ WriteStatus("abandoned")
    /\ ops' = IF node = 0 THEN left ELSE left \cup {Begin("retire", node)}
    /\ UNCHANGED <<node, running, built, displaced>>

Expired(o) ==
    /\ o.at = "expire"
    /\ AbandonSession(ops \ {o})
    /\ UNCHANGED <<frozen, told, events>>

-----------------------------------------------------------------------------
(* Revival.                                                                *)

\* reviveSessionNode, on a send or a read: every check, then the node is built.  Nothing
\* keeps a second revival out meanwhile.
Revive ==
    /\ status \in {"active", "interrupted"}
    /\ node = 0 /\ ~frozen /\ seed /\ built < MaxNodes
    /\ built' = built + 1
    /\ ops' = ops \cup {Begin("build", built + 1)}
    /\ UNCHANGED <<status, seed, node, running, displaced, frozen, told, events>>

\* The node is up and entered, over any entry there is; or it could not be built.
ReviveBuilt(o) ==
    /\ o.at = "build"
    /\ \/ /\ node' = o.n /\ running' = running \cup {o.n}
          /\ ops' = (ops \ {o}) \cup {Begin("wire", o.n)}
          /\ displaced' = (displaced \/ node # 0)
       \/ ops' = ops \ {o} /\ UNCHANGED <<node, running, displaced>>
    /\ UNCHANGED <<status, seed, built, frozen, told, events>>

\* The handlers and the relay are connected: the row is active again, without another
\* look at it.  When the row cannot be written the node is taken down.
Revived(o) ==
    /\ o.at = "wire"
    /\ ops' = ops \ {o}
    /\ \/ WriteStatus("active") /\ UNCHANGED <<node, running, displaced>>
       \/ DropEntry(o) /\ running' = running \ {o.n} /\ UNCHANGED <<status, seed>>
    /\ UNCHANGED <<built, frozen, told, events>>

-----------------------------------------------------------------------------
\* The daemon stops or dies and starts: shutdown or boot turns active rows to interrupted.
\* Then closeExpiredUnrevivableSessions lists those that were interrupted too long ago, and
\* abandons one after the other without another look at the row.
LifecycleRestart ==
    /\ Event
    /\ status' = IF status = "active" THEN "interrupted" ELSE status
    /\ ops' \in {{}, IF status = "interrupted" THEN {Begin("expire", 0)} ELSE {}}
    /\ seed' = FALSE /\ node' = 0 /\ running' = {} /\ frozen' = FALSE
    /\ UNCHANGED <<built, told, displaced>>

\* What happens to the session, and what its operations come to.
Happening ==
    MarkInterrupted \/ SetOffline \/ Freeze \/ CounterpartyAbandon \/ Revive

Finish(o) ==
    Destroyed(o) \/ Released(o) \/ Retired(o) \/ Expired(o) \/ ReviveBuilt(o) \/ Revived(o)

\* evictSessionCaches: these two drop what memory has of the session, an interruption not.
Evicts(o) == o.at \in {"release", "retire"}

=============================================================================
