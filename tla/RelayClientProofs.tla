------------------------- MODULE RelayClientProofs -------------------------
(***************************************************************************)
(* Proofs about RelayClient for any sessions, leaves, streams and faults.  *)
(*                                                                         *)
(* An acknowledgement carries the relay's signature over its leaf, so that *)
(* what resolves ok is ordered whatever settled it (Attested).  All the    *)
(* rest rests on the matching by order: until the reader of a replaced     *)
(* stream interferes there is one frame at most on the current stream, in  *)
(* one direction, and the pending work waits for it (Matched).  Then what  *)
(* is remembered is true (Told), every session that was ever spoken in is  *)
(* remembered as recorded (Spoke), and a submit that may still present its *)
(* session again has not been heard of by the relay (Unheard).             *)
(***************************************************************************)
EXTENDS RelayClient, TLAPS

-----------------------------------------------------------------------------
(* The invariant.                                                          *)

\* The frames of a queue.
In(q) == {q[i] : i \in 1..Len(q)}

Kinds(f) == f.kind \in {"assignment_ok", "assignment_invalid"}

\* Why a wait for an assignment and one for an acknowledgement may be over.
RecWhy == {"pending", "recorded", "refused", "closed"}
AckWhy == {"pending", "ok", "relay_ack_unverified", "session_not_found", "rate_limited",
           "relay_stream_closed", "relay_client_closed"}

\* The work of the chain: all but the current one waits for its turn.
WorkOK ==
    \A i \in 1..Len(chain) :
        /\ chain[i].s \in registered
        /\ chain[i].l # NoLeaf => SessionOf[chain[i].l] = chain[i].s
        /\ i # 1 => chain[i].phase = "queued"

\* The current work, by its phase.
CurOK ==
    chain # << >> =>
        /\ Cur.phase \in {"connect", "send", "sign", "ackWait", "throttle"} => Cur.l # NoLeaf
        /\ At("recWait") => Cur.why \in RecWhy /\ Cur.s \notin recorded
        /\ At("ackWait") => Cur.why \in AckWhy
        /\ Cur.phase \in {"send", "sign", "ackWait"} => Cur.s \in recorded
        /\ At("sign") => Cur.on \in 1..opened

\* Frames are well formed, and on streams that were opened.
FramesOK ==
    /\ stream <= opened
    /\ \A r \in 1..MaxStreams : r > opened => up[r] = << >> /\ down[r] = << >>
    /\ \A r \in 1..MaxStreams : \A f \in In(up[r]) :
          f.kind = "submit" => f.l \in Leaf /\ SessionOf[f.l] = f.s

Base == TypeOK /\ WorkOK /\ CurOK /\ FramesOK

\* What the relay says is so when it says it, and its log only grows.
Attested ==
    /\ OkIsOrdered
    /\ At("ackWait") /\ Cur.why = "ok" => Cur.n \in 1..Len(log) /\ log[Cur.n] = Cur.l
    /\ \A r \in 1..MaxStreams : \A f \in In(down[r]) :
          /\ f.kind = "ack" => f.n \in 1..Len(log) /\ log[f.n] = f.l
          /\ f.kind = "assignment_ok" => f.s \in known \cup gone
          /\ f.kind = "assignment_invalid" => f.s \in refused

\* A frame of the current stream is the only one, and what the pending work waits for.
Matched ==
    /\ stream # 0 =>
          /\ up[stream] = << >> \/ (Len(up[stream]) = 1 /\ down[stream] = << >>)
          /\ Len(down[stream]) <= 1
          /\ \A f \in In(up[stream]) :
                /\ Pending /\ f.s = Cur.s
                /\ f.kind = "record" => At("recWait")
                /\ f.kind = "submit" => At("ackWait") /\ f.l = Cur.l
          /\ \A f \in In(down[stream]) :
                /\ Pending /\ f.s = Cur.s
                /\ Kinds(f) => At("recWait")
                /\ ~Kinds(f) => At("ackWait") /\ f.l = Cur.l
    /\ At("sign") => Cur.on = stream \/ Cur.on \in shut

\* The client remembers of a session what the relay said of it.
Told ==
    /\ recorded \subseteq known \cup gone
    /\ rejected \subseteq refused
    /\ \A l \in Leaf : result[l].why = "relay_session_gone" => SessionOf[l] \in gone
    /\ At("recWait") /\ Cur.why = "recorded" => Cur.s \in known \cup gone
    /\ At("recWait") /\ Cur.why = "refused" => Cur.s \in refused
    /\ At("ackWait") /\ Cur.why = "session_not_found" => Cur.s \in gone
    /\ stream # 0 => \A f \in In(down[stream]) : f.kind = "session_not_found" => f.s \in gone

\* A leaf of the session is in the relay's log, or on its way there.
Heard(s)   == \E i \in 1..Len(log) : SessionOf[log[i]] = s
Says(s, f) == f.kind = "submit" /\ f.s = s
Comes(s)   == \E r \in 1..MaxStreams : \E f \in In(up[r]) : Says(s, f)

\* Sessions that were spoken in are recorded ones.
Spoke == \A s \in Session : Heard(s) \/ Comes(s) => s \in recorded

\* The current submit may yet present its session again.
Fresh == chain # << >> /\ Cur.l # NoLeaf /\ ~At("queued") /\ ~Cur.before /\ Cur.throttles = 0

NotFound ==
    \/ Cur.why = "session_not_found"
    \/ stream # 0 /\ \E f \in In(down[stream]) : f.kind = "session_not_found"

\* Then nothing of the session has come to the relay but, at most, the one leaf that is
\* pending; and that neither if the relay does not find the session.
Unheard ==
    Fresh =>
        /\ ~At("ackWait") \/ NotFound => ~Heard(Cur.s) /\ ~Comes(Cur.s)
        /\ Heard(Cur.s) => ~Comes(Cur.s)
        /\ \A r, q \in 1..MaxStreams : \A i \in 1..Len(up[r]), j \in 1..Len(up[q]) :
              Says(Cur.s, up[r][i]) /\ Says(Cur.s, up[q][j]) => r = q /\ i = j

GoneHeard == \A s \in gone : Heard(s)

Inv ==
    /\ Base /\ Attested /\ GoneHeard
    /\ ghost => crossed
    /\ ~crossed => Matched /\ Told /\ Spoke /\ Unheard

-----------------------------------------------------------------------------
(* Queues and the chain.                                                   *)

LEMMA Limits == MaxTries \in Nat /\ MaxThrottles \in Nat /\ MaxStreams \in Nat /\ MaxFaults \in Nat
  BY LimitsAssumption

LEMMA EmptySeq ==
    ASSUME NEW S, NEW q \in Seq(S), Len(q) = 0
    PROVE  q = << >>
  OBVIOUS

LEMMA InEmpty == In(<< >>) = {}
  BY DEF In

LEMMA InAppend ==
    ASSUME NEW S, NEW q \in Seq(S), NEW e \in S
    PROVE  /\ Append(q, e) \in Seq(S) /\ Len(Append(q, e)) = Len(q) + 1
           /\ In(Append(q, e)) = In(q) \cup {e}
           /\ \A i \in 1..Len(q) : Append(q, e)[i] = q[i]
           /\ Append(q, e)[Len(q) + 1] = e
  BY DEF In

LEMMA InTail ==
    ASSUME NEW S, NEW q \in Seq(S), q # << >>
    PROVE  /\ Tail(q) \in Seq(S) /\ Len(Tail(q)) = Len(q) - 1
           /\ Head(q) = q[1] /\ Head(q) \in S
           /\ \A i \in 1..Len(Tail(q)) : Tail(q)[i] = q[i + 1]
           /\ In(Tail(q)) \subseteq In(q) /\ Head(q) \in In(q)
           /\ Len(q) = 1 => Tail(q) = << >>
  <1>1. /\ Tail(q) \in Seq(S) /\ Len(Tail(q)) = Len(q) - 1
        /\ Head(q) = q[1] /\ Head(q) \in S /\ 1 \in 1..Len(q)
        /\ \A i \in 1..Len(Tail(q)) : Tail(q)[i] = q[i + 1]
    OBVIOUS
  <1>2. In(Tail(q)) \subseteq In(q)
    <2>1. \A i \in 1..Len(Tail(q)) : i + 1 \in 1..Len(q) /\ Tail(q)[i] = q[i + 1]
      BY <1>1
    <2> QED BY <2>1 DEF In
  <1>3. Head(q) \in In(q)
    BY <1>1 DEF In
  <1>4. Len(q) = 1 => Tail(q) = << >>
    <2>1. Len(q) = 1 => Len(Tail(q)) = 0
      BY <1>1
    <2> QED BY <1>1, <2>1, EmptySeq
  <1> QED BY <1>1, <1>2, <1>3, <1>4

\* Work that moves to another phase, waits out the relay's window once more, or starts
\* anew, its session to be presented again.
MoveTo(c, ph) == [c EXCEPT !.phase = ph]
WaitOut(c)    == [c EXCEPT !.phase = "throttle", !.throttles = @ + 1]
StartAnew(c)  == [NewWork(c.s, c.l) EXCEPT !.phase = "connect", !.tries = c.tries + 1]

LEMMA Moved ==
    ASSUME NEW c \in Work, NEW ph \in Phase
    PROVE  /\ MoveTo(c, ph) \in Work /\ MoveTo(c, ph).phase = ph
           /\ MoveTo(c, ph).s = c.s /\ MoveTo(c, ph).l = c.l
           /\ MoveTo(c, ph).before = c.before /\ MoveTo(c, ph).throttles = c.throttles
           /\ MoveTo(c, ph).on = c.on /\ MoveTo(c, ph).why = c.why
  BY DEF Work, MoveTo

LEMMA Throttled ==
    ASSUME NEW c \in Work
    PROVE  /\ WaitOut(c) \in Work /\ WaitOut(c).phase = "throttle"
           /\ WaitOut(c).s = c.s /\ WaitOut(c).l = c.l /\ WaitOut(c).throttles # 0
  <1> DEFINE t == c.throttles + 1
  <1>1. t \in Nat /\ t # 0
    BY DEF Work
  <1>2. WaitOut(c) = [c EXCEPT !.phase = "throttle", !.throttles = t]
    BY DEF WaitOut
  <1> HIDE DEF t
  <1> QED BY <1>1, <1>2 DEF Work, Phase

LEMMA Anew ==
    ASSUME NEW c \in Work
    PROVE  /\ StartAnew(c) \in Work /\ StartAnew(c).phase = "connect"
           /\ StartAnew(c).s = c.s /\ StartAnew(c).l = c.l
           /\ ~StartAnew(c).before /\ StartAnew(c).throttles = 0
  <1> DEFINE t == c.tries + 1
  <1>1. t \in Nat
    BY DEF Work
  <1>2. StartAnew(c) = [NewWork(c.s, c.l) EXCEPT !.phase = "connect", !.tries = t]
    BY DEF StartAnew
  <1> HIDE DEF t
  <1>3. c.s \in Session /\ c.l \in Leaf \cup {NoLeaf}
    BY DEF Work
  <1>4. StartAnew(c) = [s |-> c.s, l |-> c.l, phase |-> "connect", before |-> FALSE, tries |-> t,
                        throttles |-> 0, on |-> 0, why |-> "pending", n |-> 0]
    BY <1>2 DEF NewWork
  <1> QED BY <1>1, <1>3, <1>4 DEF Work, Phase

\* The current work is the first of the chain.
LEMMA CurFacts ==
    ASSUME chain \in Seq(Work), chain # << >>
    PROVE  /\ Cur = chain[1] /\ Cur \in Work /\ 1 \in 1..Len(chain)
           /\ Cur.s \in Session /\ Cur.l \in Leaf \cup {NoLeaf} /\ Cur.phase \in Phase
           /\ Cur.before \in BOOLEAN /\ Cur.tries \in Nat /\ Cur.throttles \in Nat
           /\ Cur.on \in Nat /\ Cur.n \in Nat
           /\ Cur.why \in Reasons \cup {"pending", "recorded", "refused", "closed"}
  <1>1. Cur = chain[1] /\ Cur \in Work /\ 1 \in 1..Len(chain)
    BY DEF Cur
  <1> QED BY <1>1 DEF Work

\* The current work goes on as w.
LEMMA TurnFacts ==
    ASSUME chain \in Seq(Work), chain # << >>, NEW w \in Work, Become(w),
           WorkOK, w.s = Cur.s, w.l = Cur.l, registered \subseteq registered'
    PROVE  chain' \in Seq(Work) /\ chain' # << >> /\ Cur' = w /\ WorkOK'
  <1>1. Tail(chain) \in Seq(Work) /\ Len(Tail(chain)) = Len(chain) - 1
        /\ \A i \in 1..Len(Tail(chain)) : Tail(chain)[i] = chain[i + 1]
    BY InTail
  <1>2. chain' = <<w>> \o Tail(chain)
    BY DEF Become
  <1>3. /\ chain' \in Seq(Work) /\ Len(chain') = Len(chain) /\ chain'[1] = w
        /\ \A i \in 1..Len(chain) : i # 1 => chain'[i] = chain[i]
    BY <1>1, <1>2
  <1>4. chain' # << >> /\ Cur' = w
    BY <1>3 DEF Cur
  <1>5. Cur = chain[1] /\ 1 \in 1..Len(chain)
    BY CurFacts
  <1>6. WorkOK'
    <2> SUFFICES ASSUME NEW i \in 1..Len(chain)
                 PROVE  /\ chain'[i].s \in registered'
                        /\ chain'[i].l # NoLeaf => SessionOf[chain'[i].l] = chain'[i].s
                        /\ i # 1 => chain'[i].phase = "queued"
      BY <1>3 DEF WorkOK
    <2>1. CASE i = 1
      BY <1>3, <1>5, <2>1 DEF WorkOK
    <2>2. CASE i # 1
      BY <1>3, <2>2 DEF WorkOK
    <2> QED BY <2>1, <2>2
  <1> QED BY <1>3, <1>4, <1>6

\* The current work leaves the chain.
LEMMA DropFacts ==
    ASSUME chain \in Seq(Work), chain # << >>, chain' = Tail(chain),
           WorkOK, UNCHANGED registered
    PROVE  chain' \in Seq(Work) /\ WorkOK' /\ (chain' # << >> => Cur'.phase = "queued")
  <1>1. /\ Tail(chain) \in Seq(Work) /\ Len(Tail(chain)) = Len(chain) - 1
        /\ \A i \in 1..Len(Tail(chain)) : Tail(chain)[i] = chain[i + 1]
    BY InTail
  <1>2. WorkOK'
    <2> SUFFICES ASSUME NEW i \in 1..Len(chain')
                 PROVE  /\ chain'[i].s \in registered
                        /\ chain'[i].l # NoLeaf => SessionOf[chain'[i].l] = chain'[i].s
                        /\ i # 1 => chain'[i].phase = "queued"
      BY DEF WorkOK
    <2>1. i + 1 \in 1..Len(chain) /\ i + 1 # 1 /\ chain'[i] = chain[i + 1]
      BY <1>1
    <2> QED BY <2>1 DEF WorkOK
  <1>3. ASSUME chain' # << >> PROVE Cur'.phase = "queued"
    <2>1. Cur' = chain'[1] /\ 1 \in 1..Len(chain')
      BY <1>1, <1>3 DEF Cur
    <2>2. 2 \in 1..Len(chain) /\ chain'[1] = chain[2]
      BY <1>1, <2>1
    <2> QED BY <2>1, <2>2 DEF WorkOK
  <1> QED BY <1>1, <1>2, <1>3

-----------------------------------------------------------------------------
(* An attempt ends.                                                        *)

\* What a step of the client leaves to the relay and the network.
Outside == <<up, down, relayVars, crossed, ghost>>

\* The stream is dropped, or left alone by work that waits for nothing.
Quits ==
    /\ \/ stream' = 0
       \/ stream' = stream /\ ~Pending
    /\ registered' = registered /\ opened' = opened
    /\ UNCHANGED Outside

\* The typed variables a step of the chain does not concern.
Rest ==
    /\ shut' \subseteq 1..opened /\ readers' \subseteq 1..opened
    /\ timedOut' \subseteq registered /\ rejected' \subseteq registered
    /\ closed' \in BOOLEAN /\ faults' \in 0..MaxFaults
    /\ ~crossed => rejected' \subseteq refused

\* The base of the invariant, once the chain is taken care of.
LEMMA BaseStays ==
    ASSUME Base, chain' \in Seq(Work), WorkOK', Quits, Rest,
           recorded' \subseteq registered,
           result' \in [Leaf -> [why : Reasons \cup {"new", "queued"}, n : Nat]],
           CurOK'
    PROVE  Base'
  <1>1. TypeOK /\ FramesOK
    BY DEF Base
  <1>2. stream' \in 0..MaxStreams /\ stream' <= opened
    BY <1>1, Limits DEF TypeOK, FramesOK, Quits
  <1>3. TypeOK'
    BY <1>1, <1>2 DEF TypeOK, Quits, Rest, Outside, relayVars
  <1>4. FramesOK'
    BY <1>1, <1>2 DEF FramesOK, Quits, Outside, relayVars
  <1> QED BY <1>3, <1>4 DEF Base

\* The chain has nothing that waits.
Calm == ~At("ackWait") /\ ~At("recWait")

\* What is attested stays so when nothing waits any more.
LEMMA AttestedStays ==
    ASSUME Attested, GoneHeard, OkIsOrdered', Quits, ~At("ackWait")'
    PROVE  Attested' /\ GoneHeard'
  BY DEF Attested, GoneHeard, Heard, Quits, Outside, relayVars

\* Work that quits leaves the current stream without frames.
LEMMA MatchedStays ==
    ASSUME Base, Matched, Quits, (At("sign") => Cur.on = stream)'
    PROVE  Matched'
  <1>1. CASE stream' = 0
    BY <1>1 DEF Matched
  <1>2. CASE stream' = stream /\ ~Pending /\ stream # 0
    <2>1. stream \in 1..MaxStreams
      BY <1>2 DEF Base, TypeOK
    <2>2. In(up[stream]) = {} /\ In(down[stream]) = {}
      BY <1>2 DEF Matched
    <2>3. up' = up /\ down' = down
      BY DEF Quits, Outside
    <2> QED BY <1>2, <2>2, <2>3 DEF Matched
  <1> QED BY <1>1, <1>2 DEF Quits

\* Nor is anything forgotten or made up.
LEMMA ToldStays ==
    ASSUME Told, Quits, Rest, ~crossed, Calm',
           recorded' \subseteq known \cup gone,
           \A l \in Leaf : result'[l].why = "relay_session_gone" => SessionOf[l] \in gone
    PROVE  Told'
  BY DEF Told, Calm, Quits, Rest, Outside, relayVars

LEMMA SpokeStays ==
    ASSUME Spoke, Quits,
           \A s \in Session : s \in recorded /\ s \notin recorded' => ~Heard(s) /\ ~Comes(s)
    PROVE  Spoke'
  BY DEF Spoke, Quits, Outside, relayVars, Heard, Comes

\* A submit that is about to present its session has not been heard of.
LEMMA UnheardStays ==
    ASSUME ~At("ackWait")', Fresh' => (~Heard(Cur.s) /\ ~Comes(Cur.s))'
    PROVE  Unheard'
  <1> SUFFICES ASSUME Fresh'
               PROVE  Unheard'
    BY DEF Unheard
  <1>1. (~Heard(Cur.s) /\ ~Comes(Cur.s))'
    OBVIOUS
  <1>2. \A r, q \in 1..MaxStreams : \A i \in 1..Len(up'[r]), j \in 1..Len(up'[q]) :
            ~(Says(Cur.s, up[r][i]))'
    BY <1>1 DEF Comes, In
  <1> QED BY <1>1, <1>2 DEF Unheard

\* An attempt that ends with why, and what it may claim.
Ends(why, n) ==
    /\ why \in Reasons \ {"relay_session_gone"} /\ n \in Nat
    /\ why = "ok" => n \in 1..Len(log) /\ log[n] = Cur.l
    /\ why = "session_not_found" => At("ackWait") /\ Cur.why = "session_not_found"
    /\ why = "session_not_recorded" /\ ~closed => Cur.s \notin recorded

\* Its session is presented again only if the relay has not heard of it.
LEMMA RepresentUnheard ==
    ASSUME Inv, ~crossed, chain # << >>, Cur.l # NoLeaf, ~At("queued"),
           NEW why, NEW n, Ends(why, n), MayRepresent(why)
    PROVE  ~Heard(Cur.s) /\ ~Comes(Cur.s)
  <1>1. Cur.s \in Session /\ chain \in Seq(Work)
    BY CurFacts DEF Inv, Base, TypeOK
  <1>2. CASE why = "session_not_found"
    <2>1. Cur.s \in gone /\ Heard(Cur.s)
      BY <1>2 DEF Inv, Ends, Told, GoneHeard
    <2>2. Fresh /\ NotFound
      BY <1>2 DEF Fresh, NotFound, Ends, MayRepresent
    <2> QED BY <2>1, <2>2 DEF Inv, Unheard
  <1>3. CASE why = "session_not_recorded"
    BY <1>1, <1>3 DEF Inv, Ends, MayRepresent, Spoke
  <1> QED BY <1>2, <1>3 DEF MayRepresent

\* The chain, the results and the flags after it.
LEMMA ConcludeFacts ==
    ASSUME Base, OkIsOrdered, chain # << >>, ~At("queued"), UNCHANGED <<registered, log>>,
           NEW why, NEW n, Ends(why, n), Conclude(why, n, recorded)
    PROVE  /\ chain' \in Seq(Work) /\ WorkOK' /\ CurOK' /\ Calm' /\ ~At("sign")'
           /\ recorded' \subseteq recorded
           /\ result' \in [Leaf -> [why : Reasons \cup {"new", "queued"}, n : Nat]]
           /\ OkIsOrdered'
           /\ \A l \in Leaf : result'[l].why = "relay_session_gone" =>
                 \/ result[l].why = "relay_session_gone"
                 \/ l = Cur.l /\ why = "session_not_found"
           /\ \/ Fresh' /\ MayRepresent(why) /\ Cur.l # NoLeaf /\ Cur'.s = Cur.s
                 /\ recorded' = recorded \ {Cur.s}
              \/ ~Fresh' /\ recorded' = recorded
  <1>1. chain \in Seq(Work) /\ WorkOK /\ CurOK
    BY DEF Base, TypeOK
  <1>2. /\ Cur \in Work /\ Cur.tries \in Nat /\ Cur.throttles \in Nat
        /\ Cur.s \in Session /\ Cur.l \in Leaf \cup {NoLeaf}
    BY <1>1, CurFacts
  <1>3. result \in [Leaf -> [why : Reasons \cup {"new", "queued"}, n : Nat]]
    BY DEF Base, TypeOK
  <1>4. ASSUME chain' = Tail(chain)
        PROVE  chain' \in Seq(Work) /\ WorkOK' /\ CurOK' /\ Calm' /\ ~At("sign")' /\ ~Fresh'
    <2>1. chain' \in Seq(Work) /\ WorkOK' /\ (chain' # << >> => Cur'.phase = "queued")
      BY <1>1, <1>4, DropFacts
    <2> QED BY <2>1 DEF CurOK, Calm, At, Fresh
  <1>5. CASE Cur.l = NoLeaf /\ chain' = Tail(chain) /\ recorded' = recorded /\ result' = result
    BY <1>3, <1>4, <1>5 DEF OkIsOrdered
  <1>6. CASE /\ Cur.l # NoLeaf /\ MayRepresent(why)
             /\ Become([NewWork(Cur.s, Cur.l) EXCEPT !.phase = "connect", !.tries = Cur.tries + 1])
             /\ recorded' = recorded \ {Cur.s} /\ result' = result
    <2> DEFINE w == [NewWork(Cur.s, Cur.l) EXCEPT !.phase = "connect", !.tries = Cur.tries + 1]
    <2>1. w \in Work /\ w.s = Cur.s /\ w.l = Cur.l /\ w.phase = "connect" /\ ~w.before
          /\ w.throttles = 0
      <3>1. w = StartAnew(Cur)
        BY DEF StartAnew
      <3> HIDE DEF w
      <3> QED BY <1>2, <3>1, Anew
    <2> HIDE DEF w
    <2>2. chain' \in Seq(Work) /\ chain' # << >> /\ Cur' = w /\ WorkOK'
      BY <1>1, <1>6, <2>1, TurnFacts DEF w
    <2>3. CurOK' /\ Calm' /\ ~At("sign")' /\ Fresh'
      BY <1>6, <2>1, <2>2 DEF CurOK, Calm, At, Fresh
    <2> QED BY <1>3, <1>6, <2>1, <2>2, <2>3 DEF OkIsOrdered
  <1>7. CASE /\ Cur.l # NoLeaf /\ MayWaitOut(why)
             /\ Become([Cur EXCEPT !.phase = "throttle", !.throttles = @ + 1])
             /\ recorded' = recorded /\ result' = result
    <2> DEFINE w == [Cur EXCEPT !.phase = "throttle", !.throttles = @ + 1]
    <2>1. w \in Work /\ w.s = Cur.s /\ w.l = Cur.l /\ w.phase = "throttle" /\ w.throttles # 0
      <3>1. w = WaitOut(Cur)
        BY DEF WaitOut
      <3> HIDE DEF w
      <3> QED BY <1>2, <3>1, Throttled
    <2> HIDE DEF w
    <2>2. chain' \in Seq(Work) /\ chain' # << >> /\ Cur' = w /\ WorkOK'
      BY <1>1, <1>7, <2>1, TurnFacts DEF w
    <2>3. CurOK' /\ Calm' /\ ~At("sign")' /\ ~Fresh'
      BY <1>7, <2>1, <2>2 DEF CurOK, Calm, At, Fresh
    <2> QED BY <1>3, <1>7, <2>2, <2>3 DEF OkIsOrdered
  <1>8. CASE /\ Cur.l # NoLeaf /\ chain' = Tail(chain) /\ recorded' = recorded
             /\ result' = [result EXCEPT ![Cur.l] =
                   [why |-> IF Cur.before /\ why = "session_not_found" THEN "relay_session_gone" ELSE why,
                    n |-> n]]
    <2> DEFINE v == IF Cur.before /\ why = "session_not_found" THEN "relay_session_gone" ELSE why
    <2>1. v \in Reasons /\ (v = "ok" => why = "ok")
          /\ (v = "relay_session_gone" => why = "session_not_found") /\ n \in Nat
      BY DEF Ends, Reasons
    <2>2. result' = [result EXCEPT ![Cur.l] = [why |-> v, n |-> n]]
      BY <1>8
    <2> HIDE DEF v
    <2>3. result' \in [Leaf -> [why : Reasons \cup {"new", "queued"}, n : Nat]]
      BY <1>3, <2>1, <2>2
    <2>4. \A l \in Leaf : \/ result'[l] = result[l]
                          \/ l = Cur.l /\ result'[l].why = v /\ result'[l].n = n
      BY <1>3, <2>2
    <2>5. OkIsOrdered'
      BY <2>1, <2>4 DEF OkIsOrdered, Ends
    <2> QED BY <1>4, <1>8, <2>1, <2>3, <2>4, <2>5
  <1> QED BY <1>5, <1>6, <1>7, <1>8 DEF Conclude

\* The client goes on without waiting for the relay.
LEMMA ProgressOK ==
    ASSUME Inv, Quits, Rest,
           chain' \in Seq(Work), WorkOK', CurOK', Calm', (At("sign") => Cur.on = stream)',
           result' \in [Leaf -> [why : Reasons \cup {"new", "queued"}, n : Nat]], OkIsOrdered',
           recorded' \subseteq registered,
           ~crossed =>
              /\ recorded' \subseteq known \cup gone
              /\ \A l \in Leaf : result'[l].why = "relay_session_gone" => SessionOf[l] \in gone
              /\ \A s \in Session : s \in recorded /\ s \notin recorded' => ~Heard(s) /\ ~Comes(s)
              /\ Fresh' => ~Heard(Cur'.s) /\ ~Comes(Cur'.s)
    PROVE  Inv'
  <1>1. Base /\ Attested /\ GoneHeard
    BY DEF Inv
  <1>2. UNCHANGED <<log, up, crossed, ghost>>
    BY DEF Quits, Outside, relayVars
  <1>3. Base'
    BY <1>1, BaseStays
  <1>4. Attested' /\ GoneHeard'
    BY <1>1, AttestedStays DEF Calm
  <1>5. ASSUME ~crossed PROVE Matched' /\ Told' /\ Spoke' /\ Unheard'
    <2>1. Matched /\ Told /\ Spoke
      BY <1>5 DEF Inv
    <2>2. Matched'
      BY <1>1, <2>1, MatchedStays
    <2>3. Told'
      BY <1>5, <2>1, ToldStays
    <2>4. Spoke'
      BY <1>5, <2>1, SpokeStays
    <2>5. Fresh' => (~Heard(Cur.s) /\ ~Comes(Cur.s))'
      BY <1>2, <1>5 DEF Heard, Comes
    <2>6. Unheard'
      BY <2>5, UnheardStays DEF Calm
    <2> QED BY <2>2, <2>3, <2>4, <2>6
  <1> QED BY <1>2, <1>3, <1>4, <1>5 DEF Inv

\* An attempt that ends leaves the invariant.
LEMMA ConcludeOK ==
    ASSUME Inv, chain # << >>, ~At("queued"), Quits, Rest,
           NEW why, NEW n, Ends(why, n), Conclude(why, n, recorded)
    PROVE  Inv'
  <1>1. Base /\ OkIsOrdered
    BY DEF Inv, Attested
  <1>2. UNCHANGED <<registered, log>>
    BY DEF Quits, Outside, relayVars
  <1>3. /\ chain' \in Seq(Work) /\ WorkOK' /\ CurOK' /\ Calm' /\ ~At("sign")'
        /\ recorded' \subseteq recorded
        /\ result' \in [Leaf -> [why : Reasons \cup {"new", "queued"}, n : Nat]]
        /\ OkIsOrdered'
        /\ \A l \in Leaf : result'[l].why = "relay_session_gone" =>
              \/ result[l].why = "relay_session_gone"
              \/ l = Cur.l /\ why = "session_not_found"
        /\ \/ Fresh' /\ MayRepresent(why) /\ Cur.l # NoLeaf /\ Cur'.s = Cur.s
              /\ recorded' = recorded \ {Cur.s}
           \/ ~Fresh' /\ recorded' = recorded
    BY <1>1, <1>2, ConcludeFacts
  <1>4. recorded' \subseteq registered
    BY <1>1, <1>3 DEF Base, TypeOK
  <1>5. ASSUME ~crossed
        PROVE  /\ recorded' \subseteq known \cup gone
               /\ \A l \in Leaf : result'[l].why = "relay_session_gone" => SessionOf[l] \in gone
               /\ \A s \in Session : s \in recorded /\ s \notin recorded' => ~Heard(s) /\ ~Comes(s)
               /\ Fresh' => ~Heard(Cur'.s) /\ ~Comes(Cur'.s)
    <2>1. Told
      BY <1>5 DEF Inv
    <2>2. \A l \in Leaf : result'[l].why = "relay_session_gone" => SessionOf[l] \in gone
      <3> SUFFICES ASSUME NEW l \in Leaf, result'[l].why = "relay_session_gone"
                   PROVE  SessionOf[l] \in gone
        OBVIOUS
      <3>1. CASE result[l].why = "relay_session_gone"
        BY <2>1, <3>1 DEF Told
      <3>2. CASE l = Cur.l /\ why = "session_not_found"
        <4>1. Cur.s \in gone
          BY <2>1, <3>2 DEF Told, Ends
        <4>2. Cur = chain[1] /\ 1 \in 1..Len(chain) /\ l # NoLeaf
          BY <1>1, CurFacts, SessionOfAssumption DEF Base, TypeOK
        <4>3. SessionOf[l] = Cur.s
          BY <1>1, <3>2, <4>2 DEF Base, WorkOK
        <4> QED BY <4>1, <4>3
      <3> QED BY <1>3, <3>1, <3>2
    <2>3. \/ Fresh' /\ Cur'.s = Cur.s /\ recorded' = recorded \ {Cur.s}
             /\ ~Heard(Cur.s) /\ ~Comes(Cur.s)
          \/ ~Fresh' /\ recorded' = recorded
      BY <1>3, <1>5, RepresentUnheard
    <2> QED BY <1>3, <2>1, <2>2, <2>3 DEF Told
  <1> QED BY <1>3, <1>4, <1>5, ProgressOK

-----------------------------------------------------------------------------
(* The client's own steps.                                                 *)

\* What the steps of the chain need of the invariant.
LEMMA ClientFacts ==
    ASSUME Inv
    PROVE  /\ chain \in Seq(Work) /\ WorkOK /\ CurOK /\ OkIsOrdered
           /\ result \in [Leaf -> [why : Reasons \cup {"new", "queued"}, n : Nat]]
           /\ stream \in 0..opened /\ opened \in 0..MaxStreams
           /\ shut \subseteq 1..opened /\ readers \subseteq 1..opened
           /\ recorded \subseteq registered /\ registered \subseteq Session
           /\ timedOut \subseteq registered /\ rejected \subseteq registered
           /\ closed \in BOOLEAN /\ faults \in 0..MaxFaults
           /\ ~crossed => /\ rejected \subseteq refused /\ recorded \subseteq known \cup gone
                          /\ \A l \in Leaf : result[l].why = "relay_session_gone" => SessionOf[l] \in gone
  <1>1. Base /\ Attested
    BY DEF Inv
  <1>2. stream \in 0..opened
    BY <1>1, Limits DEF Base, TypeOK, FramesOK
  <1> QED BY <1>1, <1>2 DEF Inv, Base, TypeOK, Attested, Told

\* The current work, registered as all of it.
LEMMA CurRegistered ==
    ASSUME Inv, chain # << >>
    PROVE  /\ Cur \in Work /\ Cur.s \in registered /\ Cur.s \in Session
           /\ Cur.l # NoLeaf => Cur.l \in Leaf /\ SessionOf[Cur.l] = Cur.s
  <1>1. chain \in Seq(Work) /\ WorkOK
    BY ClientFacts
  <1>2. Cur = chain[1] /\ 1 \in 1..Len(chain) /\ Cur \in Work
        /\ Cur.s \in Session /\ Cur.l \in Leaf \cup {NoLeaf}
    BY <1>1, CurFacts
  <1> QED BY <1>1, <1>2 DEF WorkOK

\* The current work goes on as w.
LEMMA MoveOK ==
    ASSUME Inv, chain # << >>, Quits, stream' = stream, Rest, UNCHANGED result,
           NEW w \in Work, Become(w), w.s = Cur.s, w.l = Cur.l,
           w.phase \notin {"recWait", "ackWait"},
           w.phase \in {"connect", "send", "sign", "throttle"} => w.l # NoLeaf,
           w.phase \in {"send", "sign"} => w.s \in recorded',
           w.phase = "sign" => w.on = stream /\ stream # 0,
           recorded' \subseteq registered, recorded \subseteq recorded',
           ~crossed => /\ recorded' \subseteq known \cup gone
                       /\ w.l # NoLeaf /\ ~w.before /\ w.throttles = 0 =>
                             ~Heard(Cur.s) /\ ~Comes(Cur.s)
    PROVE  Inv'
  <1>1. registered' = registered /\ opened' = opened
    BY DEF Quits
  <1>2. chain' \in Seq(Work) /\ chain' # << >> /\ Cur' = w /\ WorkOK'
    BY <1>1, ClientFacts, TurnFacts
  <1>3. CurOK' /\ Calm' /\ (At("sign") => Cur.on = stream)'
    BY <1>1, <1>2, ClientFacts, Limits DEF CurOK, Calm, At
  <1>4. Fresh' => w.l # NoLeaf /\ ~w.before /\ w.throttles = 0
    BY <1>2 DEF Fresh
  <1>5. OkIsOrdered'
    BY ClientFacts DEF OkIsOrdered, Quits, Outside, relayVars
  <1> QED BY <1>2, <1>3, <1>4, <1>5, ClientFacts, ProgressOK

\* The current work is done.
LEMMA LeaveOK ==
    ASSUME Inv, chain # << >>, Quits, Rest, chain' = Tail(chain),
           result' \in [Leaf -> [why : Reasons \cup {"new", "queued"}, n : Nat]],
           \A l \in Leaf : result'[l] = result[l] \/ result'[l].why = "rate_limited",
           recorded' \subseteq registered, recorded \subseteq recorded',
           ~crossed => recorded' \subseteq known \cup gone
    PROVE  Inv'
  <1>1. registered' = registered /\ log' = log
    BY DEF Quits, Outside, relayVars
  <1>2. chain' \in Seq(Work) /\ WorkOK' /\ (chain' # << >> => Cur'.phase = "queued")
    BY <1>1, ClientFacts, DropFacts
  <1>3. CurOK' /\ Calm' /\ ~At("sign")' /\ ~Fresh'
    BY <1>2 DEF CurOK, Calm, At, Fresh
  <1>4. OkIsOrdered'
    BY <1>1, ClientFacts DEF OkIsOrdered
  <1>5. ~crossed =>
           \A l \in Leaf : result'[l].why = "relay_session_gone" => SessionOf[l] \in gone
    BY ClientFacts
  <1> QED BY <1>2, <1>3, <1>4, <1>5, ProgressOK

\* Nothing the client's other variables do here.
LEMMA RestSame ==
    ASSUME Inv, UNCHANGED <<shut, readers, timedOut, rejected, closed, faults>>
    PROVE  Rest
  BY ClientFacts DEF Rest

\* A submit that is still fresh while nothing of it is pending.
LEMMA FreshUnheard ==
    ASSUME Inv, ~crossed, chain # << >>, ~At("queued"), ~At("ackWait"),
           Cur.l # NoLeaf, ~Cur.before, Cur.throttles = 0
    PROVE  ~Heard(Cur.s) /\ ~Comes(Cur.s)
  BY DEF Inv, Unheard, Fresh

LEMMA BeginOK == ASSUME Inv, Begin PROVE Inv'
  <1> DEFINE ph == IF Cur.l = NoLeaf THEN "record" ELSE "connect"
             b == Cur.s \in recorded
             w == [Cur EXCEPT !.phase = ph, !.before = b]
  <1>1. chain # << >> /\ At("queued") /\ Cur \in Work /\ Cur.s \in Session
    BY CurRegistered DEF Begin, At
  <1>2. Become(w)
    BY DEF Begin
  <1>3. ph \in Phase /\ b \in BOOLEAN
    BY DEF Phase
  <1>4. ph \in {"record", "connect"} /\ (ph = "connect" => Cur.l # NoLeaf)
    OBVIOUS
  <1> HIDE DEF ph, b
  <1>5. w \in Work /\ w.s = Cur.s /\ w.l = Cur.l /\ w.phase = ph /\ (w.before <=> b)
    BY <1>1, <1>3 DEF Work
  <1>6. ~crossed /\ ~b => ~Heard(Cur.s) /\ ~Comes(Cur.s)
    BY <1>1 DEF Inv, Spoke, b
  <1> HIDE DEF w
  <1>7. Quits /\ Rest /\ UNCHANGED <<result, recorded, stream>>
    BY <1>1, RestSame DEF Begin, clientVars, Quits, Outside, Pending, At
  <1> QED BY <1>1, <1>2, <1>4, <1>5, <1>6, <1>7, ClientFacts, MoveOK

LEMMA ThrottleOverOK == ASSUME Inv, ThrottleOver PROVE Inv'
  <1>1. chain # << >> /\ At("throttle") /\ Cur \in Work
    BY CurRegistered DEF ThrottleOver, At
  <1>2. Quits /\ Rest /\ UNCHANGED <<recorded, stream>>
    BY <1>1, RestSame DEF ThrottleOver, Quits, Outside, Pending, At
  <1>3. CASE closed
    <2>1. chain' = Tail(chain) /\ result' = [result EXCEPT ![Cur.l].why = "rate_limited"]
      BY <1>3 DEF ThrottleOver
    <2>2. result' \in [Leaf -> [why : Reasons \cup {"new", "queued"}, n : Nat]]
      BY <2>1, ClientFacts DEF Reasons
    <2>3. \A l \in Leaf : result'[l] = result[l] \/ result'[l].why = "rate_limited"
      BY <2>1, ClientFacts
    <2> QED BY <1>1, <1>2, <2>1, <2>2, <2>3, ClientFacts, LeaveOK
  <1>4. CASE ~closed
    <2> DEFINE w == MoveTo(Cur, "connect")
    <2>1. Become(w) /\ result' = result
      BY <1>4 DEF ThrottleOver, Go, MoveTo
    <2>2. w \in Work /\ w.phase = "connect" /\ w.s = Cur.s /\ w.l = Cur.l
          /\ w.before = Cur.before /\ w.throttles = Cur.throttles
      BY <1>1, Moved DEF Phase
    <2>3. Cur.l # NoLeaf
      BY <1>1, ClientFacts DEF CurOK, At
    <2>4. ~crossed /\ ~Cur.before /\ Cur.throttles = 0 => ~Heard(Cur.s) /\ ~Comes(Cur.s)
      BY <1>1, <2>3, FreshUnheard DEF At
    <2> HIDE DEF w
    <2> QED BY <1>1, <1>2, <2>1, <2>2, <2>3, <2>4, ClientFacts, MoveOK
  <1> QED BY <1>3, <1>4

LEMMA ConnectedOK == ASSUME Inv, Connected PROVE Inv'
  <1>1. chain # << >> /\ At("connect") /\ Cur \in Work /\ Cur.l # NoLeaf
    BY CurRegistered, ClientFacts DEF Connected, At, CurOK
  <1>2. Quits /\ Rest /\ UNCHANGED stream
    BY <1>1, RestSame DEF Connected, Quits, Outside, Pending, At
  <1>3. CASE stream # 0 /\ ~closed /\ Go("record") /\ UNCHANGED <<result, recorded>>
    <2> DEFINE w == MoveTo(Cur, "record")
    <2>1. Become(w)
      BY <1>3 DEF Go, MoveTo
    <2>2. w \in Work /\ w.phase = "record" /\ w.s = Cur.s /\ w.l = Cur.l
          /\ w.before = Cur.before /\ w.throttles = Cur.throttles
      BY <1>1, Moved DEF Phase
    <2>3. ~crossed /\ ~Cur.before /\ Cur.throttles = 0 => ~Heard(Cur.s) /\ ~Comes(Cur.s)
      BY <1>1, FreshUnheard DEF At
    <2> HIDE DEF w
    <2> QED BY <1>1, <1>2, <1>3, <2>1, <2>2, <2>3, ClientFacts, MoveOK
  <1>4. ASSUME NEW why \in {"relay_client_closed", "relay_unavailable", "rate_limited"},
               Conclude(why, 0, recorded)
        PROVE  Inv'
    <2>1. Ends(why, 0)
      BY DEF Ends, Reasons
    <2> QED BY <1>1, <1>2, <1>4, <2>1, ConcludeOK DEF At
  <1> QED BY <1>3, <1>4 DEF Connected

\* A record that was not made ends the attempt.
LEMMA UnrecordedOK ==
    ASSUME Inv, chain # << >>, ~At("queued"), Quits, Rest, NEW rej, NEW late,
           Unrecorded(rej, late), ~closed => Cur.s \notin recorded
    PROVE  Inv'
  <1> DEFINE why == IF Cur.s \in rej THEN "relay_assignment_rejected"
                    ELSE IF Cur.s \in late THEN "relay_unavailable" ELSE "session_not_recorded"
  <1>1. Ends(why, 0)
    BY DEF Ends, Reasons
  <1>2. Conclude(why, 0, recorded)
    BY DEF Unrecorded
  <1> HIDE DEF why
  <1> QED BY <1>1, <1>2, ConcludeOK

LEMMA RecordTimeoutOK == ASSUME Inv, RecordTimeout PROVE Inv'
  <1>1. chain # << >> /\ At("recWait") /\ Cur.s \in registered
    BY CurRegistered DEF RecordTimeout, At
  <1>2. Cur.s \notin recorded
    BY <1>1, ClientFacts DEF CurOK
  <1>3. Quits
    BY DEF RecordTimeout, ResetStream, Quits, Outside
  <1>4. Rest
    BY <1>1, ClientFacts DEF RecordTimeout, ResetStream, Rest
  <1> QED BY <1>1, <1>2, <1>3, <1>4, UnrecordedOK DEF RecordTimeout, At

LEMMA RecordAnsweredOK == ASSUME Inv, RecordAnswered PROVE Inv'
  <1>1. chain # << >> /\ At("recWait") /\ Cur.s \in registered /\ Cur \in Work /\ Cur.s \in Session
    BY CurRegistered DEF RecordAnswered, At
  <1>2. Cur.s \notin recorded
    BY <1>1, ClientFacts DEF CurOK
  <1>3. Quits /\ stream' = stream
    BY DEF RecordAnswered, Quits, Outside, Pending
  <1>4. CASE Cur.why = "recorded"
    <2>1. /\ recorded' = recorded \cup {Cur.s} /\ timedOut' = timedOut \ {Cur.s}
          /\ UNCHANGED <<rejected, result, closed, shut, readers, faults>>
      BY <1>4 DEF RecordAnswered
    <2>2. Rest
      BY <2>1, ClientFacts DEF Rest
    <2>3. ~crossed => recorded' \subseteq known \cup gone
      BY <1>1, <1>4, <2>1, ClientFacts DEF Inv, Told
    <2>4. recorded' \subseteq registered /\ recorded \subseteq recorded'
      BY <1>1, <2>1, ClientFacts
    <2>5. CASE Cur.l = NoLeaf
      BY <1>1, <1>3, <1>4, <2>1, <2>2, <2>3, <2>4, <2>5, ClientFacts, LeaveOK DEF RecordAnswered
    <2>6. CASE Cur.l # NoLeaf
      <3> DEFINE w == MoveTo(Cur, "send")
      <3>1. Become(w)
        BY <1>4, <2>6 DEF RecordAnswered, Go, MoveTo
      <3>2. w \in Work /\ w.phase = "send" /\ w.s = Cur.s /\ w.l = Cur.l
            /\ w.before = Cur.before /\ w.throttles = Cur.throttles
        BY <1>1, Moved DEF Phase
      <3>3. ~crossed /\ ~Cur.before /\ Cur.throttles = 0 => ~Heard(Cur.s) /\ ~Comes(Cur.s)
        BY <1>1, <2>6, FreshUnheard DEF At
      <3> HIDE DEF w
      <3> QED BY <1>1, <1>3, <2>1, <2>2, <2>3, <2>4, <2>6, <3>1, <3>2, <3>3, MoveOK
    <2> QED BY <2>5, <2>6
  <1>5. CASE Cur.why = "refused"
    <2>1. /\ rejected' = rejected \cup {Cur.s} /\ Unrecorded(rejected', timedOut)
          /\ UNCHANGED <<timedOut, closed, shut, readers, faults>>
      BY <1>5 DEF RecordAnswered
    <2>2. Rest
      BY <1>1, <1>5, <2>1, ClientFacts DEF Rest, Inv, Told
    <2> QED BY <1>1, <1>2, <1>3, <2>1, <2>2, UnrecordedOK DEF At
  <1>6. CASE Cur.why = "closed"
    <2>1. Unrecorded(rejected, timedOut) /\ UNCHANGED <<rejected, timedOut, closed, shut, readers, faults>>
      BY <1>6 DEF RecordAnswered
    <2>2. Rest
      BY <2>1, RestSame
    <2> QED BY <1>1, <1>2, <1>3, <2>1, <2>2, UnrecordedOK DEF At
  <1> QED BY <1>4, <1>5, <1>6 DEF RecordAnswered

LEMMA CaptureStreamOK == ASSUME Inv, CaptureStream PROVE Inv'
  <1>1. chain # << >> /\ At("send") /\ Cur \in Work /\ Cur.l # NoLeaf /\ Cur.s \in recorded
    BY CurRegistered, ClientFacts DEF CaptureStream, At, CurOK
  <1>2. Quits /\ Rest /\ stream' = stream
    BY <1>1, RestSame DEF CaptureStream, Quits, Outside, Pending, At
  <1>3. CASE stream = 0
    <2>1. Conclude("relay_unavailable", 0, recorded) /\ Ends("relay_unavailable", 0)
      BY <1>3 DEF CaptureStream, Ends, Reasons
    <2> QED BY <1>1, <1>2, <2>1, ConcludeOK DEF At
  <1>4. CASE stream # 0
    <2> DEFINE w == [Cur EXCEPT !.phase = "sign", !.on = stream]
    <2>1. Become(w) /\ UNCHANGED <<recorded, result>>
      BY <1>4 DEF CaptureStream
    <2>2. stream \in Nat /\ "sign" \in Phase
      BY ClientFacts, Limits DEF Phase
    <2>3. w \in Work /\ w.phase = "sign" /\ w.s = Cur.s /\ w.l = Cur.l /\ w.on = stream
          /\ w.before = Cur.before /\ w.throttles = Cur.throttles
      BY <1>1, <2>2 DEF Work
    <2>4. ~crossed /\ ~Cur.before /\ Cur.throttles = 0 => ~Heard(Cur.s) /\ ~Comes(Cur.s)
      BY <1>1, FreshUnheard DEF At
    <2> HIDE DEF w
    <2> QED BY <1>1, <1>2, <1>4, <2>1, <2>3, <2>4, ClientFacts, MoveOK
  <1> QED BY <1>3, <1>4

LEMMA AckTimeoutOK == ASSUME Inv, AckTimeout PROVE Inv'
  <1>1. chain # << >> /\ At("ackWait")
    BY DEF AckTimeout, At
  <1>2. Quits
    BY DEF AckTimeout, ResetStream, Quits, Outside
  <1>3. Rest
    BY ClientFacts DEF AckTimeout, ResetStream, Rest
  <1>4. Conclude("relay_submit_timeout", 0, recorded) /\ Ends("relay_submit_timeout", 0)
    BY DEF AckTimeout, Ends, Reasons
  <1> QED BY <1>1, <1>2, <1>3, <1>4, ConcludeOK DEF At

LEMMA SubmitAnsweredOK == ASSUME Inv, SubmitAnswered PROVE Inv'
  <1>1. chain # << >> /\ At("ackWait") /\ Cur.why # "pending" /\ Cur \in Work
    BY CurRegistered DEF SubmitAnswered, At
  <1>2. Quits /\ Rest
    BY <1>1, RestSame DEF SubmitAnswered, Quits, Outside, Pending
  <1>3. Cur.why \in AckWhy /\ Cur.n \in Nat /\ Cur.s \in recorded
    BY <1>1, ClientFacts DEF CurOK, Work, At
  <1>4. Ends(Cur.why, Cur.n)
    BY <1>1, <1>3 DEF Ends, AckWhy, Reasons, Inv, Attested
  <1> QED BY <1>1, <1>2, <1>4, ConcludeOK DEF SubmitAnswered, At

-----------------------------------------------------------------------------
(* Frames that are sent.                                                   *)

\* The frames of every stream after one has been sent on r.
LEMMA UpAppend ==
    ASSUME Inv, NEW r \in 1..MaxStreams, NEW f \in UpFrame,
           up' = [up EXCEPT ![r] = Append(@, f)]
    PROVE  /\ up' \in [1..MaxStreams -> Seq(UpFrame)]
           /\ In(up'[r]) = In(up[r]) \cup {f} /\ Len(up'[r]) = Len(up[r]) + 1
           /\ up'[r][Len(up[r]) + 1] = f /\ \A i \in 1..Len(up[r]) : up'[r][i] = up[r][i]
           /\ \A q \in 1..MaxStreams : q # r => up'[q] = up[q]
  <1>1. up \in [1..MaxStreams -> Seq(UpFrame)] /\ up[r] \in Seq(UpFrame)
    BY DEF Inv, Base, TypeOK
  <1>2. up'[r] = Append(up[r], f) /\ \A q \in 1..MaxStreams : q # r => up'[q] = up[q]
    BY <1>1
  <1>3. /\ Append(up[r], f) \in Seq(UpFrame) /\ Len(Append(up[r], f)) = Len(up[r]) + 1
        /\ In(Append(up[r], f)) = In(up[r]) \cup {f}
        /\ \A i \in 1..Len(up[r]) : Append(up[r], f)[i] = up[r][i]
        /\ Append(up[r], f)[Len(up[r]) + 1] = f
    BY <1>1, InAppend
  <1> QED BY <1>1, <1>2, <1>3

\* With nothing pending the current stream is empty, both ways.
LEMMA QuietStream ==
    ASSUME Inv, ~crossed, ~Pending, stream # 0
    PROVE  /\ stream \in 1..MaxStreams
           /\ up[stream] = << >> /\ down[stream] = << >>
           /\ In(up[stream]) = {} /\ In(down[stream]) = {}
  <1>1. stream \in 1..MaxStreams
    BY ClientFacts, Limits
  <1>2. up[stream] \in Seq(UpFrame) /\ down[stream] \in Seq(DownFrame)
    BY <1>1 DEF Inv, Base, TypeOK
  <1>3. In(up[stream]) = {} /\ In(down[stream]) = {}
    BY DEF Inv, Matched
  <1>4. ASSUME NEW S, NEW q \in Seq(S), In(q) = {} PROVE q = << >>
    <2>1. Len(q) = 0
      <3>1. Len(q) \in Nat /\ \A i \in 1..Len(q) : q[i] \in In(q)
        BY DEF In
      <3> QED BY <1>4, <3>1
    <2> QED BY <2>1, EmptySeq
  <1> QED BY <1>1, <1>2, <1>3, <1>4

\* The assignment is presented, and its answer awaited.
LEMMA PresentOK ==
    ASSUME Inv, At("record"), chain # << >>, Cur.s \notin recorded \cup rejected, stream # 0,
           Become([Cur EXCEPT !.phase = "recWait", !.why = "pending"]),
           up' = IF stream \in shut THEN up
                 ELSE [up EXCEPT ![stream] =
                         Append(@, [kind |-> "record", s |-> Cur.s, l |-> NoLeaf])],
           ghost' = (ghost \/ Cur.s \in gone),
           UNCHANGED <<recorded, result, stream, readers, registered, rejected, timedOut, closed,
                       opened, shut, down, relayVars, faults, crossed>>
    PROVE  Inv'
  <1> DEFINE w == [Cur EXCEPT !.phase = "recWait", !.why = "pending"]
             f == [kind |-> "record", s |-> Cur.s, l |-> NoLeaf]
  <1>1. Cur \in Work /\ Cur.s \in Session /\ stream \in 1..MaxStreams /\ stream \in 1..opened
    BY CurRegistered, ClientFacts, Limits
  <1>2. w \in Work /\ w.phase = "recWait" /\ w.s = Cur.s /\ w.l = Cur.l /\ w.why = "pending"
        /\ w.before = Cur.before /\ w.throttles = Cur.throttles
    BY <1>1 DEF Work, Phase
  <1>3. f \in UpFrame /\ f.kind = "record" /\ f.s = Cur.s
    BY <1>1 DEF UpFrame
  <1>4. Become(w) /\ (up' = up \/ up' = [up EXCEPT ![stream] = Append(@, f)])
    OBVIOUS
  <1> HIDE DEF w, f
  <1>5. chain' \in Seq(Work) /\ chain' # << >> /\ Cur' = w /\ WorkOK'
    BY <1>2, <1>4, ClientFacts, TurnFacts
  <1>6. CurOK'
    BY <1>2, <1>5 DEF CurOK, At, RecWhy
  <1>7. /\ up' \in [1..MaxStreams -> Seq(UpFrame)]
        /\ \A q \in 1..MaxStreams : q # stream => up'[q] = up[q]
        /\ \A g \in In(up'[stream]) : g \in In(up[stream]) \/ g = f
        /\ up'[stream] = up[stream] \/ (Len(up'[stream]) = Len(up[stream]) + 1)
    <2>1. CASE up' = up
      BY <2>1 DEF Inv, Base, TypeOK
    <2>2. CASE up' = [up EXCEPT ![stream] = Append(@, f)]
      <3>1. /\ up' \in [1..MaxStreams -> Seq(UpFrame)]
            /\ In(up'[stream]) = In(up[stream]) \cup {f} /\ Len(up'[stream]) = Len(up[stream]) + 1
            /\ \A q \in 1..MaxStreams : q # stream => up'[q] = up[q]
        BY <1>1, <1>3, <2>2, UpAppend
      <3> QED BY <3>1
    <2> QED BY <1>4, <2>1, <2>2
  <1>8. Base'
    <2>1. TypeOK'
      BY <1>5, <1>7 DEF Inv, Base, TypeOK, relayVars
    <2>2. FramesOK'
      <3>1. FramesOK
        BY DEF Inv, Base
      <3>2. \A q \in 1..MaxStreams : q > opened => up'[q] = << >>
        <4>1. opened \in Nat /\ MaxStreams \in Nat
          BY ClientFacts, Limits
        <4> QED BY <1>1, <1>7, <3>1, <4>1 DEF FramesOK
      <3>3. \A q \in 1..MaxStreams : \A g \in In(up'[q]) :
               g.kind = "submit" => g.l \in Leaf /\ SessionOf[g.l] = g.s
        BY <1>3, <1>7, <3>1 DEF FramesOK
      <3> QED BY <3>1, <3>2, <3>3 DEF FramesOK
    <2> QED BY <1>5, <1>6, <2>1, <2>2 DEF Base
  <1>9. Attested' /\ GoneHeard'
    BY <1>2, <1>5 DEF Inv, Attested, OkIsOrdered, GoneHeard, Heard, At, relayVars
  <1>10. \A s \in Session : Comes(s)' => Comes(s)
    BY <1>1, <1>3, <1>7 DEF Comes, Says
  <1>11. ASSUME ~crossed
         PROVE  Matched' /\ Told' /\ Spoke' /\ Unheard' /\ ~ghost'
    <2>1. Matched /\ Told /\ Spoke /\ Unheard /\ ~ghost /\ GoneHeard
      BY <1>11 DEF Inv
    <2>2. In(up[stream]) = {} /\ In(down[stream]) = {} /\ up[stream] = << >> /\ down[stream] = << >>
      BY <1>11, QuietStream DEF Pending, At
    <2>3. Matched'
      <3>1. \A g \in In(up'[stream]) : g = f
        BY <1>7, <2>2
      <3>2. up'[stream] = << >> \/ Len(up'[stream]) = 1
        BY <1>7, <2>2
      <3>3. Pending' /\ At("recWait")'
        BY <1>2, <1>5 DEF Pending, At
      <3>4. Cur'.s = Cur.s /\ ~At("sign")' /\ stream' = stream /\ down' = down
        BY <1>2, <1>5 DEF At
      <3> QED BY <1>3, <2>2, <3>1, <3>2, <3>3, <3>4 DEF Matched
    <2>4. Told'
      BY <1>2, <1>5, <2>1 DEF Told, At, relayVars
    <2>5. Spoke'
      BY <1>10, <2>1 DEF Spoke, Heard, relayVars
    <2>6. ~Heard(Cur.s) /\ ~Comes(Cur.s)
      BY <1>1, <2>1 DEF Spoke
    <2>7. Unheard'
      <3>1. ~At("ackWait")'
        BY <1>2, <1>5 DEF At
      <3>2. (~Heard(Cur.s) /\ ~Comes(Cur.s))'
        BY <1>1, <1>2, <1>5, <1>10, <2>6 DEF Heard, relayVars
      <3> QED BY <3>1, <3>2, UnheardStays
    <2>8. ~ghost'
      BY <2>1, <2>6 DEF GoneHeard
    <2> QED BY <2>3, <2>4, <2>5, <2>7, <2>8
  <1>12. (ghost => crossed)'
    BY <1>11
  <1>13. (~crossed => Matched /\ Told /\ Spoke /\ Unheard)'
    BY <1>11
  <1> QED BY <1>8, <1>9, <1>12, <1>13 DEF Inv

LEMMA DoRecordOK == ASSUME Inv, DoRecord PROVE Inv'
  <1>1. chain # << >> /\ At("record") /\ Cur \in Work
    BY CurRegistered DEF DoRecord, At
  <1>2. CASE /\ Cur.s \in recorded /\ ~closed
             /\ IF Cur.l = NoLeaf THEN chain' = Tail(chain) ELSE Go("send")
             /\ UNCHANGED <<recorded, result, up, ghost>>
    <2>1. Quits /\ Rest /\ stream' = stream
      BY <1>1, <1>2, RestSame DEF DoRecord, Quits, Outside, Pending, At
    <2>2. CASE Cur.l = NoLeaf
      BY <1>1, <1>2, <2>1, <2>2, ClientFacts, LeaveOK
    <2>3. CASE Cur.l # NoLeaf
      <3> DEFINE w == MoveTo(Cur, "send")
      <3>1. Become(w)
        BY <1>2, <2>3 DEF Go, MoveTo
      <3>2. w \in Work /\ w.phase = "send" /\ w.s = Cur.s /\ w.l = Cur.l
            /\ w.before = Cur.before /\ w.throttles = Cur.throttles
        BY <1>1, Moved DEF Phase
      <3>3. ~crossed /\ ~Cur.before /\ Cur.throttles = 0 => ~Heard(Cur.s) /\ ~Comes(Cur.s)
        BY <1>1, <2>3, FreshUnheard DEF At
      <3> HIDE DEF w
      <3> QED BY <1>1, <1>2, <2>1, <2>3, <3>1, <3>2, <3>3, ClientFacts, MoveOK
    <2> QED BY <2>2, <2>3
  <1>3. CASE /\ \/ closed
                \/ Cur.s \notin recorded /\ (Cur.s \in rejected \/ stream \in shut \cup {0})
             /\ Unrecorded(rejected, timedOut) /\ UNCHANGED <<up, ghost>>
    <2>1. Quits /\ Rest
      BY <1>1, <1>3, RestSame DEF DoRecord, Quits, Outside, Pending, At
    <2> QED BY <1>1, <1>3, <2>1, UnrecordedOK DEF At
  <1>4. CASE /\ ~closed /\ Cur.s \notin recorded \cup rejected /\ stream # 0
             /\ Become([Cur EXCEPT !.phase = "recWait", !.why = "pending"])
             /\ up' = IF stream \in shut THEN up
                      ELSE [up EXCEPT ![stream] =
                              Append(@, [kind |-> "record", s |-> Cur.s, l |-> NoLeaf])]
             /\ ghost' = (ghost \/ Cur.s \in gone)
             /\ UNCHANGED <<recorded, result>>
    BY <1>1, <1>4, PresentOK DEF DoRecord
  <1> QED BY <1>2, <1>3, <1>4 DEF DoRecord

\* The leaf is sent on the stream captured before, and its answer awaited.
LEMMA DispatchLeafOK ==
    ASSUME Inv, At("sign"), chain # << >>,
           Become([Cur EXCEPT !.phase = "ackWait", !.why = "pending"]),
           up' = IF Cur.on \in shut THEN up
                 ELSE [up EXCEPT ![Cur.on] =
                         Append(@, [kind |-> "submit", s |-> Cur.s, l |-> Cur.l])],
           UNCHANGED <<recorded, result, stream, readers, registered, rejected, timedOut, closed,
                       opened, shut, down, relayVars, faults, crossed, ghost>>
    PROVE  Inv'
  <1> DEFINE w == [Cur EXCEPT !.phase = "ackWait", !.why = "pending"]
             f == [kind |-> "submit", s |-> Cur.s, l |-> Cur.l]
             r == Cur.on
  <1>1. /\ Cur \in Work /\ Cur.s \in Session /\ Cur.s \in recorded /\ r \in 1..opened
        /\ Cur.l \in Leaf /\ Cur.l # NoLeaf /\ SessionOf[Cur.l] = Cur.s
    BY CurRegistered, ClientFacts DEF CurOK, At
  <1>2. opened \in Nat /\ MaxStreams \in Nat /\ r \in 1..MaxStreams /\ stream \in 0..opened
    BY <1>1, ClientFacts, Limits
  <1>3. w \in Work /\ w.phase = "ackWait" /\ w.s = Cur.s /\ w.l = Cur.l /\ w.why = "pending"
        /\ w.before = Cur.before /\ w.throttles = Cur.throttles
    BY <1>1 DEF Work, Phase
  <1>4. f \in UpFrame /\ f.kind = "submit" /\ f.s = Cur.s /\ f.l = Cur.l
    BY <1>1 DEF UpFrame
  <1>5. Become(w) /\ (up' = up \/ (r \notin shut /\ up' = [up EXCEPT ![r] = Append(@, f)]))
    OBVIOUS
  <1> HIDE DEF w, f
  <1>6. chain' \in Seq(Work) /\ chain' # << >> /\ Cur' = w /\ WorkOK'
    BY <1>3, <1>5, ClientFacts, TurnFacts
  <1>7. CurOK'
    BY <1>1, <1>3, <1>6 DEF CurOK, At, AckWhy
  <1>8. CASE r \notin shut /\ up' = [up EXCEPT ![r] = Append(@, f)]
    <2>1. /\ up' \in [1..MaxStreams -> Seq(UpFrame)]
          /\ In(up'[r]) = In(up[r]) \cup {f} /\ Len(up'[r]) = Len(up[r]) + 1
          /\ up'[r][Len(up[r]) + 1] = f /\ \A i \in 1..Len(up[r]) : up'[r][i] = up[r][i]
          /\ \A q \in 1..MaxStreams : q # r => up'[q] = up[q]
      BY <1>2, <1>4, <1>8, UpAppend
    <2>2. Base'
      <3>1. TypeOK'
        BY <1>6, <2>1 DEF Inv, Base, TypeOK, relayVars
      <3>2. FramesOK
        BY DEF Inv, Base
      <3>3. \A q \in 1..MaxStreams : q > opened => up'[q] = << >>
        BY <1>1, <1>2, <2>1, <3>2 DEF FramesOK
      <3>4. \A q \in 1..MaxStreams : \A g \in In(up'[q]) :
               g.kind = "submit" => g.l \in Leaf /\ SessionOf[g.l] = g.s
        BY <1>1, <1>4, <2>1, <3>2 DEF FramesOK
      <3>5. FramesOK'
        BY <3>2, <3>3, <3>4 DEF FramesOK
      <3> QED BY <1>6, <1>7, <3>1, <3>5 DEF Base
    <2>3. Attested' /\ GoneHeard'
      BY <1>3, <1>6 DEF Inv, Attested, OkIsOrdered, GoneHeard, Heard, At, relayVars
    <2>4. ASSUME ~crossed
          PROVE  Matched' /\ Told' /\ Spoke' /\ Unheard'
      <3>1. Matched /\ Told /\ Spoke /\ Unheard
        BY <2>4 DEF Inv
      <3>2. r = stream /\ stream # 0
        BY <1>1, <1>2, <1>8, <3>1 DEF Matched
      <3>3. In(up[r]) = {} /\ In(down[r]) = {} /\ up[r] = << >> /\ down[r] = << >>
        BY <2>4, <3>2, QuietStream DEF Pending, At
      <3>4. Matched'
        <4>1. In(up'[stream]) = {f} /\ Len(up'[stream]) = 1
          BY <2>1, <3>2, <3>3
        <4>2. Pending' /\ At("ackWait")'
          BY <1>3, <1>6 DEF Pending, At
        <4>3. Cur'.s = Cur.s /\ Cur'.l = Cur.l /\ ~At("sign")' /\ stream' = stream /\ down' = down
          BY <1>3, <1>6 DEF At
        <4> QED BY <1>4, <3>2, <3>3, <4>1, <4>2, <4>3 DEF Matched
      <3>5. Told'
        BY <1>3, <1>6, <3>1 DEF Told, At, relayVars
      <3>6. \A s \in Session : Comes(s)' => Comes(s) \/ s = Cur.s
        BY <1>4, <2>1 DEF Comes, Says
      <3>7. Spoke'
        BY <1>1, <3>1, <3>6 DEF Spoke, Heard, relayVars
      <3>8. ASSUME Fresh' PROVE Unheard'
        <4>1. ~Heard(Cur.s) /\ ~Comes(Cur.s)
          BY <1>1, <1>3, <1>6, <2>4, <3>8, FreshUnheard DEF Fresh, At
        <4>2. ~NotFound'
          BY <1>3, <1>6, <3>2, <3>3 DEF NotFound
        <4>3. At("ackWait")' /\ Cur'.s = Cur.s /\ ~Heard(Cur.s)'
          BY <1>3, <1>6, <4>1 DEF At, Heard, relayVars
        <4>4. \A q \in 1..MaxStreams : \A i \in 1..Len(up[q]) : ~Says(Cur.s, up[q][i])
          BY <4>1 DEF Comes, In
        <4>5. \A q \in 1..MaxStreams : \A i \in 1..Len(up'[q]) :
                 Says(Cur.s, up'[q][i]) => q = r /\ i = 1
          <5> SUFFICES ASSUME NEW q \in 1..MaxStreams, NEW i \in 1..Len(up'[q]),
                              Says(Cur.s, up'[q][i])
                       PROVE  q = r /\ i = 1
            OBVIOUS
          <5>1. q = r
            BY <2>1, <4>4
          <5>2. i \in 1..1
            BY <2>1, <3>3, <5>1
          <5> QED BY <5>1, <5>2
        <4> QED BY <4>2, <4>3, <4>5 DEF Unheard, Says
      <3>9. Unheard'
        BY <3>8 DEF Unheard
      <3> QED BY <3>4, <3>5, <3>7, <3>9
    <2>5. (ghost => crossed)' /\ crossed' = crossed
      BY DEF Inv
    <2> QED BY <2>2, <2>3, <2>4, <2>5 DEF Inv
  <1>9. CASE up' = up
    <2>1. Base'
      <3>1. TypeOK' /\ FramesOK'
        BY <1>6, <1>9 DEF Inv, Base, TypeOK, FramesOK, relayVars
      <3> QED BY <1>6, <1>7, <3>1 DEF Base
    <2>2. Attested' /\ GoneHeard'
      BY <1>3, <1>6 DEF Inv, Attested, OkIsOrdered, GoneHeard, Heard, At, relayVars
    <2>3. ASSUME ~crossed
          PROVE  Matched' /\ Told' /\ Spoke' /\ Unheard'
      <3>1. Matched /\ Told /\ Spoke /\ Unheard
        BY <2>3 DEF Inv
      <3>2. stream # 0 => In(up[stream]) = {} /\ In(down[stream]) = {}
                          /\ up[stream] = << >> /\ down[stream] = << >>
        BY <2>3, QuietStream DEF Pending, At
      <3>3. Matched'
        <4>1. ~At("sign")' /\ stream' = stream /\ down' = down
          BY <1>3, <1>6 DEF At
        <4> QED BY <1>9, <3>1, <3>2, <4>1 DEF Matched
      <3>4. Told'
        BY <1>3, <1>6, <3>1 DEF Told, At, relayVars
      <3>5. Spoke'
        BY <1>9, <3>1 DEF Spoke, Heard, Comes, relayVars
      <3>6. ASSUME Fresh' PROVE (~Heard(Cur.s) /\ ~Comes(Cur.s))'
        <4>1. ~Heard(Cur.s) /\ ~Comes(Cur.s)
          BY <1>1, <1>3, <1>6, <2>3, <3>6, FreshUnheard DEF Fresh, At
        <4> QED BY <1>3, <1>6, <1>9, <4>1 DEF Heard, Comes, relayVars
      <3>7. Unheard'
        <4> SUFFICES ASSUME Fresh' PROVE Unheard'
          BY DEF Unheard
        <4>1. (~Heard(Cur.s) /\ ~Comes(Cur.s))'
          BY <3>6
        <4>2. \A q \in 1..MaxStreams : \A i \in 1..Len(up'[q]) : (~Says(Cur.s, up[q][i]))'
          BY <4>1 DEF Comes, In
        <4> QED BY <4>1, <4>2 DEF Unheard
      <3> QED BY <3>3, <3>4, <3>5, <3>7
    <2>4. (ghost => crossed)' /\ crossed' = crossed
      BY DEF Inv
    <2> QED BY <2>1, <2>2, <2>3, <2>4 DEF Inv
  <1> QED BY <1>5, <1>8, <1>9

LEMMA SendLeafOK == ASSUME Inv, SendLeaf PROVE Inv'
  <1>1. chain # << >> /\ At("sign")
    BY DEF SendLeaf, At
  <1>2. CASE /\ Cur.on \in shut
             /\ Conclude("relay_submit_send_failed", 0, recorded) /\ UNCHANGED up
    <2>1. Quits /\ Rest
      BY <1>1, <1>2, RestSame DEF SendLeaf, Quits, Outside, Pending, At
    <2>2. Ends("relay_submit_send_failed", 0)
      BY DEF Ends, Reasons
    <2> QED BY <1>1, <1>2, <2>1, <2>2, ConcludeOK DEF At
  <1>3. CASE /\ Become([Cur EXCEPT !.phase = "ackWait", !.why = "pending"])
             /\ up' = IF Cur.on \in shut THEN up
                      ELSE [up EXCEPT ![Cur.on] =
                              Append(@, [kind |-> "submit", s |-> Cur.s, l |-> Cur.l])]
             /\ UNCHANGED <<recorded, result>>
    BY <1>1, <1>3, DispatchLeafOK DEF SendLeaf
  <1> QED BY <1>2, <1>3 DEF SendLeaf

-----------------------------------------------------------------------------
(* The reader and close.                                                   *)

\* Work that was told why its wait is over, and nothing else.
Answer(c, why, n) == [c EXCEPT !.why = why, !.n = n]
Alike(c, d) ==
    /\ c.s = d.s /\ c.l = d.l /\ c.phase = d.phase
    /\ (c.before <=> d.before) /\ c.throttles = d.throttles /\ c.on = d.on

LEMMA AnswerFacts ==
    ASSUME NEW c \in Work, NEW why \in RecWhy \cup AckWhy, NEW n \in Nat
    PROVE  /\ Answer(c, why, n) \in Work /\ Answer(c, why, n).why = why /\ Answer(c, why, n).n = n
           /\ Alike(Answer(c, why, n), c)
  BY DEF Work, Answer, RecWhy, AckWhy, Reasons, Alike

\* The queues of the streams only lose frames.
Drains ==
    /\ up' = up
    /\ down' \in [1..MaxStreams -> Seq(DownFrame)]
    /\ \A q \in 1..MaxStreams : /\ In(down'[q]) \subseteq In(down[q])
                                /\ down[q] = << >> => down'[q] = << >>

\* What is pending, if anything, has been settled.
LEMMA SettleOK ==
    ASSUME Inv, Drains,
           UNCHANGED <<registered, recorded, rejected, timedOut, result, opened, relayVars, ghost>>,
           shut \subseteq shut', shut' \subseteq 1..opened, readers' \subseteq 1..opened,
           closed' \in BOOLEAN, faults' \in 0..MaxFaults, crossed' \in BOOLEAN, crossed => crossed',
           stream' \in {0, stream}, stream' = stream \/ stream \in shut' \cup {0},
           chain' \in Seq(Work), WorkOK', chain' # << >> => chain # << >> /\ Alike(Cur', Cur),
           At("recWait")' => Cur'.why \in RecWhy, At("ackWait")' => Cur'.why \in AckWhy,
           At("ackWait")' /\ Cur'.why = "ok" => Cur'.n \in 1..Len(log) /\ log[Cur'.n] = Cur.l,
           ~crossed' =>
              /\ stream' # 0 => up[stream] = << >> /\ down'[stream] = << >>
              /\ At("recWait")' /\ Cur'.why = "recorded" => Cur.s \in known \cup gone
              /\ At("recWait")' /\ Cur'.why = "refused" => Cur.s \in refused
              /\ At("ackWait")' /\ Cur'.why = "session_not_found" => Cur.s \in gone /\ NotFound
    PROVE  Inv'
  <1>1. Base /\ Attested /\ GoneHeard /\ (ghost => crossed)
    BY DEF Inv
  <1>2. stream' \in 0..opened /\ stream' \in 0..MaxStreams
    BY ClientFacts, Limits
  <1>3. Base'
    <2>1. TypeOK'
      BY <1>1, <1>2 DEF Base, TypeOK, Drains, relayVars
    <2>2. FramesOK'
      BY <1>1, <1>2 DEF Base, FramesOK, Drains
    <2>3. CurOK'
      BY <1>1 DEF Base, CurOK, At, Alike
    <2> QED BY <2>1, <2>2, <2>3 DEF Base
  <1>4. Attested'
    <2>1. \A q \in 1..MaxStreams : \A f \in In(down'[q]) : f \in In(down[q])
      BY DEF Drains
    <2>2. At("ackWait")' => Cur'.l = Cur.l
      BY DEF At, Alike
    <2>3. OkIsOrdered'
      BY <1>1 DEF Attested, OkIsOrdered, relayVars
    <2>4. \A q \in 1..MaxStreams : \A f \in In(down'[q]) :
             /\ f.kind = "ack" => f.n \in 1..Len(log') /\ log'[f.n] = f.l
             /\ f.kind = "assignment_ok" => f.s \in known' \cup gone'
             /\ f.kind = "assignment_invalid" => f.s \in refused'
      BY <1>1, <2>1 DEF Attested, relayVars
    <2>5. (At("ackWait") /\ Cur.why = "ok" => Cur.n \in 1..Len(log) /\ log[Cur.n] = Cur.l)'
      BY <2>2 DEF relayVars
    <2> QED BY <2>3, <2>4, <2>5 DEF Attested
  <1>5. GoneHeard'
    BY <1>1 DEF GoneHeard, Heard, relayVars
  <1>6. ASSUME ~crossed'
        PROVE  Matched' /\ Told' /\ Spoke' /\ Unheard'
    <2>1. Matched /\ Told /\ Spoke /\ Unheard
      BY <1>6 DEF Inv
    <2>2. stream' # 0 => In(up'[stream']) = {} /\ In(down'[stream']) = {}
                         /\ up'[stream'] = << >> /\ Len(down'[stream']) = 0
      BY <1>6, InEmpty DEF Drains
    <2>3. At("sign")' => At("sign") /\ Cur'.on = Cur.on
      BY DEF At, Alike
    <2>4. At("sign") => Cur.on # 0
      BY <1>1 DEF Base, CurOK, At
    <2>5. Matched'
      <3>1. At("sign")' => Cur'.on = stream' \/ Cur'.on \in shut'
        BY <2>1, <2>3, <2>4 DEF Matched
      <3> QED BY <2>2, <3>1 DEF Matched
    <2>6. chain' # << >> => Cur'.s = Cur.s
      BY DEF Alike
    <2>7. Told'
      BY <1>6, <2>1, <2>2, <2>6 DEF Told, At, relayVars
    <2>8. \A s \in Session : (Heard(s)' <=> Heard(s)) /\ (Comes(s)' <=> Comes(s))
      BY DEF Heard, Comes, Drains, relayVars
    <2>9. Spoke'
      BY <2>1, <2>8 DEF Spoke
    <2>10. ASSUME Fresh' PROVE Unheard'
      <3>1. Fresh /\ Cur'.s = Cur.s /\ (At("ackWait")' <=> At("ackWait")) /\ Cur.s \in Session
        BY <2>10, CurRegistered DEF Fresh, At, Alike
      <3>2. NotFound' /\ At("ackWait")' => NotFound
        BY <1>6, <2>2 DEF NotFound
      <3>3. (Heard(Cur.s)' <=> Heard(Cur.s)) /\ (Comes(Cur.s)' <=> Comes(Cur.s))
        BY <3>1 DEF Heard, Comes, Drains, relayVars
      <3>4. up' = up
        BY DEF Drains
      <3> QED BY <2>1, <3>1, <3>2, <3>3, <3>4 DEF Unheard
    <2>11. Unheard'
      BY <2>10 DEF Unheard
    <2> QED BY <2>5, <2>7, <2>9, <2>11
  <1>7. (ghost => crossed)'
    BY <1>1
  <1> QED BY <1>3, <1>4, <1>5, <1>6, <1>7 DEF Inv

\* The chain after what is pending was told.
LEMMA AnsweredChain ==
    ASSUME Inv, Pending, UNCHANGED registered,
           NEW why \in RecWhy \cup AckWhy, NEW n \in Nat,
           At("recWait") => why \in RecWhy, At("ackWait") => why \in AckWhy,
           Become(Answer(Cur, why, n))
    PROVE  /\ chain' \in Seq(Work) /\ WorkOK' /\ chain # << >> /\ Alike(Cur', Cur)
           /\ Cur'.why = why /\ Cur'.n = n
           /\ At("recWait")' => At("recWait") /\ why \in RecWhy
           /\ At("ackWait")' => At("ackWait") /\ why \in AckWhy
  <1>1. chain # << >>
    BY DEF Pending, At
  <1>2. Cur \in Work
    BY <1>1, CurRegistered
  <1> DEFINE w == Answer(Cur, why, n)
  <1>3. w \in Work /\ w.why = why /\ w.n = n /\ Alike(w, Cur)
    BY <1>2, AnswerFacts
  <1>4. Become(w)
    OBVIOUS
  <1> HIDE DEF w
  <1>5. chain' \in Seq(Work) /\ chain' # << >> /\ Cur' = w /\ WorkOK'
    BY <1>1, <1>3, <1>4, ClientFacts, TurnFacts DEF Alike
  <1> QED BY <1>1, <1>3, <1>5 DEF At, Alike

\* The chain if nothing is told.
LEMMA SameChain ==
    ASSUME Inv, UNCHANGED <<chain, registered>>
    PROVE  /\ chain' \in Seq(Work) /\ WorkOK'
           /\ chain' # << >> => chain # << >> /\ Alike(Cur', Cur) /\ Cur'.why = Cur.why /\ Cur'.n = Cur.n
           /\ At("recWait")' => At("recWait") /\ Cur.why \in RecWhy
           /\ At("ackWait")' => At("ackWait") /\ Cur.why \in AckWhy
  <1>1. chain \in Seq(Work) /\ WorkOK /\ CurOK
    BY ClientFacts
  <1>2. Cur' = Cur
    BY DEF Cur
  <1> QED BY <1>1, <1>2 DEF WorkOK, Alike, At, CurOK

\* What the invariant says of work that was told.
LEMMA ToldFacts ==
    ASSUME Inv
    PROVE  /\ At("ackWait") /\ Cur.why = "ok" => Cur.n \in 1..Len(log) /\ log[Cur.n] = Cur.l
           /\ ~crossed =>
                /\ At("recWait") /\ Cur.why = "recorded" => Cur.s \in known \cup gone
                /\ At("recWait") /\ Cur.why = "refused" => Cur.s \in refused
                /\ At("ackWait") /\ Cur.why = "session_not_found" => Cur.s \in gone /\ NotFound
  BY DEF Inv, Attested, Told, NotFound

\* Nothing was pending, or nothing of it is settled.
LEMMA SettleSame ==
    ASSUME Inv, Drains, UNCHANGED chain,
           UNCHANGED <<registered, recorded, rejected, timedOut, result, opened, relayVars, ghost>>,
           shut \subseteq shut', shut' \subseteq 1..opened, readers' \subseteq 1..opened,
           closed' \in BOOLEAN, faults' \in 0..MaxFaults, crossed' \in BOOLEAN, crossed => crossed',
           stream' \in {0, stream}, stream' = stream \/ stream \in shut' \cup {0},
           ~crossed' => (stream' # 0 => up[stream] = << >> /\ down'[stream] = << >>)
    PROVE  Inv'
  <1>1. /\ chain' \in Seq(Work) /\ WorkOK'
        /\ chain' # << >> => chain # << >> /\ Alike(Cur', Cur) /\ Cur'.why = Cur.why /\ Cur'.n = Cur.n
        /\ At("recWait")' => At("recWait") /\ Cur.why \in RecWhy
        /\ At("ackWait")' => At("ackWait") /\ Cur.why \in AckWhy
    BY SameChain
  <1>2. At("recWait")' \/ At("ackWait")' => chain' # << >>
    BY DEF At
  <1>3. At("ackWait")' /\ Cur'.why = "ok" => Cur'.n \in 1..Len(log) /\ log[Cur'.n] = Cur.l
    BY <1>1, <1>2, ToldFacts
  <1>4. ~crossed' =>
           /\ At("recWait")' /\ Cur'.why = "recorded" => Cur.s \in known \cup gone
           /\ At("recWait")' /\ Cur'.why = "refused" => Cur.s \in refused
           /\ At("ackWait")' /\ Cur'.why = "session_not_found" => Cur.s \in gone /\ NotFound
    BY <1>1, <1>2, ToldFacts
  <1>5. (At("recWait")' => Cur'.why \in RecWhy) /\ (At("ackWait")' => Cur'.why \in AckWhy)
    BY <1>1, <1>2
  <1>6. ~crossed' =>
           /\ stream' # 0 => up[stream] = << >> /\ down'[stream] = << >>
           /\ At("recWait")' /\ Cur'.why = "recorded" => Cur.s \in known \cup gone
           /\ At("recWait")' /\ Cur'.why = "refused" => Cur.s \in refused
           /\ At("ackWait")' /\ Cur'.why = "session_not_found" => Cur.s \in gone /\ NotFound
    BY <1>4
  <1> QED BY <1>1, <1>3, <1>5, <1>6, SettleOK

LEMMA DispatchOK == ASSUME Inv, NEW r \in 1..MaxStreams, Dispatch(r) PROVE Inv'
  <1> DEFINE f == Head(down[r])
  <1>1. r \in readers /\ stream = r /\ down[r] # << >> /\ r # 0 /\ down \in [1..MaxStreams -> Seq(DownFrame)]
    BY DEF Dispatch, Inv, Base, TypeOK
  <1>2. down[r] \in Seq(DownFrame)
    BY <1>1
  <1>3. /\ Tail(down[r]) \in Seq(DownFrame) /\ Len(Tail(down[r])) = Len(down[r]) - 1
        /\ f \in DownFrame /\ In(Tail(down[r])) \subseteq In(down[r]) /\ f \in In(down[r])
        /\ Len(down[r]) = 1 => Tail(down[r]) = << >>
    BY <1>1, <1>2, InTail
  <1>4. down' = [down EXCEPT ![r] = Tail(@)]
    BY DEF Dispatch
  <1>5. Drains
    <2>1. down'[r] = Tail(down[r]) /\ \A q \in 1..MaxStreams : q # r => down'[q] = down[q]
      BY <1>1, <1>4
    <2>2. down' \in [1..MaxStreams -> Seq(DownFrame)]
      BY <1>1, <1>3, <1>4
    <2> QED BY <1>1, <1>3, <2>1, <2>2 DEF Drains, Dispatch
  <1>6. /\ UNCHANGED <<registered, recorded, rejected, timedOut, result, opened, relayVars, ghost>>
        /\ UNCHANGED <<shut, readers, closed, faults, crossed, stream, up>>
    BY DEF Dispatch, clientVars
  <1>7. ~crossed => up[stream] = << >> /\ down'[stream] = << >>
    <2> SUFFICES ASSUME ~crossed PROVE up[r] = << >> /\ Tail(down[r]) = << >>
      BY <1>1, <1>4
    <2>1. Len(down[r]) <= 1 /\ (up[r] = << >> \/ (Len(up[r]) = 1 /\ down[r] = << >>))
      BY <1>1 DEF Inv, Matched
    <2>2. Len(down[r]) = 1
      BY <1>1, <1>2, <1>3, <2>1
    <2> QED BY <1>1, <1>3, <2>1, <2>2
  <1>8. ~crossed => /\ Pending /\ f.s = Cur.s
                    /\ Kinds(f) => At("recWait")
                    /\ ~Kinds(f) => At("ackWait") /\ f.l = Cur.l
                    /\ f.kind = "session_not_found" => f.s \in gone /\ NotFound
    BY <1>1, <1>3 DEF Inv, Matched, Told, NotFound
  <1>9. CASE Pending /\ At(IF Kinds(f) THEN "recWait" ELSE "ackWait")
    <2> DEFINE y == Settlement(f)[2]
    <2>1. Become(Answer(Cur, y, f.n))
      BY <1>9 DEF Dispatch, Answer, Kinds
    <2>2. f.kind \in {"assignment_ok", "assignment_invalid", "ack", "session_not_found", "rate_limited"}
          /\ f.n \in Nat
      BY <1>3 DEF DownFrame
    <2>3. /\ f.kind = "assignment_ok" => y = "recorded" /\ At("recWait")
          /\ f.kind = "assignment_invalid" => y = "refused" /\ At("recWait")
          /\ f.kind = "ack" => y = CaptureReceipt(f) /\ At("ackWait")
          /\ f.kind \in {"session_not_found", "rate_limited"} => y = f.kind /\ At("ackWait")
      BY <1>9, <2>2 DEF Settlement, Kinds
    <2>4. f.kind = "ack" => (y = "ok" /\ f.l = Cur.l) \/ y = "relay_ack_unverified"
      BY <2>3 DEF CaptureReceipt
    <2> HIDE DEF y
    <2>5. (At("recWait") => y \in RecWhy) /\ (At("ackWait") => y \in AckWhy) /\ y \in RecWhy \cup AckWhy
      BY <2>2, <2>3, <2>4 DEF RecWhy, AckWhy, At
    <2>6. /\ chain' \in Seq(Work) /\ WorkOK' /\ chain # << >> /\ Alike(Cur', Cur)
          /\ Cur'.why = y /\ Cur'.n = f.n
          /\ At("recWait")' => At("recWait") /\ y \in RecWhy
          /\ At("ackWait")' => At("ackWait") /\ y \in AckWhy
      BY <1>6, <1>9, <2>1, <2>2, <2>5, AnsweredChain
    <2>7. /\ f.kind = "ack" => f.n \in 1..Len(log) /\ log[f.n] = f.l
          /\ f.kind = "assignment_ok" => f.s \in known \cup gone
          /\ f.kind = "assignment_invalid" => f.s \in refused
      BY <1>1, <1>3 DEF Inv, Attested
    <2>8. At("ackWait")' /\ Cur'.why = "ok" => Cur'.n \in 1..Len(log) /\ log[Cur'.n] = Cur.l
      BY <2>2, <2>3, <2>4, <2>6, <2>7 DEF At
    <2>9. ~crossed => /\ At("recWait")' /\ Cur'.why = "recorded" => Cur.s \in known \cup gone
                      /\ At("recWait")' /\ Cur'.why = "refused" => Cur.s \in refused
                      /\ At("ackWait")' /\ Cur'.why = "session_not_found" => Cur.s \in gone /\ NotFound
      BY <1>8, <2>2, <2>3, <2>4, <2>6, <2>7 DEF At
    <2> QED BY <1>1, <1>5, <1>6, <1>7, <2>6, <2>8, <2>9, ClientFacts, SettleOK DEF Inv, Base, TypeOK
  <1>10. CASE ~(Pending /\ At(IF Kinds(f) THEN "recWait" ELSE "ackWait"))
    <2>1. chain' = chain
      BY <1>10 DEF Dispatch, Kinds
    <2>2. crossed
      BY <1>8, <1>10
    <2>3. crossed' /\ closed \in BOOLEAN /\ crossed \in BOOLEAN
      BY <1>6, <2>2 DEF Inv, Base, TypeOK
    <2> QED BY <1>5, <1>6, <2>1, <2>2, <2>3, ClientFacts, SettleSame
  <1> QED BY <1>9, <1>10

\* What is pending ends without an answer.
Cut == {"relay_stream_closed", "relay_client_closed", "closed"}

LEMMA CutOK ==
    ASSUME Inv, Pending, UNCHANGED <<up, down>>, NEW why \in Cut,
           why = "closed" <=> At("recWait"), Become([Cur EXCEPT !.why = why]),
           UNCHANGED <<registered, recorded, rejected, timedOut, result, opened, relayVars, ghost>>,
           shut \subseteq shut', shut' \subseteq 1..opened, readers' \subseteq 1..opened,
           closed' \in BOOLEAN, faults' \in 0..MaxFaults, crossed' \in BOOLEAN, crossed => crossed',
           stream' \in {0, stream}, stream' = stream \/ stream \in shut' \cup {0},
           ~crossed' => stream' = 0
    PROVE  Inv'
  <1>1. chain # << >> /\ (At("recWait") <=> ~At("ackWait"))
    BY DEF Pending, At
  <1>2. Cur \in Work /\ Cur.n \in Nat
    BY <1>1, CurRegistered DEF Work
  <1>3. [Cur EXCEPT !.why = why] = Answer(Cur, why, Cur.n)
    BY <1>2 DEF Answer, Work
  <1>4. /\ why \in RecWhy \cup AckWhy
        /\ At("recWait") => why \in RecWhy
        /\ At("ackWait") => why \in AckWhy
    BY <1>1 DEF Cut, RecWhy, AckWhy
  <1>5. Become(Answer(Cur, why, Cur.n))
    BY <1>3
  <1>6. /\ chain' \in Seq(Work) /\ WorkOK' /\ chain # << >> /\ Alike(Cur', Cur)
        /\ Cur'.why = why /\ Cur'.n = Cur.n
        /\ At("recWait")' => At("recWait") /\ why \in RecWhy
        /\ At("ackWait")' => At("ackWait") /\ why \in AckWhy
    BY <1>2, <1>4, <1>5, AnsweredChain
  <1>7. why \notin {"ok", "recorded", "refused", "session_not_found"}
    BY DEF Cut
  <1>8. Drains
    BY DEF Drains, Inv, Base, TypeOK
  <1>9. At("recWait")' => Cur'.why \in RecWhy
    BY <1>6
  <1>10. At("ackWait")' => Cur'.why \in AckWhy
    BY <1>6
  <1>11. At("ackWait")' /\ Cur'.why = "ok" => Cur'.n \in 1..Len(log) /\ log[Cur'.n] = Cur.l
    BY <1>6, <1>7
  <1>12. ~crossed' =>
           /\ stream' # 0 => up[stream] = << >> /\ down'[stream] = << >>
           /\ At("recWait")' /\ Cur'.why = "recorded" => Cur.s \in known \cup gone
           /\ At("recWait")' /\ Cur'.why = "refused" => Cur.s \in refused
           /\ At("ackWait")' /\ Cur'.why = "session_not_found" => Cur.s \in gone /\ NotFound
    BY <1>6, <1>7
  <1> QED BY <1>6, <1>8, <1>9, <1>10, <1>11, <1>12, SettleOK

LEMMA SameDrains == ASSUME Inv, UNCHANGED <<up, down>> PROVE Drains
  BY DEF Drains, Inv, Base, TypeOK

LEMMA ReaderEndOK == ASSUME Inv, NEW r \in 1..MaxStreams, ReaderEnd(r) PROVE Inv'
  <1>1. /\ UNCHANGED <<registered, recorded, rejected, timedOut, result, opened, relayVars, ghost>>
        /\ UNCHANGED <<closed, shut, up, down, faults>>
        /\ r \in readers /\ readers' = readers \ {r}
        /\ stream' = IF stream = r THEN 0 ELSE stream
        /\ crossed' = (crossed \/ (Pending /\ stream # r))
        /\ stream = r => r \in shut
    BY DEF ReaderEnd
  <1>2. /\ shut \subseteq 1..opened /\ closed \in BOOLEAN /\ faults \in 0..MaxFaults
        /\ readers' \subseteq 1..opened /\ crossed \in BOOLEAN
    BY <1>1, ClientFacts DEF Inv, Base, TypeOK
  <1>3. crossed' \in BOOLEAN /\ (crossed => crossed') /\ (Pending /\ stream # r => crossed')
    BY <1>1, <1>2
  <1>4. stream' \in {0, stream} /\ (stream' = stream \/ stream \in shut \cup {0})
    BY <1>1
  <1>5. CASE Pending
    <2> DEFINE why == IF At("ackWait") THEN "relay_stream_closed" ELSE "closed"
    <2>1. Become([Cur EXCEPT !.why = why])
      BY <1>5 DEF ReaderEnd
    <2>2. why \in Cut /\ (why = "closed" <=> At("recWait"))
      BY <1>5 DEF Cut, Pending, At
    <2>3. ~crossed' => stream' = 0
      BY <1>1, <1>3, <1>5
    <2> HIDE DEF why
    <2> QED BY <1>1, <1>2, <1>3, <1>4, <1>5, <2>1, <2>2, <2>3, CutOK
  <1>6. CASE ~Pending
    <2>1. chain' = chain
      BY <1>6 DEF ReaderEnd
    <2>2. Drains
      BY <1>1, SameDrains
    <2>3. ~crossed' => (stream' # 0 => up[stream] = << >> /\ down'[stream] = << >>)
      BY <1>1, <1>3, <1>6, QuietStream
    <2> QED BY <1>1, <1>2, <1>3, <1>4, <2>1, <2>2, <2>3, SettleSame
  <1> QED BY <1>5, <1>6

LEMMA CloseOK == ASSUME Inv, Close PROVE Inv'
  <1>1. /\ UNCHANGED <<registered, recorded, rejected, timedOut, result, opened, relayVars, ghost>>
        /\ UNCHANGED <<readers, up, down, crossed>>
        /\ closed' = TRUE /\ stream' = 0 /\ shut' = shut \cup ({stream} \ {0})
        /\ faults < MaxFaults /\ faults' = faults + 1
    BY DEF Close, ResetStream, Fault
  <1>2. /\ shut' \subseteq 1..opened /\ shut \subseteq shut' /\ closed' \in BOOLEAN
        /\ readers' \subseteq 1..opened /\ crossed' \in BOOLEAN /\ (crossed => crossed')
    BY <1>1, ClientFacts DEF Inv, Base, TypeOK
  <1>3. faults' \in 0..MaxFaults
    BY <1>1, ClientFacts, Limits
  <1>4. stream' \in {0, stream} /\ (stream' = stream \/ stream \in shut' \cup {0})
    BY <1>1
  <1>5. CASE Pending
    <2> DEFINE why == IF At("ackWait") THEN "relay_client_closed" ELSE "closed"
    <2>1. Become([Cur EXCEPT !.why = why])
      BY <1>5 DEF Close
    <2>2. why \in Cut /\ (why = "closed" <=> At("recWait"))
      BY <1>5 DEF Cut, Pending, At
    <2> HIDE DEF why
    <2> QED BY <1>1, <1>2, <1>3, <1>4, <1>5, <2>1, <2>2, CutOK
  <1>6. CASE ~Pending
    <2>1. chain' = chain
      BY <1>6 DEF Close
    <2>2. Drains
      BY <1>1, SameDrains
    <2> QED BY <1>1, <1>2, <1>3, <1>4, <2>1, <2>2, SettleSame
  <1> QED BY <1>5, <1>6

-----------------------------------------------------------------------------
(* Work and streams that are new.                                          *)

\* Work that is queued behind the current one, or is the current one.
LEMMA Enqueued ==
    ASSUME chain \in Seq(Work), WorkOK, NEW s \in registered', NEW l \in Leaf \cup {NoLeaf},
           registered \subseteq registered', registered' \subseteq Session,
           l # NoLeaf => SessionOf[l] = s, chain' = Append(chain, NewWork(s, l))
    PROVE  /\ chain' \in Seq(Work) /\ WorkOK' /\ chain' # << >>
           /\ \/ chain # << >> /\ Cur' = Cur
              \/ chain = << >> /\ Cur'.phase = "queued"
  <1> DEFINE w == NewWork(s, l)
  <1>1. w \in Work /\ w.s = s /\ w.l = l /\ w.phase = "queued"
    BY DEF NewWork, Work, Phase
  <1>2. chain' = Append(chain, w)
    OBVIOUS
  <1> HIDE DEF w
  <1>3. /\ chain' \in Seq(Work) /\ Len(chain') = Len(chain) + 1 /\ chain' # << >>
        /\ \A i \in 1..Len(chain) : chain'[i] = chain[i]
        /\ chain'[Len(chain) + 1] = w
    BY <1>1, <1>2
  <1>4. WorkOK'
    <2> SUFFICES ASSUME NEW i \in 1..(Len(chain) + 1)
                 PROVE  /\ chain'[i].s \in registered'
                        /\ chain'[i].l # NoLeaf => SessionOf[chain'[i].l] = chain'[i].s
                        /\ i # 1 => chain'[i].phase = "queued"
      BY <1>3 DEF WorkOK
    <2>1. CASE i \in 1..Len(chain)
      BY <1>3, <2>1 DEF WorkOK
    <2>2. CASE i = Len(chain) + 1
      BY <1>1, <1>3, <2>2
    <2> QED BY <2>1, <2>2
  <1>5. Cur' = chain'[1]
    BY <1>3 DEF Cur
  <1>6. chain # << >> => Cur' = Cur
    <2> SUFFICES ASSUME chain # << >> PROVE Cur' = Cur
      OBVIOUS
    <2>1. Cur = chain[1] /\ 1 \in 1..Len(chain)
      BY CurFacts
    <2> QED BY <1>3, <1>5, <2>1
  <1>7. chain = << >> => Cur'.phase = "queued"
    BY <1>1, <1>3, <1>5
  <1> QED BY <1>3, <1>4, <1>6, <1>7

\* All the rest of the client, the relay and the network stay as they are.
LEMMA EnqueueOK ==
    ASSUME Inv, NEW s \in registered', NEW l \in Leaf \cup {NoLeaf},
           registered \subseteq registered', registered' \subseteq Session,
           l # NoLeaf => SessionOf[l] = s, chain' = Append(chain, NewWork(s, l)),
           result' \in [Leaf -> [why : Reasons \cup {"new", "queued"}, n : Nat]],
           \A k \in Leaf : result'[k] = result[k] \/ result'[k].why = "queued",
           UNCHANGED <<stream, readers, recorded, rejected, timedOut, closed, opened, shut, up,
                       down, relayVars, faults, crossed, ghost>>
    PROVE  Inv'
  <1>1. chain \in Seq(Work) /\ WorkOK /\ CurOK
    BY ClientFacts
  <1>2. /\ chain' \in Seq(Work) /\ WorkOK' /\ chain' # << >>
        /\ \/ chain # << >> /\ Cur' = Cur
           \/ chain = << >> /\ Cur'.phase = "queued"
    BY <1>1, Enqueued
  <1>3. \A ph \in Phase \ {"queued"} : At(ph)' <=> At(ph)
    BY <1>2 DEF At
  <1>4. \A ph \in Phase \ {"queued"} : At(ph) => Cur' = Cur
    BY <1>2 DEF At
  <1>5. /\ At("ackWait")' <=> At("ackWait")
        /\ At("recWait")' <=> At("recWait")
        /\ At("sign")' <=> At("sign")
        /\ At("ackWait") \/ At("recWait") \/ At("sign") => Cur' = Cur
    BY <1>3, <1>4 DEF Phase
  <1>6. Base'
    <2>1. TypeOK' /\ FramesOK'
      BY <1>2 DEF Inv, Base, TypeOK, FramesOK, relayVars
    <2>2. CurOK'
      BY <1>1, <1>2 DEF CurOK, At
    <2> QED BY <1>2, <2>1, <2>2 DEF Base
  <1>7. Attested' /\ GoneHeard'
    <2>1. Attested /\ GoneHeard
      BY DEF Inv
    <2>2. OkIsOrdered'
      BY <2>1 DEF Attested, OkIsOrdered, relayVars
    <2>3. (At("ackWait") /\ Cur.why = "ok" => Cur.n \in 1..Len(log) /\ log[Cur.n] = Cur.l)'
      BY <1>5, <2>1 DEF Attested, relayVars
    <2>4. (\A r \in 1..MaxStreams : \A f \in In(down[r]) :
             /\ f.kind = "ack" => f.n \in 1..Len(log) /\ log[f.n] = f.l
             /\ f.kind = "assignment_ok" => f.s \in known \cup gone
             /\ f.kind = "assignment_invalid" => f.s \in refused)'
      BY <2>1 DEF Attested, relayVars
    <2> QED BY <2>1, <2>2, <2>3, <2>4 DEF Attested, GoneHeard, Heard, relayVars
  <1>8. ASSUME ~crossed
        PROVE  Matched' /\ Told' /\ Spoke' /\ Unheard'
    <2>1. Matched /\ Told /\ Spoke /\ Unheard
      BY <1>8 DEF Inv
    <2>2. Pending' <=> Pending
      BY <1>5 DEF Pending
    <2>3. Pending => Cur' = Cur
      BY <1>5 DEF Pending
    <2>4. Matched'
      BY <1>5, <2>1, <2>2, <2>3 DEF Matched
    <2>5. Told'
      BY <1>5, <2>1 DEF Told, relayVars
    <2>6. Spoke'
      BY <2>1 DEF Spoke, Heard, Comes, relayVars
    <2>7. ASSUME Fresh' PROVE Unheard'
      <3>1. chain # << >> /\ Cur' = Cur /\ Fresh
        BY <1>2, <2>7 DEF Fresh, At
      <3>2. NotFound' <=> NotFound
        BY <3>1 DEF NotFound
      <3>3. (Heard(Cur.s)' <=> Heard(Cur.s)) /\ (Comes(Cur.s)' <=> Comes(Cur.s))
        BY <3>1 DEF Heard, Comes, relayVars
      <3> QED BY <1>5, <2>1, <3>1, <3>2, <3>3 DEF Unheard
    <2>8. Unheard'
      BY <2>7 DEF Unheard
    <2> QED BY <2>4, <2>5, <2>6, <2>8
  <1>9. (ghost => crossed)'
    BY DEF Inv
  <1> QED BY <1>6, <1>7, <1>8, <1>9 DEF Inv

LEMMA RegisterSessionOK == ASSUME Inv, NEW s \in Session, RegisterSession(s) PROVE Inv'
  <1>1. /\ registered' = registered \cup {s} /\ chain' = Append(chain, NewWork(s, NoLeaf))
        /\ UNCHANGED <<stream, readers, recorded, rejected, timedOut, result, closed, opened, shut,
                       up, down, relayVars, faults, crossed, ghost>>
    BY DEF RegisterSession
  <1>2. s \in registered' /\ registered' \subseteq Session /\ registered \subseteq registered'
    BY <1>1, ClientFacts
  <1>3. NoLeaf \in Leaf \cup {NoLeaf} /\ \A k \in Leaf : result'[k] = result[k]
    BY <1>1
  <1> QED BY <1>1, <1>2, <1>3, ClientFacts, EnqueueOK

LEMMA SubmitLeafOK == ASSUME Inv, NEW l \in Leaf, SubmitLeaf(l) PROVE Inv'
  <1>1. /\ SessionOf[l] \in registered /\ chain' = Append(chain, NewWork(SessionOf[l], l))
        /\ result' = [result EXCEPT ![l].why = "queued"]
        /\ UNCHANGED <<stream, readers, registered, recorded, rejected, timedOut, closed, opened,
                       shut, up, down, relayVars, faults, crossed, ghost>>
    BY DEF SubmitLeaf
  <1>2. /\ result' \in [Leaf -> [why : Reasons \cup {"new", "queued"}, n : Nat]]
        /\ \A k \in Leaf : result'[k] = result[k] \/ result'[k].why = "queued"
    BY <1>1, ClientFacts
  <1>3. SessionOf[l] \in registered' /\ registered' = registered
    BY <1>1
  <1> DEFINE s == SessionOf[l]
  <1>4. s \in registered' /\ chain' = Append(chain, NewWork(s, l)) /\ l \in Leaf \cup {NoLeaf}
        /\ SessionOf[l] = s
    BY <1>1, <1>3
  <1> HIDE DEF s
  <1> QED BY <1>1, <1>2, <1>3, <1>4, ClientFacts, EnqueueOK

\* A stream that is new has no frames yet, and work to be sent is on one that has ended.
LEMMA ConnectOK == ASSUME Inv, Connect PROVE Inv'
  <1> DEFINE r == opened + 1
  <1>1. /\ stream = 0 /\ ~closed /\ opened < MaxStreams
        /\ opened' = r /\ stream' = r /\ readers' = readers \cup {r}
        /\ UNCHANGED <<chain, registered, recorded, rejected, timedOut, result, closed,
                       shut, up, down, relayVars, faults, crossed, ghost>>
    BY DEF Connect
  <1>2. opened \in Nat /\ MaxStreams \in Nat /\ opened \in 0..MaxStreams
    BY ClientFacts, Limits
  <1>3. r \in 1..MaxStreams /\ r # 0 /\ r > opened /\ r \in Nat
    BY <1>1, <1>2
  <1>4. 1..opened \subseteq 1..r /\ r \in 1..r /\ \A q \in 1..MaxStreams : q > r => q > opened
    BY <1>2
  <1> HIDE DEF r
  <1>5. up[r] = << >> /\ down[r] = << >> /\ In(up[r]) = {} /\ In(down[r]) = {}
    BY <1>3, InEmpty DEF Inv, Base, FramesOK
  <1>6. Cur' = Cur /\ Heard(Cur.s)' = Heard(Cur.s)
    BY <1>1 DEF Cur, Heard, relayVars
  <1>7. Base'
    <2>1. TypeOK'
      BY <1>1, <1>3, <1>4 DEF Inv, Base, TypeOK, relayVars
    <2>2. FramesOK'
      BY <1>1, <1>3, <1>4 DEF Inv, Base, FramesOK
    <2>3. WorkOK' /\ CurOK'
      BY <1>1, <1>4 DEF Inv, Base, WorkOK, CurOK, At, Cur
    <2> QED BY <2>1, <2>2, <2>3 DEF Base
  <1>8. Attested' /\ GoneHeard'
    BY <1>1 DEF Inv, Attested, OkIsOrdered, GoneHeard, Heard, At, Cur, relayVars
  <1>9. ASSUME ~crossed
        PROVE  Matched' /\ Told' /\ Spoke' /\ Unheard'
    <2>1. Matched /\ Told /\ Spoke /\ Unheard
      BY <1>9 DEF Inv
    <2>2. At("sign") => Cur.on \in shut
      <3>1. At("sign") => Cur.on \in 1..opened
        BY DEF Inv, Base, CurOK, At
      <3> QED BY <1>1, <2>1, <3>1 DEF Matched
    <2>3. Matched'
      <3>1. up'[stream'] = << >> /\ Len(down'[stream']) = 0 /\ In(up'[stream']) = {} /\ In(down'[stream']) = {}
        BY <1>1, <1>5
      <3>2. (At("sign") => Cur.on \in shut)'
        BY <1>1, <2>2 DEF At, Cur
      <3> QED BY <3>1, <3>2 DEF Matched
    <2>4. Told'
      BY <1>1, <1>5, <2>1 DEF Told, At, Cur, relayVars
    <2>5. Spoke'
      BY <1>1, <2>1 DEF Spoke, Heard, Comes, relayVars
    <2>6. NotFound' => NotFound
      BY <1>1, <1>5 DEF NotFound, Cur
    <2>7. Unheard'
      BY <1>1, <2>1, <2>6 DEF Unheard, Fresh, At, Cur, Heard, Comes, relayVars
    <2> QED BY <2>3, <2>4, <2>5, <2>7
  <1>10. (ghost => crossed)'
    BY <1>1 DEF Inv
  <1> QED BY <1>1, <1>7, <1>8, <1>9, <1>10 DEF Inv

-----------------------------------------------------------------------------
(* The relay and the network.                                              *)

\* The frames of every stream after the relay has answered the first frame of r.
LEMMA AnswerSent ==
    ASSUME Inv, NEW r \in 1..MaxStreams, up[r] # << >>, NEW kind, NEW n \in Nat,
           kind \in {"assignment_ok", "assignment_invalid", "ack", "session_not_found",
                     "rate_limited"},
           RelayAnswer(r, kind, n)
    PROVE  LET f == Head(up[r])
               g == [kind |-> kind, s |-> f.s, l |-> f.l, n |-> n]
           IN  /\ f \in UpFrame /\ f \in In(up[r]) /\ up[r][1] = f
               /\ 1 \in 1..Len(up[r])
               /\ up' \in [1..MaxStreams -> Seq(UpFrame)]
               /\ \A q \in 1..MaxStreams : q # r => up'[q] = up[q] /\ down'[q] = down[q]
               /\ In(up'[r]) \subseteq In(up[r])
               /\ \A i \in 1..Len(up'[r]) : i + 1 \in 1..Len(up[r]) /\ up'[r][i] = up[r][i + 1]
               /\ Len(up[r]) = 1 => up'[r] = << >>
               /\ down' \in [1..MaxStreams -> Seq(DownFrame)]
               /\ In(down'[r]) \subseteq In(down[r]) \cup {g}
               /\ down[r] = << >> => Len(down'[r]) <= 1
  <1> DEFINE f == Head(up[r])
             g == [kind |-> kind, s |-> f.s, l |-> f.l, n |-> n]
  <1>1. up \in [1..MaxStreams -> Seq(UpFrame)] /\ down \in [1..MaxStreams -> Seq(DownFrame)]
        /\ up[r] \in Seq(UpFrame) /\ down[r] \in Seq(DownFrame)
    BY DEF Inv, Base, TypeOK
  <1>2. /\ Tail(up[r]) \in Seq(UpFrame) /\ Len(Tail(up[r])) = Len(up[r]) - 1
        /\ f = up[r][1] /\ f \in UpFrame /\ f \in In(up[r])
        /\ \A i \in 1..Len(Tail(up[r])) : Tail(up[r])[i] = up[r][i + 1]
        /\ In(Tail(up[r])) \subseteq In(up[r])
        /\ Len(up[r]) = 1 => Tail(up[r]) = << >>
    BY <1>1, InTail
  <1>3. 1 \in 1..Len(up[r]) /\ \A i \in 1..Len(Tail(up[r])) : i + 1 \in 1..Len(up[r])
    BY <1>1, <1>2
  <1>4. up' = [up EXCEPT ![r] = Tail(@)]
        /\ (down' = down \/ down' = [down EXCEPT ![r] = Append(@, g)])
    BY DEF RelayAnswer
  <1>5. g \in DownFrame
    BY <1>2 DEF UpFrame, DownFrame
  <1> HIDE DEF f, g
  <1>6. up'[r] = Tail(up[r]) /\ up' \in [1..MaxStreams -> Seq(UpFrame)]
        /\ \A q \in 1..MaxStreams : q # r => up'[q] = up[q]
    BY <1>1, <1>2, <1>4
  <1>7. /\ Append(down[r], g) \in Seq(DownFrame) /\ Len(Append(down[r], g)) = Len(down[r]) + 1
        /\ In(Append(down[r], g)) = In(down[r]) \cup {g}
    BY <1>1, <1>5, InAppend
  <1>8. /\ down' \in [1..MaxStreams -> Seq(DownFrame)]
        /\ \A q \in 1..MaxStreams : q # r => down'[q] = down[q]
        /\ down'[r] = down[r] \/ down'[r] = Append(down[r], g)
    BY <1>1, <1>4, <1>7
  <1>9. In(down'[r]) \subseteq In(down[r]) \cup {g}
    BY <1>7, <1>8
  <1>10. ASSUME down[r] = << >> PROVE Len(down'[r]) <= 1
    <2>1. Len(down[r]) = 0
      BY <1>10
    <2>2. CASE down'[r] = down[r]
      BY <2>1, <2>2
    <2>3. CASE down'[r] = Append(down[r], g)
      BY <1>7, <2>1, <2>3
    <2> QED BY <1>8, <2>2, <2>3
  <1> QED BY <1>2, <1>3, <1>6, <1>8, <1>9, <1>10 DEF f, g

\* The relay orders the leaf of a frame, or none.
Orders(f) ==
    \/ log' = log
    \/ f.kind = "submit" /\ log' = Append(log, f.l)

\* What it has ordered stays where it is.
LEMMA LogGrows ==
    ASSUME Inv, NEW r \in 1..MaxStreams, NEW f \in In(up[r]), Orders(f)
    PROVE  /\ log' \in Seq(Leaf)
           /\ \A i \in 1..Len(log) : i \in 1..Len(log') /\ log'[i] = log[i]
           /\ \A s \in Session : Heard(s) => Heard(s)'
           /\ \A s \in Session : Heard(s)' => Heard(s) \/ Says(s, f)
  <1>1. log \in Seq(Leaf) /\ (f.kind = "submit" => f.l \in Leaf /\ SessionOf[f.l] = f.s)
    BY DEF Inv, Base, TypeOK, FramesOK
  <1>2. CASE log' = log
    BY <1>1, <1>2 DEF Heard
  <1>3. CASE f.kind = "submit" /\ log' = Append(log, f.l)
    <2>1. /\ log' \in Seq(Leaf) /\ Len(log') = Len(log) + 1 /\ log'[Len(log) + 1] = f.l
          /\ \A i \in 1..Len(log) : i \in 1..Len(log') /\ log'[i] = log[i]
      BY <1>1, <1>3
    <2>2. \A i \in 1..Len(log') : i \in 1..Len(log) \/ i = Len(log) + 1
      BY <1>1, <2>1
    <2>3. \A s \in Session : Heard(s) => Heard(s)'
      BY <2>1 DEF Heard
    <2>4. \A s \in Session : Heard(s)' => Heard(s) \/ Says(s, f)
      <3> SUFFICES ASSUME NEW s \in Session, NEW i \in 1..Len(log'), SessionOf[log'[i]] = s
                   PROVE  Heard(s) \/ Says(s, f)
        BY DEF Heard
      <3>1. CASE i \in 1..Len(log)
        BY <2>1, <3>1 DEF Heard
      <3>2. CASE i = Len(log) + 1
        BY <1>1, <1>3, <2>1, <3>2 DEF Says
      <3> QED BY <2>2, <3>1, <3>2
    <2> QED BY <2>1, <2>3, <2>4
  <1> QED BY <1>2, <1>3 DEF Orders

\* Whatever the relay answers, it answers the work that is pending.
LEMMA RelayStepOK ==
    ASSUME Inv, NEW r \in 1..MaxStreams, up[r] # << >>, NEW kind, NEW n \in Nat,
           kind \in {"assignment_ok", "assignment_invalid", "ack", "session_not_found",
                     "rate_limited"},
           RelayAnswer(r, kind, n), Orders(Head(up[r])),
           UNCHANGED <<chain, clientVars, opened, shut, gone, crossed, ghost>>,
           faults' \in 0..MaxFaults, known' \subseteq Session, refused' \subseteq Session,
           known \subseteq known', refused \subseteq refused',
           kind \in {"assignment_ok", "assignment_invalid"} <=> Head(up[r]).kind = "record",
           kind = "ack" => n \in 1..Len(log') /\ log'[n] = Head(up[r]).l,
           kind = "assignment_ok" => Head(up[r]).s \in known',
           kind = "assignment_invalid" => Head(up[r]).s \in refused',
           kind = "session_not_found" => Head(up[r]).s \notin known
    PROVE  Inv'
  <1> DEFINE f == Head(up[r])
             g == [kind |-> kind, s |-> f.s, l |-> f.l, n |-> n]
  <1>1. /\ f \in UpFrame /\ f \in In(up[r]) /\ up[r][1] = f /\ 1 \in 1..Len(up[r])
        /\ up' \in [1..MaxStreams -> Seq(UpFrame)]
        /\ \A q \in 1..MaxStreams : q # r => up'[q] = up[q] /\ down'[q] = down[q]
        /\ In(up'[r]) \subseteq In(up[r])
        /\ \A i \in 1..Len(up'[r]) : i + 1 \in 1..Len(up[r]) /\ up'[r][i] = up[r][i + 1]
        /\ Len(up[r]) = 1 => up'[r] = << >>
        /\ down' \in [1..MaxStreams -> Seq(DownFrame)]
        /\ In(down'[r]) \subseteq In(down[r]) \cup {g}
        /\ down[r] = << >> => Len(down'[r]) <= 1
    BY AnswerSent
  <1>2. g.kind = kind /\ g.s = f.s /\ g.l = f.l /\ g.n = n /\ f.s \in Session
        /\ f.kind \in {"record", "submit"} /\ (Kinds(g) <=> f.kind = "record")
    BY <1>1 DEF UpFrame, Kinds
  <1>3. /\ Orders(f)
        /\ kind = "ack" => n \in 1..Len(log') /\ log'[n] = f.l
        /\ kind = "assignment_ok" => f.s \in known'
        /\ kind = "assignment_invalid" => f.s \in refused'
        /\ kind = "session_not_found" => f.s \notin known
    OBVIOUS
  <1> HIDE DEF f, g
  <1>4. Base /\ Attested /\ GoneHeard /\ (ghost => crossed)
    BY DEF Inv
  <1>5. f.kind = "submit" => f.l \in Leaf /\ SessionOf[f.l] = f.s
    BY <1>1, <1>4 DEF Base, FramesOK
  <1>6. /\ log' \in Seq(Leaf)
        /\ \A i \in 1..Len(log) : i \in 1..Len(log') /\ log'[i] = log[i]
        /\ \A s \in Session : Heard(s) => Heard(s)'
        /\ \A s \in Session : Heard(s)' => Heard(s) \/ Says(s, f)
    BY <1>1, <1>3, LogGrows
  <1>7. /\ \A q \in 1..MaxStreams : In(up'[q]) \subseteq In(up[q])
        /\ \A q \in 1..MaxStreams : \A h \in In(down'[q]) : h \in In(down[q]) \/ (q = r /\ h = g)
    BY <1>1
  <1>8. Base'
    <2>1. TypeOK'
      BY <1>1, <1>4, <1>6 DEF Base, TypeOK, clientVars
    <2>2. ~(r > opened)
      BY <1>4 DEF Base, FramesOK
    <2>3. FramesOK'
      BY <1>1, <1>4, <1>7, <2>2 DEF Base, FramesOK, clientVars
    <2>4. WorkOK' /\ CurOK'
      BY <1>4 DEF Base, WorkOK, CurOK, At, Cur, clientVars
    <2> QED BY <2>1, <2>3, <2>4 DEF Base
  <1>9. Attested'
    <2>1. OkIsOrdered'
      BY <1>4, <1>6 DEF Attested, OkIsOrdered, clientVars
    <2>2. (At("ackWait") /\ Cur.why = "ok" => Cur.n \in 1..Len(log) /\ log[Cur.n] = Cur.l)'
      BY <1>4, <1>6 DEF Attested, At, Cur
    <2>3. (\A q \in 1..MaxStreams : \A h \in In(down[q]) :
             /\ h.kind = "ack" => h.n \in 1..Len(log) /\ log[h.n] = h.l
             /\ h.kind = "assignment_ok" => h.s \in known \cup gone
             /\ h.kind = "assignment_invalid" => h.s \in refused)'
      <3> SUFFICES ASSUME NEW q \in 1..MaxStreams, NEW h \in In(down'[q])
                   PROVE  /\ h.kind = "ack" => h.n \in 1..Len(log') /\ log'[h.n] = h.l
                          /\ h.kind = "assignment_ok" => h.s \in known' \cup gone'
                          /\ h.kind = "assignment_invalid" => h.s \in refused'
        OBVIOUS
      <3>1. CASE h \in In(down[q])
        <4>1. /\ h.kind = "ack" => h.n \in 1..Len(log) /\ log[h.n] = h.l
              /\ h.kind = "assignment_ok" => h.s \in known \cup gone
              /\ h.kind = "assignment_invalid" => h.s \in refused
          BY <1>4, <3>1 DEF Attested
        <4> QED BY <1>6, <4>1
      <3>2. CASE h = g
        BY <1>2, <1>3, <3>2
      <3> QED BY <1>7, <3>1, <3>2
    <2> QED BY <2>1, <2>2, <2>3 DEF Attested
  <1>10. GoneHeard'
    <2>1. gone' = gone /\ gone \subseteq Session
      BY <1>4 DEF Base, TypeOK
    <2> QED BY <1>4, <1>6, <2>1 DEF GoneHeard
  <1>11. ASSUME ~crossed
         PROVE  Matched' /\ Told' /\ Spoke' /\ Unheard'
    <2>1. Matched /\ Told /\ Spoke /\ Unheard
      BY <1>11 DEF Inv
    <2>2. /\ stream' = stream /\ Cur' = Cur /\ (Pending' <=> Pending) /\ shut' = shut
          /\ \A ph \in Phase : At(ph)' <=> At(ph)
          /\ recorded' = recorded /\ rejected' = rejected /\ result' = result
          /\ gone' = gone
      BY DEF clientVars, Cur, Pending, At
    <2>3. /\ At("ackWait")' <=> At("ackWait")
          /\ At("recWait")' <=> At("recWait")
          /\ At("sign")' <=> At("sign")
      BY <2>2 DEF Phase
    <2>4. r = stream => /\ Len(up[r]) = 1 /\ down[r] = << >> /\ r # 0
                        /\ Pending /\ f.s = Cur.s
                        /\ f.kind = "record" => At("recWait")
                        /\ f.kind = "submit" => At("ackWait") /\ f.l = Cur.l
      BY <1>1, <2>1 DEF Matched
    <2>5. Matched'
      <3>1. CASE stream # r
        <4>1. stream \in 0..MaxStreams
          BY <1>4 DEF Base, TypeOK
        <4>2. stream # 0 => up'[stream] = up[stream] /\ down'[stream] = down[stream]
          BY <1>1, <3>1, <4>1, Limits
        <4> QED BY <2>1, <2>2, <2>3, <4>2 DEF Matched
      <3>2. CASE stream = r
        <4>1. up'[r] = << >> /\ Len(down'[r]) <= 1 /\ \A h \in In(down'[r]) : h = g
          BY <1>1, <2>4, <3>2, InEmpty
        <4>2. Pending' /\ g.s = Cur'.s /\ (Kinds(g) => At("recWait")')
              /\ (~Kinds(g) => At("ackWait")' /\ g.l = Cur'.l)
          BY <1>2, <2>2, <2>3, <2>4, <3>2
        <4>3. (At("sign") => Cur.on = stream \/ Cur.on \in shut)'
          BY <2>1, <2>2, <2>3 DEF Matched
        <4> QED BY <2>2, <3>2, <4>1, <4>2, <4>3, InEmpty DEF Matched
      <3> QED BY <3>1, <3>2
    <2>6. ASSUME stream = r, kind = "session_not_found" PROVE f.s \in gone /\ f.kind = "submit"
      <3>1. f.kind = "submit" /\ f.s = Cur.s /\ At("ackWait")
        BY <1>2, <2>4, <2>6 DEF Kinds
      <3>2. Cur.s \in recorded
        BY <1>4, <3>1 DEF Base, CurOK, At
      <3> QED BY <1>3, <2>1, <2>6, <3>1, <3>2 DEF Told
    <2>7. Told'
      <3>1. recorded' \subseteq known' \cup gone' /\ rejected' \subseteq refused'
        BY <2>1, <2>2 DEF Told
      <3>2. /\ (\A l \in Leaf : result[l].why = "relay_session_gone" => SessionOf[l] \in gone)'
            /\ (At("recWait") /\ Cur.why = "recorded" => Cur.s \in known \cup gone)'
            /\ (At("recWait") /\ Cur.why = "refused" => Cur.s \in refused)'
            /\ (At("ackWait") /\ Cur.why = "session_not_found" => Cur.s \in gone)'
        BY <2>1, <2>2, <2>3 DEF Told
      <3>3. (stream # 0 => \A h \in In(down[stream]) : h.kind = "session_not_found" => h.s \in gone)'
        <4> SUFFICES ASSUME stream # 0, NEW h \in In(down'[stream]), h.kind = "session_not_found"
                     PROVE  h.s \in gone
          BY <2>2
        <4>1. stream \in 1..MaxStreams
          BY <1>4, Limits DEF Base, TypeOK
        <4>2. CASE h \in In(down[stream])
          BY <2>1, <4>2 DEF Told
        <4>3. CASE stream = r /\ h = g
          BY <1>2, <2>6, <4>3
        <4> QED BY <1>7, <4>1, <4>2, <4>3
      <3> QED BY <3>1, <3>2, <3>3 DEF Told
    <2>8. \A s \in Session : Comes(s)' => Comes(s)
      BY <1>7 DEF Comes
    <2>9. \A s \in Session : Says(s, f) => Comes(s)
      BY <1>1 DEF Comes
    <2>10. Spoke'
      BY <1>6, <2>1, <2>2, <2>8, <2>9 DEF Spoke
    <2>11. ASSUME Fresh' PROVE Unheard'
      <3>1. Fresh /\ Cur.s \in Session
        BY <2>2, <2>11, CurRegistered DEF Fresh, At
      <3>3. PICK s \in Session : s = Cur.s /\ s = Cur'.s
        BY <2>2, <3>1
      <3>2. /\ ~At("ackWait") \/ NotFound => ~Heard(s) /\ ~Comes(s)
            /\ Heard(s) => ~Comes(s)
            /\ \A p, q \in 1..MaxStreams : \A i \in 1..Len(up[p]), j \in 1..Len(up[q]) :
                  Says(s, up[p][i]) /\ Says(s, up[q][j]) => p = q /\ i = j
        BY <2>1, <3>1, <3>3 DEF Unheard
      <3>4. NotFound' => NotFound
        <4>1. ASSUME NotFound', ~NotFound PROVE FALSE
          <5>1. stream = r /\ kind = "session_not_found"
            <6>1. stream \in 0..MaxStreams
              BY <1>4 DEF Base, TypeOK
            <6>2. stream # 0 => stream \in 1..MaxStreams
              BY <6>1, Limits
            <6>3. PICK h \in In(down'[stream]) : stream # 0 /\ h.kind = "session_not_found"
              BY <2>2, <4>1 DEF NotFound
            <6>4. h \notin In(down[stream])
              BY <4>1, <6>3 DEF NotFound
            <6> QED BY <1>2, <1>7, <6>2, <6>3, <6>4
          <5>2. f.s \in gone /\ f.kind = "submit"
            BY <2>6, <5>1
          <5>3. f.s = s
            BY <2>4, <3>3, <5>1
          <5>4. Heard(s)
            BY <1>4, <5>2, <5>3 DEF GoneHeard
          <5>5. Comes(s)
            BY <2>9, <3>3, <5>2, <5>3 DEF Says
          <5> QED BY <3>2, <5>4, <5>5
        <4> QED BY <4>1
      <3>5. ~At("ackWait")' \/ NotFound' => ~Heard(s)' /\ ~Comes(s)'
        BY <1>6, <2>3, <2>8, <2>9, <3>2, <3>3, <3>4
      <3>6. ASSUME Heard(s)', Comes(s)' PROVE FALSE
        <4>1. Comes(s)
          BY <2>8, <3>3, <3>6
        <4>2. Says(s, f)
          BY <1>6, <3>2, <3>3, <3>6, <4>1
        <4>3. PICK q \in 1..MaxStreams : \E i \in 1..Len(up'[q]) : Says(s, up'[q][i])
          BY <3>6 DEF Comes, In
        <4>4. PICK i \in 1..Len(up'[q]) : Says(s, up'[q][i])
          BY <4>3
        <4>5. CASE q # r
          <5>1. i \in 1..Len(up[q]) /\ Says(s, up[q][i])
            BY <1>1, <4>4, <4>5
          <5> QED BY <1>1, <3>2, <4>2, <4>5, <5>1
        <4>6. CASE q = r
          <5>1. i + 1 \in 1..Len(up[r]) /\ Says(s, up[r][i + 1])
            BY <1>1, <4>4, <4>6
          <5>2. i + 1 = 1
            BY <1>1, <3>2, <4>2, <5>1
          <5> QED BY <1>1, <4>4, <4>6, <5>2
        <4> QED BY <4>5, <4>6
      <3>7. ASSUME NEW p \in 1..MaxStreams, NEW q \in 1..MaxStreams,
                   NEW i \in 1..Len(up'[p]), NEW j \in 1..Len(up'[q]),
                   Says(s, up'[p][i]), Says(s, up'[q][j])
            PROVE  p = q /\ i = j
        <4>1. \E a \in 1..Len(up[p]) : Says(s, up[p][a]) /\ a = IF p = r THEN i + 1 ELSE i
          BY <1>1, <3>7
        <4>2. \E b \in 1..Len(up[q]) : Says(s, up[q][b]) /\ b = IF q = r THEN j + 1 ELSE j
          BY <1>1, <3>7
        <4>3. PICK a \in 1..Len(up[p]) : Says(s, up[p][a]) /\ a = IF p = r THEN i + 1 ELSE i
          BY <4>1
        <4>4. PICK b \in 1..Len(up[q]) : Says(s, up[q][b]) /\ b = IF q = r THEN j + 1 ELSE j
          BY <4>2
        <4>5. p = q /\ a = b
          BY <3>2, <4>3, <4>4
        <4>6. i \in Nat /\ j \in Nat
          <5>1. Len(up'[p]) \in Nat /\ Len(up'[q]) \in Nat
            BY <1>1
          <5> QED BY <5>1
        <4> QED BY <4>3, <4>4, <4>5, <4>6
      <3> QED BY <3>3, <3>5, <3>6, <3>7 DEF Unheard, Says
    <2>12. Unheard'
      BY <2>11 DEF Unheard
    <2> QED BY <2>5, <2>7, <2>10, <2>12
  <1>12. (ghost => crossed)' /\ crossed' = crossed
    BY <1>4
  <1> QED BY <1>8, <1>9, <1>10, <1>11, <1>12 DEF Inv

\* The frames a stream carries are of the two kinds, on sessions there are.
LEMMA HeadFacts ==
    ASSUME Inv, NEW r \in 1..MaxStreams, up[r] # << >>
    PROVE  /\ Head(up[r]).s \in Session /\ Head(up[r]).kind \in {"record", "submit"}
           /\ Head(up[r]).kind = "submit" => Head(up[r]).l \in Leaf
  <1>1. up[r] \in Seq(UpFrame)
    BY DEF Inv, Base, TypeOK
  <1>2. Head(up[r]) \in UpFrame /\ Head(up[r]) \in In(up[r])
    BY <1>1, InTail
  <1> QED BY <1>2 DEF UpFrame, Inv, Base, FramesOK

LEMMA RelayRecordOK == ASSUME Inv, NEW r \in 1..MaxStreams, RelayRecord(r) PROVE Inv'
  <1> DEFINE f == Head(up[r])
  <1>1. /\ up[r] # << >> /\ f.kind = "record"
        /\ UNCHANGED <<chain, clientVars, opened, shut, gone, log, crossed, ghost>>
    BY DEF RelayRecord
  <1>2. f.s \in Session /\ Orders(f)
    BY <1>1, HeadFacts DEF Orders
  <1>3. known \subseteq Session /\ refused \subseteq Session /\ faults \in 0..MaxFaults
    BY DEF Inv, Base, TypeOK
  <1>4. CASE /\ RelayAnswer(r, "assignment_ok", 0) /\ f.s \notin refused
             /\ known' = known \cup {f.s} /\ UNCHANGED <<refused, faults>>
    <2>1. known \subseteq known' /\ refused \subseteq refused' /\ known' \subseteq Session
          /\ refused' \subseteq Session /\ f.s \in known' /\ faults' \in 0..MaxFaults
      BY <1>2, <1>3, <1>4
    <2> QED BY <1>1, <1>2, <1>4, <2>1, RelayStepOK
  <1>5. CASE /\ f.s \notin known
             /\ IF f.s \in refused THEN UNCHANGED faults ELSE Fault
             /\ RelayAnswer(r, "assignment_invalid", 0)
             /\ refused' = refused \cup {f.s} /\ UNCHANGED known
    <2>1. known \subseteq known' /\ refused \subseteq refused' /\ known' \subseteq Session
          /\ refused' \subseteq Session /\ f.s \in refused'
      BY <1>2, <1>3, <1>5
    <2>2. faults' \in 0..MaxFaults
      BY <1>3, <1>5, Limits DEF Fault
    <2> QED BY <1>1, <1>2, <1>5, <2>1, <2>2, RelayStepOK
  <1> QED BY <1>4, <1>5 DEF RelayRecord

LEMMA RelaySubmitOK == ASSUME Inv, NEW r \in 1..MaxStreams, RelaySubmit(r) PROVE Inv'
  <1> DEFINE f == Head(up[r])
  <1>1. /\ up[r] # << >> /\ f.kind = "submit"
        /\ UNCHANGED <<chain, clientVars, opened, shut, known, gone, refused, crossed, ghost>>
    BY DEF RelaySubmit
  <1>2. f.s \in Session /\ f.l \in Leaf
    BY <1>1, HeadFacts
  <1>3. /\ known' \subseteq Session /\ refused' \subseteq Session /\ faults \in 0..MaxFaults
        /\ known \subseteq known' /\ refused \subseteq refused' /\ log \in Seq(Leaf)
    BY <1>1 DEF Inv, Base, TypeOK
  <1>4. CASE /\ f.s \in known /\ log' = Append(log, f.l) /\ RelayAnswer(r, "ack", Len(log'))
             /\ UNCHANGED faults
    <2> DEFINE n == Len(log')
    <2>1. n \in Nat /\ n \in 1..Len(log') /\ log'[n] = f.l
      BY <1>2, <1>3, <1>4
    <2>2. Orders(f)
      BY <1>1, <1>4 DEF Orders
    <2>3. RelayAnswer(r, "ack", n)
      BY <1>4
    <2> HIDE DEF n
    <2> QED BY <1>1, <1>3, <1>4, <2>1, <2>2, <2>3, RelayStepOK
  <1>5. CASE /\ f.s \notin known
             /\ RelayAnswer(r, "session_not_found", 0) /\ UNCHANGED <<log, faults>>
    <2>1. Orders(f)
      BY <1>5 DEF Orders
    <2> QED BY <1>1, <1>3, <1>5, <2>1, RelayStepOK
  <1>6. CASE /\ Fault /\ RelayAnswer(r, "rate_limited", 0) /\ UNCHANGED log
    <2>1. Orders(f) /\ faults' \in 0..MaxFaults
      BY <1>3, <1>6, Limits DEF Orders, Fault
    <2> QED BY <1>1, <1>3, <1>6, <2>1, RelayStepOK
  <1> QED BY <1>4, <1>5, <1>6 DEF RelaySubmit

LEMMA RelayDestroyOK == ASSUME Inv, NEW s \in Session, RelayDestroy(s) PROVE Inv'
  <1>1. /\ s \in known /\ Heard(s) /\ Fault
        /\ known' = known \ {s} /\ gone' = gone \cup {s}
        /\ UNCHANGED <<chain, clientVars, opened, shut, up, down, refused, log, crossed, ghost>>
    BY DEF RelayDestroy, Heard
  <1>2. known' \cup gone' = known \cup gone /\ gone \subseteq gone'
    BY <1>1
  <1>3. Cur' = Cur /\ \A ph \in Phase : At(ph)' <=> At(ph)
    BY <1>1 DEF Cur, At
  <1>4. faults' \in 0..MaxFaults
    BY <1>1, ClientFacts, Limits DEF Fault
  <1>5. Base'
    <2>1. TypeOK'
      BY <1>1, <1>4 DEF Inv, Base, TypeOK, clientVars
    <2>2. WorkOK' /\ CurOK' /\ FramesOK'
      BY <1>1 DEF Inv, Base, WorkOK, CurOK, FramesOK, At, Cur, clientVars
    <2> QED BY <2>1, <2>2 DEF Base
  <1>6. Attested'
    BY <1>1, <1>2, <1>3 DEF Inv, Attested, OkIsOrdered, At, Cur, clientVars
  <1>7. GoneHeard'
    BY <1>1 DEF Inv, GoneHeard, Heard
  <1>8. ASSUME ~crossed
        PROVE  Matched' /\ Told' /\ Spoke' /\ Unheard'
    <2>1. Matched /\ Told /\ Spoke /\ Unheard
      BY <1>8 DEF Inv
    <2>2. Matched'
      BY <1>1, <2>1 DEF Matched, Pending, At, Cur, clientVars
    <2>3. Told'
      BY <1>1, <1>2, <2>1 DEF Told, At, Cur, clientVars
    <2>4. Spoke'
      BY <1>1, <2>1 DEF Spoke, Heard, Comes, clientVars
    <2>5. Unheard'
      BY <1>1, <2>1 DEF Unheard, Fresh, NotFound, At, Cur, Heard, Comes, clientVars
    <2> QED BY <2>2, <2>3, <2>4, <2>5
  <1>9. (ghost => crossed)' /\ crossed' = crossed
    BY <1>1 DEF Inv
  <1> QED BY <1>5, <1>6, <1>7, <1>8, <1>9 DEF Inv

\* A stream that breaks loses frames, and takes none from another.
LEMMA BreakOK == ASSUME Inv, NEW r \in 1..MaxStreams, Break(r) PROVE Inv'
  <1>1. /\ r \in 1..opened /\ Fault /\ shut' = shut \cup {r}
        /\ up' \in {up, [up EXCEPT ![r] = << >>]} /\ down' \in {down, [down EXCEPT ![r] = << >>]}
        /\ UNCHANGED <<chain, clientVars, opened, relayVars, crossed, ghost>>
    BY DEF Break
  <1>2. up \in [1..MaxStreams -> Seq(UpFrame)] /\ down \in [1..MaxStreams -> Seq(DownFrame)]
    BY DEF Inv, Base, TypeOK
  <1>3. /\ up' \in [1..MaxStreams -> Seq(UpFrame)] /\ down' \in [1..MaxStreams -> Seq(DownFrame)]
        /\ \A q \in 1..MaxStreams : /\ up'[q] = up[q] \/ up'[q] = << >>
                                    /\ down'[q] = down[q] \/ down'[q] = << >>
    <2>1. << >> \in Seq(UpFrame) /\ << >> \in Seq(DownFrame)
      OBVIOUS
    <2>2. /\ up' \in [1..MaxStreams -> Seq(UpFrame)]
          /\ \A q \in 1..MaxStreams : up'[q] = up[q] \/ up'[q] = << >>
      BY <1>1, <1>2, <2>1
    <2>3. /\ down' \in [1..MaxStreams -> Seq(DownFrame)]
          /\ \A q \in 1..MaxStreams : down'[q] = down[q] \/ down'[q] = << >>
      BY <1>1, <1>2, <2>1
    <2> QED BY <2>2, <2>3
  <1>4. \A q \in 1..MaxStreams : In(up'[q]) \subseteq In(up[q]) /\ In(down'[q]) \subseteq In(down[q])
    BY <1>3, InEmpty
  <1>5. Cur' = Cur
    BY <1>1 DEF Cur
  <1>6. faults' \in 0..MaxFaults
    BY <1>1, ClientFacts, Limits DEF Fault
  <1>7. Base'
    <2>1. TypeOK'
      BY <1>1, <1>3, <1>6 DEF Inv, Base, TypeOK, clientVars, relayVars
    <2>2. FramesOK'
      BY <1>1, <1>3, <1>4 DEF Inv, Base, FramesOK, clientVars
    <2>3. WorkOK' /\ CurOK'
      BY <1>1 DEF Inv, Base, WorkOK, CurOK, At, Cur, clientVars
    <2> QED BY <2>1, <2>2, <2>3 DEF Base
  <1>8. Attested' /\ GoneHeard'
    <2>1. Attested /\ GoneHeard
      BY DEF Inv
    <2>2. OkIsOrdered' /\ GoneHeard'
      BY <1>1, <2>1 DEF Attested, OkIsOrdered, GoneHeard, Heard, clientVars, relayVars
    <2>3. (At("ackWait") /\ Cur.why = "ok" => Cur.n \in 1..Len(log) /\ log[Cur.n] = Cur.l)'
      BY <1>1, <2>1 DEF Attested, At, Cur, relayVars
    <2>4. (\A q \in 1..MaxStreams : \A f \in In(down[q]) :
             /\ f.kind = "ack" => f.n \in 1..Len(log) /\ log[f.n] = f.l
             /\ f.kind = "assignment_ok" => f.s \in known \cup gone
             /\ f.kind = "assignment_invalid" => f.s \in refused)'
      BY <1>1, <1>4, <2>1 DEF Attested, relayVars
    <2> QED BY <2>2, <2>3, <2>4 DEF Attested
  <1>9. ASSUME ~crossed
        PROVE  Matched' /\ Told' /\ Spoke' /\ Unheard'
    <2>1. Matched /\ Told /\ Spoke /\ Unheard
      BY <1>9 DEF Inv
    <2>2. stream' = stream /\ (stream # 0 => stream \in 1..MaxStreams)
          /\ (Pending' <=> Pending) /\ \A ph \in Phase : At(ph)' <=> At(ph)
      BY <1>1, ClientFacts, Limits DEF clientVars, Pending, At, Cur
    <2>3. /\ At("ackWait")' <=> At("ackWait")
          /\ At("recWait")' <=> At("recWait")
          /\ At("sign")' <=> At("sign")
      BY <2>2 DEF Phase
    <2>4. Matched'
      <3>1. ASSUME stream # 0
            PROVE  /\ up'[stream] = << >> \/ (Len(up'[stream]) = 1 /\ down'[stream] = << >>)
                   /\ Len(down'[stream]) <= 1
        <4>1. /\ up[stream] = << >> \/ (Len(up[stream]) = 1 /\ down[stream] = << >>)
              /\ Len(down[stream]) <= 1
          BY <2>1, <3>1 DEF Matched
        <4>2. /\ up'[stream] = up[stream] \/ up'[stream] = << >>
              /\ down'[stream] = down[stream] \/ down'[stream] = << >>
          BY <1>3, <2>2, <3>1
        <4> QED BY <4>1, <4>2
      <3>2. ASSUME stream # 0
            PROVE  In(up'[stream]) \subseteq In(up[stream]) /\ In(down'[stream]) \subseteq In(down[stream])
        BY <1>4, <2>2, <3>2
      <3> QED BY <1>1, <1>5, <2>1, <2>2, <2>3, <3>1, <3>2 DEF Matched
    <2>5. Told'
      <3>1. (stream # 0 => \A f \in In(down[stream]) : f.kind = "session_not_found" => f.s \in gone)'
        BY <1>1, <1>4, <2>1, <2>2 DEF Told, relayVars
      <3> QED BY <1>1, <1>5, <2>1, <2>3, <3>1 DEF Told, clientVars, relayVars
    <2>6. \A s \in Session : (Heard(s)' <=> Heard(s)) /\ (Comes(s)' => Comes(s))
      BY <1>1, <1>4 DEF Heard, Comes, relayVars
    <2>7. Spoke'
      BY <1>1, <2>1, <2>6 DEF Spoke, clientVars
    <2>8. NotFound' => NotFound
      BY <1>4, <1>5, <2>2 DEF NotFound
    <2>9. ASSUME Fresh' PROVE Unheard'
      <3>1. Fresh /\ Cur.s \in Session
        BY <1>1, <1>5, <2>9, CurRegistered DEF Fresh, At
      <3>2. PICK s \in Session : s = Cur.s /\ s = Cur'.s
        BY <1>5, <3>1
      <3>3. /\ ~At("ackWait") \/ NotFound => ~Heard(s) /\ ~Comes(s)
            /\ Heard(s) => ~Comes(s)
            /\ \A p, q \in 1..MaxStreams : \A i \in 1..Len(up[p]), j \in 1..Len(up[q]) :
                  Says(s, up[p][i]) /\ Says(s, up[q][j]) => p = q /\ i = j
        BY <2>1, <3>1, <3>2 DEF Unheard
      <3>4. \A q \in 1..MaxStreams : \A i \in 1..Len(up'[q]) :
               i \in 1..Len(up[q]) /\ up'[q][i] = up[q][i]
        <4>1. Len(<< >>) = 0 /\ 1..0 = {}
          OBVIOUS
        <4> QED BY <1>3, <4>1
      <3>5. /\ (~At("ackWait") \/ NotFound)' => ~Heard(s)' /\ ~Comes(s)'
            /\ Heard(s)' => ~Comes(s)'
        BY <2>3, <2>6, <2>8, <3>3
      <3>6. \A p, q \in 1..MaxStreams : \A i \in 1..Len(up'[p]), j \in 1..Len(up'[q]) :
               Says(s, up'[p][i]) /\ Says(s, up'[q][j]) => p = q /\ i = j
        BY <3>3, <3>4
      <3> QED BY <3>2, <3>5, <3>6 DEF Unheard, Says
    <2>10. Unheard'
      BY <2>9 DEF Unheard
    <2> QED BY <2>4, <2>5, <2>7, <2>10
  <1>10. (ghost => crossed)' /\ crossed' = crossed
    BY <1>1 DEF Inv
  <1> QED BY <1>7, <1>8, <1>9, <1>10 DEF Inv

-----------------------------------------------------------------------------
(* Theorems.                                                               *)

LEMMA InitInv == Init => Inv
  <1> SUFFICES ASSUME Init PROVE Inv
    OBVIOUS
  <1>1. /\ chain = << >> /\ stream = 0 /\ opened = 0 /\ log = << >> /\ known = {} /\ gone = {}
        /\ recorded = {} /\ rejected = {} /\ ~ghost /\ ~crossed
        /\ \A r \in 1..MaxStreams : up[r] = << >> /\ down[r] = << >>
        /\ \A l \in Leaf : result[l].why = "new"
    BY DEF Init
  <1>2. \A ph \in Phase : ~At(ph)
    BY <1>1 DEF At
  <1>3. ~At("ackWait") /\ ~At("recWait") /\ ~At("sign")
    BY <1>2 DEF Phase
  <1>4. TypeOK
    <2>1. << >> \in Seq(Work) /\ << >> \in Seq(UpFrame) /\ << >> \in Seq(DownFrame)
          /\ << >> \in Seq(Leaf)
      OBVIOUS
    <2>2. /\ up \in [1..MaxStreams -> Seq(UpFrame)] /\ down \in [1..MaxStreams -> Seq(DownFrame)]
          /\ result \in [Leaf -> [why : Reasons \cup {"new", "queued"}, n : Nat]]
      BY <2>1 DEF Init
    <2>3. {closed, crossed, ghost} \subseteq BOOLEAN /\ {known, gone, refused} \subseteq SUBSET Session
      BY DEF Init
    <2> QED BY <2>1, <2>2, <2>3, Limits DEF Init, TypeOK
  <1>5. WorkOK /\ CurOK
    BY <1>1 DEF WorkOK, CurOK
  <1>6. FramesOK
    BY <1>1, InEmpty DEF FramesOK
  <1>7. Attested /\ GoneHeard
    BY <1>1, <1>3, InEmpty DEF Attested, OkIsOrdered, GoneHeard
  <1>8. Matched /\ Told
    BY <1>1, <1>3 DEF Matched, Told
  <1>9. Spoke /\ Unheard
    <2>1. \A s : ~Heard(s)
      BY <1>1 DEF Heard
    <2>2. \A s : ~Comes(s)
      BY <1>1, InEmpty DEF Comes
    <2>3. ~Fresh
      BY <1>1 DEF Fresh
    <2> QED BY <2>1, <2>2, <2>3 DEF Spoke, Unheard
  <1> QED BY <1>1, <1>4, <1>5, <1>6, <1>7, <1>8, <1>9 DEF Inv, Base

LEMMA NextInv == Inv /\ [Next]_vars => Inv'
  <1> SUFFICES ASSUME Inv, [Next]_vars PROVE Inv'
    OBVIOUS
  <1>1. CASE UNCHANGED vars
    <2>1. /\ UNCHANGED <<chain, clientVars, opened, shut, up, down, relayVars, faults, crossed, ghost>>
          /\ Cur' = Cur
      BY <1>1 DEF vars, Cur
    <2>2. Base'
      BY <2>1 DEF Inv, Base, TypeOK, WorkOK, CurOK, FramesOK, At, clientVars, relayVars
    <2>3. Attested' /\ GoneHeard'
      BY <2>1 DEF Inv, Attested, OkIsOrdered, GoneHeard, Heard, At, clientVars, relayVars
    <2>4. (~crossed => Matched /\ Told /\ Spoke)'
      BY <2>1 DEF Inv, Matched, Told, Spoke, Heard, Comes, Pending, At, clientVars, relayVars
    <2>5. (~crossed => Unheard)'
      BY <2>1 DEF Inv, Unheard, Fresh, NotFound, Heard, Comes, At, clientVars, relayVars
    <2>6. (ghost => crossed)'
      BY <2>1 DEF Inv
    <2> QED BY <2>2, <2>3, <2>4, <2>5, <2>6 DEF Inv
  <1>2. ASSUME NEW s \in Session, RegisterSession(s) \/ RelayDestroy(s) PROVE Inv'
    BY <1>2, RegisterSessionOK, RelayDestroyOK
  <1>3. ASSUME NEW l \in Leaf, SubmitLeaf(l) PROVE Inv'
    BY <1>3, SubmitLeafOK
  <1>4. CASE ClientStep
    BY <1>4, BeginOK, ConnectedOK, ThrottleOverOK, DoRecordOK, RecordTimeoutOK, RecordAnsweredOK,
       CaptureStreamOK, SendLeafOK, AckTimeoutOK, SubmitAnsweredOK DEF ClientStep
  <1>5. CASE Connect \/ Close
    BY <1>5, ConnectOK, CloseOK
  <1>6. ASSUME NEW r \in 1..MaxStreams,
               Dispatch(r) \/ ReaderEnd(r) \/ RelayRecord(r) \/ RelaySubmit(r) \/ Break(r)
        PROVE  Inv'
    BY <1>6, DispatchOK, ReaderEndOK, RelayRecordOK, RelaySubmitOK, BreakOK
  <1> QED BY <1>1, <1>2, <1>3, <1>4, <1>5, <1>6 DEF Next

\* The invariant holds of every behaviour, whatever the sessions, leaves, limits and bounds
\* are: AgentRelayClient with its chain, its streams and their readers.
THEOREM Invariance == Spec => []Inv
  BY InitInv, NextInv, PTL DEF Spec

\* Every variable of the client, the network and the relay keeps its type.
THEOREM TypeCorrect == Spec => []TypeOK
  <1>1. Inv => TypeOK
    BY DEF Inv, Base
  <1> QED BY <1>1, Invariance, PTL

\* A leaf whose submit resolves ok is in the relay's order at the position its caller is
\* told, whichever acknowledgement settled it: captureReceipt checks what the relay signed
\* against the leaf that is pending.
THEOREM OkOrdered == Spec => []OkIsOrdered
  <1>1. Inv => OkIsOrdered
    BY DEF Inv, Attested
  <1> QED BY <1>1, Invariance, PTL

\* While no reader of a replaced stream has interfered, a session that the relay has
\* destroyed is never presented to it again: doSubmit presents a session anew only if it
\* was not recorded before (recordedBefore), and then the relay has not heard of it.
THEOREM GhostCrossed == Spec => []GhostOnlyIfCrossed
  <1>1. Inv => GhostOnlyIfCrossed
    BY DEF Inv, GhostOnlyIfCrossed
  <1> QED BY <1>1, Invariance, PTL

\* Until then the answers on the current stream are for the work that is pending, through
\* timeouts, breaks, retries and reconnects: #resetStream drops every answer that may be
\* late along with its stream.
THEOREM MatchingKept == Spec => []AlignedUnlessCrossed
  <1>1. ASSUME Inv, ~crossed PROVE Aligned
    <2>1. Matched /\ TypeOK
      BY <1>1 DEF Inv, Base
    <2> SUFFICES ASSUME stream # 0, NEW i \in 1..Len(down[stream])
                 PROVE  LET f == down[stream][i]
                        IN  /\ i = 1 /\ Pending /\ f.s = Cur.s
                            /\ IF f.kind \in {"assignment_ok", "assignment_invalid"} THEN At("recWait")
                               ELSE At("ackWait") /\ f.l = Cur.l
      BY DEF Aligned
    <2>2. stream \in 1..MaxStreams
      BY <2>1, Limits DEF TypeOK
    <2>3. Len(down[stream]) \in Nat /\ Len(down[stream]) <= 1
      BY <2>1, <2>2 DEF Matched, TypeOK
    <2>4. i = 1
      BY <2>3
    <2>5. down[stream][i] \in In(down[stream])
      BY DEF In
    <2> QED BY <2>1, <2>4, <2>5 DEF Matched, Kinds
  <1>2. Inv => AlignedUnlessCrossed
    BY <1>1 DEF AlignedUnlessCrossed
  <1> QED BY <1>2, Invariance, PTL

\* And until then the client believes of a session only what the relay said of it: what it
\* holds recorded the relay has known, what it holds rejected the relay refused, and the
\* caller that is told relay_session_gone asked for a session that is gone.
THEOREM AnswersTrue == Spec => []AnswersAreTrue
  <1>1. Inv => AnswersAreTrue
    BY DEF Inv, Told, AnswersAreTrue
  <1> QED BY <1>1, Invariance, PTL

=============================================================================
