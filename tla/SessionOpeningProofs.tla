------------------------ MODULE SessionOpeningProofs ------------------------
(***************************************************************************)
(* Proofs about SessionOpening for any sessions, receivers and events.     *)
(*                                                                         *)
(* The accept chain is the sessions that are being accepted, each once,    *)
(* and only its head is past the queue (Chained).  A node that a session   *)
(* has, or is about to have, is its alone and admits its peer alone, until *)
(* two promotions or a reservation interfere (Owned).  What an agent that  *)
(* is offline still has under way was so when it was stopped, or began     *)
(* over a receiver that was (Resting).  While no stop has overtaken a      *)
(* promotion, every node that runs is accounted for (Counted).             *)
(***************************************************************************)
EXTENDS SessionOpening, TLAPS

-----------------------------------------------------------------------------
(* The invariant.                                                          *)

\* A session that has a node, or a promotion that has read one.
Holds(s) == step[s] = "evict" \/ s \in live

\* Nodes that sessions and offers name were built; an offer names its own dialer or another.
Places ==
    /\ recv <= built
    /\ \A s \in Session : Holds(s) => node[s] \in 1..built
    /\ \A s \in live : step[s] \in {"handlers", "done"}
    /\ \A s \in Inbound : /\ asked[s] # NoAsk => asked[s].node \in 1..built
                          /\ {offered[s], asked[s].dialer} \subseteq {None, s, Other}

\* The head of the accept chain is being accepted, the rest of it waits.
Chained ==
    /\ \A s \in Inbound : /\ s \in Range(chain) <=> step[s] \notin {"none", "done"}
                          /\ step[s] \in {"receiver", "params", "evict", "handlers"} =>
                                chain # << >> /\ s = Head(chain)
                          /\ step[s] \notin {"connect", "asked", "dial"}
    /\ \A s \in Outbound : step[s] \notin {"queued", "receiver", "params"}
    /\ Range(chain) \subseteq inFlight

\* What was announced, or is about to be told, has been opened.
Announced ==
    /\ \A s \in Range(queue) \cup told : step[s] = "done"
    /\ \A s \in Session : step[s] = "handlers" => row[s] # "none"
    /\ \A s \in Inbound : step[s] = "done" => row[s] # "none"
    /\ AnnouncedOnce

\* Nodes belong to one session each, and their gates admit its peer.
Owned ==
    /\ \A s, t \in Session : Holds(s) /\ Holds(t) /\ node[s] = node[t] => s = t
    /\ \A s \in live : node[s] # recv
    /\ \A s \in Session : Holds(s) => gate[node[s]] = s
    /\ \A s \in Inbound : step[s] = "evict" /\ node[s] = recv => offered[s] = None
    /\ creating # "no" => recv = 0

\* Nodes that run are the receiver or a session's.
Counted ==
    /\ \A s \in Session : Holds(s) => node[s] \notin stopped
    /\ \A s \in Session : step[s] = "evict" => node[s] = recv
    /\ recv \notin stopped
    /\ \A n \in 1..built : n \in stopped \/ n = recv \/ \E s \in Session : Holds(s) /\ node[s] = n

\* An agent that is offline: it wants no receiver, and what moves was overtaken by the stop.
Resting ==
    ~online =>
        /\ ~wants
        /\ \A s \in Session : step[s] \notin {"none", "queued", "done"} => s \in overtaken
        /\ \/ raced \/ overtaken # {}
           \/ /\ recv = 0 /\ (creating # "no" => removing)
              /\ \A s \in Inbound : asked[s] = NoAsk
        /\ stopping \/ live \subseteq overtaken

Inv ==
    /\ TypeOK /\ Places /\ Chained /\ Announced /\ Resting
    /\ ~raced => Owned
    /\ ~raced /\ ~late => Counted

-----------------------------------------------------------------------------
(* Queues and constants.                                                   *)

LEMMA Limits == Tries \in Nat /\ MaxNodes \in Nat /\ MaxEvents \in Nat /\ MaxWaiters \in Nat
  BY OpeningAssumption

LEMMA Apart ==
    /\ \A s \in Session : s # None /\ s # Other /\ (s \in Inbound <=> s \notin Outbound)
    /\ Other # None /\ Inbound \subseteq Session /\ Outbound \subseteq Session
  BY OpeningAssumption DEF Session

LEMMA RangeSeq ==
    ASSUME NEW S, NEW q \in Seq(S)
    PROVE  Range(q) = {q[i] : i \in 1..Len(q)} /\ Range(q) \subseteq S
           /\ (q # << >> => Head(q) = q[1] /\ 1 \in 1..Len(q) /\ Head(q) \in Range(q))
           /\ (IsInjective(q) <=> \A i, j \in 1..Len(q) : q[i] = q[j] => i = j)
  <1>1. DOMAIN q = 1..Len(q)
    OBVIOUS
  <1>2. q # << >> => Head(q) = q[1] /\ 1 \in 1..Len(q)
    OBVIOUS
  <1> QED BY <1>1, <1>2 DEF Range, IsInjective

\* A session joins the chain.
LEMMA RangeAppend ==
    ASSUME NEW S, NEW q \in Seq(S), IsInjective(q), NEW e \in S, e \notin Range(q)
    PROVE  /\ Append(q, e) \in Seq(S) /\ IsInjective(Append(q, e))
           /\ Range(Append(q, e)) = Range(q) \cup {e} /\ Append(q, e) # << >>
           /\ q # << >> => Head(Append(q, e)) = Head(q)
  <1> DEFINE r == Append(q, e)
  <1>1. /\ r \in Seq(S) /\ Len(r) = Len(q) + 1 /\ r[Len(q) + 1] = e /\ r # << >>
        /\ \A i \in 1..Len(q) : r[i] = q[i]
        /\ Len(q) \in Nat
    OBVIOUS
  <1> HIDE DEF r
  <1>2. \A i \in 1..Len(r) : i \in 1..Len(q) \/ i = Len(q) + 1
    BY <1>1
  <1>3. Range(r) = Range(q) \cup {e}
    <2>1. Len(q) + 1 \in 1..Len(r) /\ \A i \in 1..Len(q) : i \in 1..Len(r)
      BY <1>1
    <2> QED BY <1>1, <1>2, <2>1, RangeSeq
  <1>4. IsInjective(r)
    <2>1. \A i \in 1..Len(q) : q[i] # e
      BY RangeSeq
    <2>2. \A i, j \in 1..Len(q) : q[i] = q[j] => i = j
      BY RangeSeq
    <2>3. \A i, j \in 1..Len(r) : r[i] = r[j] => i = j
      BY <1>1, <1>2, <2>1, <2>2
    <2> QED BY <1>1, <2>3, RangeSeq
  <1>5. q # << >> => Head(r) = Head(q)
    BY <1>1, RangeSeq
  <1> QED BY <1>1, <1>3, <1>4, <1>5 DEF r

\* What is left behind position i.
LEMMA RangeRest ==
    ASSUME NEW S, NEW q \in Seq(S), IsInjective(q), NEW i \in 1..Len(q)
    PROVE  LET r == SubSeq(q, i + 1, Len(q))
           IN  /\ r \in Seq(S) /\ IsInjective(r) /\ Range(r) = {q[j] : j \in (i + 1)..Len(q)}
               /\ q[i] \notin Range(r) /\ Range(r) \subseteq Range(q)
  <1> DEFINE r == SubSeq(q, i + 1, Len(q))
             k == Len(q) - i
  <1>1. Len(q) \in Nat /\ i \in Nat /\ i <= Len(q) /\ k \in Nat
    OBVIOUS
  <1>2. r \in Seq(S) /\ Len(r) = k /\ \A j \in 1..k : r[j] = q[i + j]
    BY <1>1
  <1>3. \A j \in 1..k : i + j \in (i + 1)..Len(q) /\ i + j \in 1..Len(q) /\ i + j # i
    BY <1>1
  <1>4. \A j \in (i + 1)..Len(q) : j - i \in 1..k /\ i + (j - i) = j /\ j \in 1..Len(q)
    BY <1>1
  <1>5. \A a, b \in 1..k : i + a = i + b => a = b
    BY <1>1
  <1> HIDE DEF r, k
  <1>6. \A a, b \in 1..Len(q) : q[a] = q[b] => a = b
    BY RangeSeq
  <1>7. IsInjective(r)
    <2>1. \A a, b \in 1..Len(r) : r[a] = r[b] => a = b
      BY <1>2, <1>3, <1>5, <1>6
    <2> QED BY <1>2, <2>1, RangeSeq
  <1>8. Range(r) = {q[j] : j \in (i + 1)..Len(q)}
    <2>1. Range(r) = {r[j] : j \in 1..k}
      BY <1>2, RangeSeq
    <2>2. \A j \in 1..k : r[j] \in {q[a] : a \in (i + 1)..Len(q)}
      BY <1>2, <1>3
    <2>3. \A a \in (i + 1)..Len(q) : q[a] \in {r[j] : j \in 1..k}
      <3> SUFFICES ASSUME NEW a \in (i + 1)..Len(q) PROVE q[a] \in {r[j] : j \in 1..k}
        OBVIOUS
      <3>1. a - i \in 1..k /\ r[a - i] = q[a]
        BY <1>2, <1>4
      <3> QED BY <3>1
    <2> QED BY <2>1, <2>2, <2>3
  <1>9. q[i] \notin Range(r) /\ Range(r) \subseteq Range(q)
    <2>1. Range(r) = {r[j] : j \in 1..k} /\ Range(q) = {q[j] : j \in 1..Len(q)}
      BY <1>2, RangeSeq
    <2> QED BY <1>2, <1>3, <1>6, <2>1
  <1> QED BY <1>2, <1>7, <1>8, <1>9 DEF r

\* The head of the chain leaves it.
LEMMA RangeTail ==
    ASSUME NEW S, NEW q \in Seq(S), IsInjective(q), q # << >>
    PROVE  /\ Tail(q) \in Seq(S) /\ IsInjective(Tail(q))
           /\ Range(Tail(q)) = Range(q) \ {Head(q)} /\ Head(q) \in Range(q) /\ Head(q) \in S
  <1>1. Tail(q) = SubSeq(q, 2, Len(q)) /\ 1 \in 1..Len(q) /\ 1 + 1 = 2 /\ Head(q) = q[1]
    BY RangeSeq
  <1>2. /\ Tail(q) \in Seq(S) /\ IsInjective(Tail(q))
        /\ Range(Tail(q)) = {q[j] : j \in 2..Len(q)}
        /\ q[1] \notin Range(Tail(q)) /\ Range(Tail(q)) \subseteq Range(q)
    <2>1. SubSeq(q, 1 + 1, Len(q)) = Tail(q)
      BY <1>1
    <2>2. LET r == SubSeq(q, 1 + 1, Len(q))
          IN  /\ r \in Seq(S) /\ IsInjective(r) /\ Range(r) = {q[j] : j \in (1 + 1)..Len(q)}
              /\ q[1] \notin Range(r) /\ Range(r) \subseteq Range(q)
      BY <1>1, RangeRest
    <2> QED BY <1>1, <2>1, <2>2
  <1>3. \A j \in 1..Len(q) : j = 1 \/ j \in 2..Len(q)
    BY <1>1
  <1>4. Range(q) = {q[j] : j \in 1..Len(q)} /\ Head(q) \in Range(q) /\ Range(q) \subseteq S
    BY RangeSeq
  <1> QED BY <1>1, <1>2, <1>3, <1>4

-----------------------------------------------------------------------------
(* Types.                                                                  *)

LEMMA Typed ==
    ASSUME TypeOK
    PROVE  /\ online \in BOOLEAN /\ stopping \in BOOLEAN /\ slot \in BOOLEAN /\ wants \in BOOLEAN
           /\ removing \in BOOLEAN /\ raced \in BOOLEAN /\ unheard \in BOOLEAN /\ late \in BOOLEAN
           /\ recv \in 0..MaxNodes /\ built \in 0..MaxNodes /\ recv \in Nat /\ built \in Nat
           /\ \A s \in Session : node[s] \in Nat
           /\ Inbound \subseteq Session /\ Outbound \subseteq Session
  BY Limits, Apart DEF TypeOK

LEMMA Ensured ==
    ASSUME TypeOK, NEW r, Ensure(r)
    PROVE  /\ creating' \in {"no", "start", "pause"} /\ attempt' \in 0..Tries
           /\ removing' \in BOOLEAN
           /\ creating' # "no" => creating # "no" \/ r = 0
  <1>1. removing \in BOOLEAN /\ 0 \in 0..Tries
    BY Typed, Limits
  <1>2. removing' \in BOOLEAN
    BY <1>1 DEF Ensure
  <1>3. creating' \in {"no", "start", "pause"} /\ attempt' \in 0..Tries
    BY <1>1 DEF Ensure, TypeOK
  <1>4. creating' # "no" => creating # "no" \/ r = 0
    BY DEF Ensure
  <1> QED BY <1>2, <1>3, <1>4

\* The flags, apart.
Flags == {online, stopping, slot, wants, removing, raced, unheard, late} \subseteq BOOLEAN

LEMMA FlagsTyped ==
    ASSUME TypeOK,
           online' \in BOOLEAN \/ UNCHANGED online, stopping' \in BOOLEAN \/ UNCHANGED stopping,
           slot' \in BOOLEAN \/ UNCHANGED slot, wants' \in BOOLEAN \/ UNCHANGED wants,
           removing' \in BOOLEAN \/ UNCHANGED removing, raced' \in BOOLEAN \/ UNCHANGED raced,
           unheard' \in BOOLEAN \/ UNCHANGED unheard, late' \in BOOLEAN \/ UNCHANGED late
    PROVE  Flags'
  <1>1. /\ online \in BOOLEAN /\ stopping \in BOOLEAN /\ slot \in BOOLEAN /\ wants \in BOOLEAN
        /\ removing \in BOOLEAN /\ raced \in BOOLEAN /\ unheard \in BOOLEAN /\ late \in BOOLEAN
    BY Typed
  <1> QED BY <1>1, Zenon DEF Flags

\* Every map of sessions keeps its domain.
Steps == {"none", "queued", "receiver", "params", "connect", "asked", "dial", "evict",
          "handlers", "done"}

LEMMA NoAskTyped == NoAsk \in [node : 0..MaxNodes, dialer : Inbound \cup {Other, None}]
  BY Limits DEF NoAsk

\* The chain as its head leaves it, or not.
LEMMA EndsTyped ==
    ASSUME TypeOK, Chained, NEW s \in Inbound, step[s] \notin {"none", "done"}
    PROVE  /\ chain # << >>
           /\ Tail(chain) \in Seq(Inbound) /\ IsInjective(Tail(chain))
           /\ Range(Tail(chain)) = Range(chain) \ {Head(chain)}
  <1>1. chain \in Seq(Inbound) /\ IsInjective(chain) /\ s \in Range(chain)
    BY DEF TypeOK, Chained
  <1>2. chain # << >>
    BY <1>1 DEF Range
  <1> QED BY <1>1, <1>2, RangeTail

LEMMA ReceiverTyped ==
    ASSUME Inv, Started \/ StartFails \/ Retries \/ SetOffline \/ OfflineSessions \/ StartAgent
    PROVE  TypeOK'
  <1>1. TypeOK /\ Places
    BY DEF Inv
  <1>2. CASE Started
    <2>1. removing' \in BOOLEAN
      BY <1>2 DEF Started
    <2>2. Flags'
      BY <1>1, <1>2, <2>1, FlagsTyped DEF Started, agentVars, flagVars
    <2>3. /\ built + 1 \in 0..MaxNodes /\ recv' \in 0..MaxNodes /\ built' \in 0..MaxNodes
          /\ built' = built + 1 /\ stopped' \subseteq 1..built' /\ attempt' \in 0..Tries
      <3>1. /\ recv \in 0..MaxNodes /\ built \in Nat /\ built < MaxNodes /\ MaxNodes \in Nat
            /\ Tries \in Nat /\ stopped \subseteq 1..built
        BY <1>1, <1>2, Typed, Limits DEF Started, TypeOK
      <3>2. 1..built \cup {built + 1} \subseteq 1..(built + 1) /\ built + 1 \in 0..MaxNodes
        BY <3>1
      <3>3. stopped' \subseteq 1..(built + 1)
        BY <1>2, <3>1, <3>2 DEF Started
      <3> QED BY <1>2, <3>1, <3>2, <3>3 DEF Started
    <2> QED BY <1>1, <1>2, <2>2, <2>3
            DEF TypeOK, Flags, Started, offerVars, acceptVars, sessionVars, toldVars, flagVars
  <1>3. CASE StartFails
    BY <1>1, <1>3, Limits
       DEF TypeOK, StartFails, Event, agentVars, offerVars, acceptVars, sessionVars, toldVars,
           flagVars
  <1>4. CASE Retries
    <2>1. removing' \in BOOLEAN
      BY <1>4 DEF Retries
    <2>2. Flags'
      BY <1>1, <1>4, <2>1, FlagsTyped DEF Retries, agentVars, flagVars
    <2>3. attempt' \in 0..Tries /\ creating' \in {"no", "start", "pause"}
      BY <1>1, <1>4, Limits DEF Retries, TypeOK
    <2> QED BY <1>1, <1>4, <2>2, <2>3
            DEF TypeOK, Flags, Retries, offerVars, acceptVars, sessionVars, toldVars, flagVars
  <1>5. CASE SetOffline
    <2>1. removing' \in BOOLEAN /\ late' \in BOOLEAN
      BY <1>1, <1>5, Typed DEF SetOffline
    <2>2. stopped' \subseteq 1..built
      <3>1. stopped \subseteq 1..built /\ recv <= built /\ recv \in Nat /\ built \in Nat
        BY <1>1, Typed DEF TypeOK, Places
      <3>2. recv # 0 => recv \in 1..built
        BY <3>1
      <3> QED BY <1>5, <3>1, <3>2 DEF SetOffline
    <2>3. online' \in BOOLEAN /\ stopping' \in BOOLEAN /\ wants' \in BOOLEAN
      BY <1>5 DEF SetOffline
    <2>4. Flags'
      BY <1>1, <1>5, <2>1, <2>3, FlagsTyped DEF SetOffline
    <2>5. recv' \in 0..MaxNodes /\ events' \in 0..MaxEvents
      BY <1>1, <1>5, Limits DEF SetOffline, Event, TypeOK
    <2>6. overtaken' \subseteq Session
      BY <1>5, Apart DEF SetOffline
    <2> QED BY <1>1, <1>5, <2>2, <2>4, <2>5, <2>6
            DEF TypeOK, Flags, SetOffline, offerVars, acceptVars, sessionVars, toldVars
  <1>6. CASE OfflineSessions
    <2>1. creating' \in {"no", "start", "pause"} /\ attempt' \in 0..Tries /\ removing' \in BOOLEAN
      BY <1>1, <1>6, Ensured, Typed DEF OfflineSessions, TypeOK
    <2>2. stopped' \subseteq 1..built /\ gate' \in [Node -> Session \cup {Other, None}]
      BY <1>1, <1>6 DEF OfflineSessions, TypeOK, Stop, Places, Holds
    <2>3. /\ row' \in [Session -> {"none", "active", "closed"}]
          /\ node' \in [Session -> 0..MaxNodes]
      BY <1>1, <1>6, Limits DEF OfflineSessions, TypeOK
    <2> QED BY <1>1, <1>6, <2>1, <2>2, <2>3
            DEF TypeOK, OfflineSessions, offerVars, acceptVars, toldVars, flagVars
  <1>7. CASE StartAgent
    <2>1. creating' \in {"no", "start", "pause"} /\ attempt' \in 0..Tries /\ removing' \in BOOLEAN
      BY <1>1, <1>7, Ensured DEF StartAgent
    <2>2. unheard' \in BOOLEAN
      BY <1>1, <1>7, Typed DEF StartAgent
    <2> QED BY <1>1, <1>7, <2>1, <2>2
            DEF TypeOK, StartAgent, offerVars, acceptVars, sessionVars, toldVars
  <1> QED BY <1>2, <1>3, <1>4, <1>5, <1>6, <1>7

LEMMA OfferTyped ==
    ASSUME Inv, NEW s \in Inbound, NEW p \in {s, Other},
           Offer(s, p) \/ Reserved(s) \/ Refuse(s) \/ Assign(s)
    PROVE  TypeOK'
  <1>1. TypeOK /\ Places /\ Chained
    BY DEF Inv
  <1>2. s \in Session /\ p \in Inbound \cup {Other, None} /\ p \in Session \cup {Other, None}
    BY Apart
  <1>3. CASE Offer(s, p)
    <2>1. raced' \in BOOLEAN
      BY <1>1, <1>3, Typed DEF Offer
    <2>2. recv \in Node
      BY <1>1, <1>3, Typed, Limits DEF Offer, Node
    <2>3. CASE Admit(s, p, recv) /\ raced' = (raced \/ BeingTaken(recv)) /\ UNCHANGED asked
      BY <1>1, <1>2, <1>3, <2>1, <2>2, <2>3, Limits
         DEF TypeOK, Offer, Event, Admit, receiverVars, agentVars, acceptVars, sessionVars, toldVars
    <2>4. CASE /\ asked' = [asked EXCEPT ![s] = [node |-> recv, dialer |-> p]]
               /\ UNCHANGED <<gate, offered, raced>>
      BY <1>1, <1>2, <1>3, <2>4, Limits
         DEF TypeOK, Offer, Event, receiverVars, agentVars, acceptVars, sessionVars, toldVars
    <2> QED BY <1>3, <2>3, <2>4 DEF Offer
  <1>4. CASE Reserved(s)
    <2>1. /\ asked[s].node \in 0..MaxNodes /\ asked[s].dialer \in Inbound \cup {Other, None}
          /\ asked[s].dialer \in Session \cup {Other, None} /\ asked[s].node \in 1..built
      BY <1>1, <1>2, <1>4, Apart DEF TypeOK, Places, Reserved
    <2>2. asked[s].node \in Node
      BY <1>1, <2>1, Typed, Limits DEF Node
    <2>3. raced' \in BOOLEAN
      BY <1>1, <1>4, Typed DEF Reserved
    <2>4. asked' \in [Inbound -> [node : 0..MaxNodes, dialer : Inbound \cup {Other, None}]]
      BY <1>1, <1>4, NoAskTyped DEF Reserved, TypeOK
    <2>5. /\ gate' \in [Node -> Session \cup {Other, None}]
          /\ offered' \in [Inbound -> Inbound \cup {Other, None}]
      BY <1>1, <1>4, <2>1, <2>2 DEF Reserved, Admit, TypeOK
    <2> QED BY <1>1, <1>4, <2>1, <2>3, <2>4, <2>5
            DEF TypeOK, Reserved, agentVars, acceptVars, sessionVars, toldVars
  <1>5. CASE Refuse(s)
    <2>1. /\ gate' \in [Node -> Session \cup {Other, None}]
          /\ offered' \in [Inbound -> Inbound \cup {Other, None}]
      BY <1>1, <1>5 DEF Refuse, Revoke, TypeOK
    <2>2. step' \in [Session -> Steps] /\ slot' \in BOOLEAN
      BY <1>1, <1>5, Typed DEF Refuse, Misread, TypeOK, Steps
    <2> QED BY <1>1, <1>5, <2>1, <2>2, Limits
            DEF TypeOK, Steps, Refuse, Event, receiverVars, acceptVars, toldVars, flagVars
  <1>6. CASE Assign(s)
    <2>1. step' \in [Session -> Steps] /\ slot' \in BOOLEAN
      BY <1>1, <1>2, <1>6, Typed DEF Assign, Misread, TypeOK, Steps
    <2>2. s \notin Range(chain)
      BY <1>1, <1>6 DEF Assign, Known, Chained
    <2>3. chain' \in Seq(Inbound) /\ IsInjective(chain')
      BY <1>1, <1>6, <2>2, RangeAppend DEF Assign, TypeOK
    <2> QED BY <1>1, <1>6, <2>1, <2>3, Limits
            DEF TypeOK, Steps, Assign, Event, receiverVars, offerVars, toldVars, flagVars
  <1> QED BY <1>3, <1>4, <1>5, <1>6

LEMMA AcceptTyped ==
    ASSUME Inv, NEW s \in Inbound, AcceptBegins(s) \/ ReceiverAwaited(s) \/ AcceptSession(s)
    PROVE  TypeOK'
  <1>1. TypeOK /\ Places /\ Chained
    BY DEF Inv
  <1>2. s \in Session
    BY Apart
  <1>3. step[s] \notin {"none", "done"}
    BY DEF AcceptBegins, ReceiverAwaited, AcceptSession
  <1>4. Tail(chain) \in Seq(Inbound) /\ IsInjective(Tail(chain))
    BY <1>1, <1>3, EndsTyped
  <1>5. chain' \in Seq(Inbound) /\ IsInjective(chain') /\ inFlight' \subseteq Inbound
    BY <1>1, <1>4 DEF AcceptBegins, ReceiverAwaited, AcceptSession, AcceptEnds, acceptVars, TypeOK
  <1>6. step' \in [Session -> Steps]
    BY <1>1 DEF AcceptBegins, ReceiverAwaited, AcceptSession, Take, TypeOK, Steps
  <1>7. creating' \in {"no", "start", "pause"} /\ attempt' \in 0..Tries /\ removing' \in BOOLEAN
    BY <1>1, Ensured, Typed
       DEF AcceptBegins, ReceiverAwaited, AcceptSession, receiverVars, TypeOK
  <1>8. CASE AcceptBegins(s)
    <2>1. wants' \in BOOLEAN /\ unheard' \in BOOLEAN
      BY <1>1, <1>8, Typed DEF AcceptBegins, flagVars
    <2> QED BY <1>1, <1>5, <1>6, <1>7, <1>8, <2>1
            DEF TypeOK, Steps, AcceptBegins, agentVars, offerVars, toldVars, flagVars
  <1>9. CASE ReceiverAwaited(s)
    BY <1>1, <1>5, <1>6, <1>9
       DEF TypeOK, Steps, ReceiverAwaited, receiverVars, agentVars, offerVars, toldVars, flagVars
  <1>10. CASE AcceptSession(s)
    <2>1. raced' \in BOOLEAN
      BY <1>1, <1>10, Typed DEF AcceptSession, Take
    <2>2. /\ gate' \in [Node -> Session \cup {Other, None}] /\ node' \in [Session -> 0..MaxNodes]
          /\ offered' \in [Inbound -> Inbound \cup {Other, None}]
      <3>1. gate \in [Node -> Session \cup {Other, None}] /\ s \in Session \cup {Other, None}
        BY <1>1, <1>2 DEF TypeOK
      <3>2. CASE Take(s)
        BY <1>1, <1>10, <3>1, <3>2 DEF AcceptSession, Take, TypeOK
      <3>3. CASE UNCHANGED <<node, gate>>
        BY <1>1, <1>10, <3>3 DEF AcceptSession, TypeOK
      <3> QED BY <1>10, <3>2, <3>3 DEF AcceptSession
    <2> QED BY <1>1, <1>5, <1>6, <1>7, <1>10, <2>1, <2>2
            DEF TypeOK, Steps, AcceptSession, agentVars, toldVars
  <1> QED BY <1>8, <1>9, <1>10

LEMMA RequestTyped ==
    ASSUME Inv, NEW s \in Outbound,
           Negotiate(s) \/ Connected(s) \/ Answered(s) \/ Unanswered(s) \/ CreateSession(s)
    PROVE  TypeOK'
  <1>1. TypeOK
    BY DEF Inv
  <1>2. s \in Session
    BY Apart
  <1>3. step' \in [Session -> Steps]
    BY <1>1 DEF Negotiate, Connected, Answered, Unanswered, CreateSession, Take, TypeOK, Steps
  <1>4. slot' \in BOOLEAN
    BY <1>1, Typed DEF Negotiate, Connected, Answered, Unanswered, CreateSession, agentVars
  <1>5. CASE Negotiate(s)
    BY <1>1, <1>3, <1>5, Limits
       DEF TypeOK, Steps, Negotiate, Event, receiverVars, agentVars, offerVars, acceptVars, toldVars,
           flagVars
  <1>6. CASE Connected(s) \/ Answered(s) \/ Unanswered(s)
    BY <1>1, <1>3, <1>4, <1>6
       DEF TypeOK, Steps, Connected, Answered, Unanswered, receiverVars, offerVars, acceptVars,
           toldVars, flagVars
  <1>7. CASE CreateSession(s)
    <2>1. creating' \in {"no", "start", "pause"} /\ attempt' \in 0..Tries /\ removing' \in BOOLEAN
      BY <1>1, <1>7, Ensured, Typed DEF CreateSession, TypeOK
    <2>2. raced' \in BOOLEAN
      BY <1>1, <1>7, Typed DEF CreateSession, Take
    <2>3. gate' \in [Node -> Session \cup {Other, None}] /\ node' \in [Session -> 0..MaxNodes]
      <3>1. /\ gate \in [Node -> Session \cup {Other, None}]
            /\ node \in [Session -> 0..MaxNodes] /\ recv \in 0..MaxNodes
        BY <1>1 DEF TypeOK
      <3> QED BY <1>2, <1>7, <3>1 DEF CreateSession, Take
    <2> QED BY <1>1, <1>3, <1>7, <2>1, <2>2, <2>3
            DEF TypeOK, Steps, CreateSession, agentVars, offerVars, acceptVars, toldVars
  <1> QED BY <1>5, <1>6, <1>7

LEMMA OpenTyped ==
    ASSUME Inv, NEW s \in Session, Evicted(s) \/ RowFails(s) \/ Opened(s) \/ Close(s)
    PROVE  TypeOK'
  <1>1. TypeOK /\ Places /\ Chained
    BY DEF Inv
  <1>2. CASE Evicted(s)
    BY <1>1, <1>2, Limits
       DEF TypeOK, Evicted, agentVars, offerVars, acceptVars, toldVars, flagVars
  <1>3. ASSUME RowFails(s) \/ Opened(s)
        PROVE  chain' \in Seq(Inbound) /\ IsInjective(chain') /\ inFlight' \subseteq Inbound
    <2>1. s \in Inbound => Tail(chain) \in Seq(Inbound) /\ IsInjective(Tail(chain))
      <3>1. step[s] \notin {"none", "done"}
        BY <1>3 DEF RowFails, Opened
      <3> QED BY <1>1, <3>1, EndsTyped
    <2> QED BY <1>1, <1>3, <2>1, Apart DEF RowFails, Opened, AcceptEnds, acceptVars, TypeOK
  <1>4. ASSUME RowFails(s) \/ Close(s)
        PROVE  /\ stopped' \subseteq 1..built /\ gate' \in [Node -> Session \cup {Other, None}]
               /\ node' \in [Session -> 0..MaxNodes]
    <2>1. node[s] \in 1..built
      BY <1>1, <1>4 DEF Places, Holds, RowFails, Close
    <2>2. Stop({node[s]}) /\ node' = [node EXCEPT ![s] = 0]
      BY <1>4 DEF RowFails, Close
    <2>3. node' \in [Session -> 0..MaxNodes]
      BY <1>1, <2>2, Limits DEF TypeOK
    <2>4. stopped' \subseteq 1..built /\ gate' \in [Node -> Session \cup {Other, None}]
      BY <1>1, <2>1, <2>2 DEF Stop, TypeOK
    <2> QED BY <2>3, <2>4
  <1>5. ASSUME RowFails(s) \/ Opened(s) \/ Close(s)
        PROVE  creating' \in {"no", "start", "pause"} /\ attempt' \in 0..Tries /\ removing' \in BOOLEAN
    BY <1>1, <1>5, Ensured, Typed DEF RowFails, Opened, Close, TypeOK
  <1>6. CASE RowFails(s)
    <2>1. step' \in [Session -> Steps]
      BY <1>1, <1>6 DEF RowFails, TypeOK, Steps
    <2> QED BY <1>1, <1>3, <1>4, <1>5, <1>6, <2>1, Limits
            DEF TypeOK, Steps, RowFails, Event, agentVars, offerVars, toldVars, flagVars
  <1>7. CASE Opened(s)
    <2>1. queue' \in Seq(Inbound) /\ waiters' \in 0..MaxWaiters /\ told' \subseteq Inbound
      <3>1. queue \in Seq(Inbound) /\ waiters \in 0..MaxWaiters /\ told \subseteq Inbound
        BY <1>1 DEF TypeOK
      <3>2. s \in Inbound => Append(queue, s) \in Seq(Inbound)
        BY <3>1
      <3>3. waiters > 0 => waiters - 1 \in 0..MaxWaiters
        BY <3>1, Limits
      <3> QED BY <1>7, <3>1, <3>2, <3>3, Apart DEF Opened, Announce, toldVars
    <2>2. step' \in [Session -> Steps]
      BY <1>1, <1>7 DEF Opened, TypeOK, Steps
    <2> QED BY <1>1, <1>3, <1>5, <1>7, <2>1, <2>2
            DEF TypeOK, Steps, Opened, agentVars, offerVars, flagVars
  <1>8. CASE Close(s)
    <2>1. live' \subseteq Session /\ row' \in [Session -> {"none", "active", "closed"}]
      BY <1>1, <1>8 DEF Close, TypeOK
    <2> QED BY <1>1, <1>4, <1>5, <1>8, <2>1
            DEF TypeOK, Close, agentVars, offerVars, acceptVars, toldVars, flagVars
  <1> QED BY <1>2, <1>6, <1>7, <1>8

LEMMA WaiterTyped ==
    ASSUME Inv, AwaitSession \/ WaiterGone
    PROVE  TypeOK'
  <1>1. TypeOK
    BY DEF Inv
  <1>2. waiters' \in 0..MaxWaiters
    BY <1>1, Limits DEF AwaitSession, WaiterGone, TypeOK
  <1>3. queue' \in Seq(Inbound) /\ told' \subseteq Inbound
    <2>1. queue \in Seq(Inbound) /\ told \subseteq Inbound /\ << >> \in Seq(Inbound)
      BY <1>1 DEF TypeOK
    <2>2. \A i \in 1..Len(queue) : /\ SubSeq(queue, i + 1, Len(queue)) \in Seq(Inbound)
                                   /\ queue[i] \in Inbound
      BY <2>1
    <2>3. CASE AwaitSession
      BY <2>1, <2>2, <2>3 DEF AwaitSession
    <2>4. CASE WaiterGone
      BY <2>1, <2>4 DEF WaiterGone
    <2> QED BY <2>3, <2>4
  <1> QED BY <1>1, <1>2, <1>3
          DEF TypeOK, AwaitSession, WaiterGone, receiverVars, agentVars, offerVars, acceptVars,
              sessionVars, flagVars

LEMMA TypeInv == ASSUME Inv, [Next]_vars PROVE TypeOK'
  <1>1. CASE UNCHANGED vars
    BY <1>1 DEF Inv, TypeOK, vars, receiverVars, agentVars, offerVars, acceptVars, sessionVars,
                toldVars, flagVars
  <1>2. CASE Next
    BY <1>2, ReceiverTyped, OfferTyped, AcceptTyped, RequestTyped, OpenTyped, WaiterTyped DEF Next
  <1> QED BY <1>1, <1>2

-----------------------------------------------------------------------------
(* Places.                                                                 *)

LEMMA PlacesInv == ASSUME Inv, [Next]_vars PROVE Places'
  <1>1. TypeOK /\ Places /\ Chained
    BY DEF Inv
  <1>2. /\ recv \in Nat /\ built \in Nat /\ \A s \in Session : node[s] \in Nat
        /\ step \in [Session -> Steps] /\ node \in [Session -> 0..MaxNodes]
        /\ Inbound \subseteq Session /\ Outbound \subseteq Session
    BY <1>1, Typed DEF TypeOK, Steps
  <1>3. CASE UNCHANGED vars
    BY <1>1, <1>3 DEF Places, Holds, vars, receiverVars, offerVars, sessionVars
  <1>4. CASE Started
    BY <1>1, <1>2, <1>4 DEF Places, Holds, Started, offerVars, sessionVars
  <1>5. CASE StartFails \/ Retries \/ AwaitSession \/ WaiterGone \/ StartAgent
    BY <1>1, <1>5
       DEF Places, Holds, StartFails, Retries, AwaitSession, WaiterGone, StartAgent, receiverVars,
           offerVars, sessionVars
  <1>6. CASE SetOffline
    BY <1>1, <1>2, <1>6 DEF Places, Holds, SetOffline, offerVars, sessionVars
  <1>7. CASE OfflineSessions
    BY <1>1, <1>2, <1>7 DEF Places, Holds, OfflineSessions, offerVars
  <1>8. ASSUME NEW s \in Inbound, NEW p \in {s, Other}, Offer(s, p) PROVE Places'
    <2>1. recv \in 1..built
      BY <1>1, <1>2, <1>8 DEF Places, Offer
    <2>2. offered' = offered \/ offered' = [offered EXCEPT ![s] = p]
      BY <1>8 DEF Offer, Admit
    <2>3. asked' = asked \/ asked' = [asked EXCEPT ![s] = [node |-> recv, dialer |-> p]]
      BY <1>8 DEF Offer, Admit
    <2>4. \A t \in Inbound : /\ asked'[t] # NoAsk => asked'[t].node \in 1..built
                             /\ {offered'[t], asked'[t].dialer} \subseteq {None, t, Other}
      BY <1>1, <2>1, <2>2, <2>3 DEF TypeOK, Places
    <2> QED BY <1>1, <1>8, <2>4 DEF Places, Holds, Offer, receiverVars, sessionVars
  <1>9. ASSUME NEW s \in Inbound, Reserved(s) PROVE Places'
    <2>1. asked[s].node \in 1..built /\ asked[s].dialer \in {None, s, Other}
      BY <1>1, <1>9 DEF Places, Reserved
    <2>2. offered' = offered \/ offered' = [offered EXCEPT ![s] = asked[s].dialer]
      BY <1>9 DEF Reserved, Admit
    <2>3. \A t \in Inbound : /\ asked'[t] # NoAsk => asked'[t].node \in 1..built
                             /\ {offered'[t], asked'[t].dialer} \subseteq {None, t, Other}
      BY <1>1, <1>9, <2>1, <2>2 DEF TypeOK, Places, Reserved, NoAsk
    <2>4. recv' <= built
      BY <1>2, <1>9, <2>1 DEF Reserved
    <2> QED BY <1>1, <1>9, <2>3, <2>4 DEF Places, Holds, Reserved, sessionVars
  <1>10. ASSUME NEW s \in Inbound, Refuse(s) PROVE Places'
    <2>1. \A t \in Session : Holds(t)' <=> Holds(t)
      BY <1>1, <1>2, <1>10 DEF Refuse, Misread, Asked, Holds
    <2>2. \A t \in Session : step[t] \in {"handlers", "done"} => step'[t] \in {"handlers", "done"}
      BY <1>1, <1>2, <1>10 DEF Refuse, Misread
    <2>3. \A t \in Inbound : offered'[t] \in {None, offered[t]}
      BY <1>1, <1>10 DEF Refuse, Revoke, TypeOK
    <2>4. \A t \in Inbound : /\ asked'[t] # NoAsk => asked'[t].node \in 1..built
                             /\ {offered'[t], asked'[t].dialer} \subseteq {None, t, Other}
      BY <1>1, <1>10, <2>3 DEF Places, Refuse
    <2>5. \A t \in live : step'[t] \in {"handlers", "done"}
      BY <1>1, <2>2 DEF Places, TypeOK
    <2> QED BY <1>1, <1>10, <2>1, <2>4, <2>5 DEF Places, Refuse, receiverVars
  <1>11. ASSUME NEW s \in Inbound, Assign(s) PROVE Places'
    <2>1. step[s] = "none"
      BY <1>1, <1>11 DEF Inv, Announced, Chained, Assign, Known
    <2>2. \A t \in Session : /\ step'[t] = "evict" <=> step[t] = "evict"
                             /\ step[t] \in {"handlers", "done"} => step'[t] \in {"handlers", "done"}
      BY <1>1, <1>2, <1>11, <2>1 DEF Assign, Misread, Asked
    <2>3. \A t \in live : step'[t] \in {"handlers", "done"}
      BY <1>1, <2>2 DEF Places, TypeOK
    <2>4. \A t \in Session : Holds(t)' <=> Holds(t)
      BY <1>11, <2>2 DEF Assign, Holds
    <2> QED BY <1>1, <1>11, <2>3, <2>4 DEF Places, Assign, receiverVars, offerVars
  <1>12. ASSUME NEW s \in Inbound, AcceptBegins(s) \/ ReceiverAwaited(s) PROVE Places'
    <2>1. \A t \in Session :
             step'[t] # step[t] => step[t] \in {"queued", "receiver"} /\ step'[t] # "evict"
      BY <1>2, <1>12 DEF AcceptBegins, ReceiverAwaited
    <2>2. \A t \in Session : Holds(t)' <=> Holds(t)
      BY <1>12, <2>1 DEF AcceptBegins, ReceiverAwaited, Holds
    <2>3. \A t \in live : step'[t] \in {"handlers", "done"}
      BY <1>1, <2>1 DEF Places, TypeOK
    <2> QED BY <1>1, <1>12, <2>2, <2>3 DEF Places, AcceptBegins, ReceiverAwaited, receiverVars, offerVars
  <1>13. ASSUME NEW s \in Session, step[s] \in {"params", "dial"}, recv # 0, Take(s),
                UNCHANGED <<recv, built, live>>
         PROVE  /\ recv' <= built' /\ \A t \in Session : Holds(t)' => node'[t] \in 1..built'
                /\ \A t \in live' : step'[t] \in {"handlers", "done"}
    <2>1. s \notin live /\ recv \in 1..built
      BY <1>1, <1>2, <1>13 DEF Places
    <2> QED BY <1>1, <1>2, <1>13, <2>1 DEF Places, Holds, Take, TypeOK
  <1>14. ASSUME NEW s \in Session, step[s] \in {"params", "dial"}, UNCHANGED <<recv, built, live, node>>,
                \E d \in {"none", "done"} : step' = [step EXCEPT ![s] = d]
         PROVE  /\ recv' <= built' /\ \A t \in Session : Holds(t)' => node'[t] \in 1..built'
                /\ \A t \in live' : step'[t] \in {"handlers", "done"}
    BY <1>1, <1>2, <1>14 DEF Places, Holds, TypeOK
  <1>15. ASSUME NEW s \in Inbound, AcceptSession(s) PROVE Places'
    <2>1. \A t \in Inbound : {offered'[t], asked'[t].dialer} \subseteq {None, t, Other}
      BY <1>1, <1>15 DEF Places, AcceptSession, TypeOK
    <2>2. s \in Session /\ step[s] = "params" /\ UNCHANGED <<recv, built, live, asked>>
      BY <1>2, <1>15 DEF AcceptSession
    <2>3. CASE recv # 0 /\ Take(s)
      BY <1>1, <1>13, <2>1, <2>2, <2>3 DEF Places
    <2>4. CASE step' = [step EXCEPT ![s] = "none"] /\ UNCHANGED node
      BY <1>1, <1>14, <2>1, <2>2, <2>4 DEF Places
    <2> QED BY <1>15, <2>3, <2>4 DEF AcceptSession
  <1>16. ASSUME NEW s \in Outbound, Negotiate(s) \/ Connected(s) \/ Answered(s) \/ Unanswered(s)
         PROVE  Places'
    <2>1. \A t \in Session :
             step'[t] # step[t] => step[t] \in {"none", "connect", "asked"} /\ step'[t] # "evict"
      BY <1>2, <1>16 DEF Negotiate, Connected, Answered, Unanswered, Asked
    <2>2. \A t \in Session : Holds(t)' <=> Holds(t)
      BY <1>16, <2>1 DEF Negotiate, Connected, Answered, Unanswered, Holds
    <2>3. \A t \in live : step'[t] \in {"handlers", "done"}
      BY <1>1, <2>1 DEF Places, TypeOK
    <2> QED BY <1>1, <1>16, <2>2, <2>3
            DEF Places, Negotiate, Connected, Answered, Unanswered, receiverVars, offerVars
  <1>17. ASSUME NEW s \in Outbound, CreateSession(s) PROVE Places'
    <2>1. s \in Session /\ step[s] = "dial" /\ UNCHANGED <<recv, built, live, asked, offered>>
      BY <1>2, <1>17 DEF CreateSession, offerVars
    <2>2. CASE recv # 0 /\ Take(s)
      BY <1>1, <1>13, <2>1, <2>2 DEF Places
    <2>3. CASE step' = [step EXCEPT ![s] = "done"] /\ UNCHANGED node
      BY <1>1, <1>14, <2>1, <2>3 DEF Places
    <2> QED BY <1>17, <2>2, <2>3 DEF CreateSession
  <1>18. ASSUME NEW s \in Session, Evicted(s) PROVE Places'
    BY <1>1, <1>2, <1>18 DEF Places, Holds, Evicted, TypeOK, offerVars
  <1>19. ASSUME NEW s \in Session, RowFails(s) PROVE Places'
    <2>1. \E d \in {"none", "done"} : step' = [step EXCEPT ![s] = d]
      BY <1>19 DEF RowFails
    <2>2. s \notin live /\ node' = [node EXCEPT ![s] = 0]
      BY <1>1, <1>19 DEF RowFails, Places
    <2> QED BY <1>1, <1>2, <1>19, <2>1, <2>2 DEF Places, Holds, RowFails, offerVars
  <1>20. ASSUME NEW s \in Session, Opened(s) PROVE Places'
    BY <1>1, <1>2, <1>20 DEF Places, Holds, Opened, TypeOK, offerVars
  <1>21. ASSUME NEW s \in Session, Close(s) PROVE Places'
    <2>1. step[s] # "evict"
      BY <1>1, <1>21 DEF Places, Close
    <2> QED BY <1>1, <1>2, <1>21, <2>1 DEF Places, Holds, Close, TypeOK, offerVars
  <1> QED BY <1>3, <1>4, <1>5, <1>6, <1>7, <1>8, <1>9, <1>10, <1>11, <1>12, <1>15, <1>16, <1>17,
             <1>18, <1>19, <1>20, <1>21 DEF Next

-----------------------------------------------------------------------------
(* The chain.                                                              *)

\* Sessions from outside stay where they are.
LEMMA ChainKept ==
    ASSUME Inv, UNCHANGED acceptVars, \A t \in Inbound : step'[t] = step[t],
           \A t \in Outbound : step'[t] \notin {"queued", "receiver", "params"}
    PROVE  Chained'
  BY DEF Inv, Chained, acceptVars

\* The head of the chain moves on.
LEMMA ChainHead ==
    ASSUME Inv, UNCHANGED acceptVars, NEW s \in Inbound, s = Head(chain), chain # << >>,
           step[s] \notin {"none", "done"}, step'[s] \in {"receiver", "params", "evict", "handlers"},
           \A t \in Session : t # s => step'[t] = step[t]
    PROVE  Chained'
  <1>1. Chained /\ Inbound \subseteq Session /\ Outbound \subseteq Session /\ s \notin Outbound
    BY Apart DEF Inv
  <1> QED BY <1>1 DEF Chained, acceptVars

\* It leaves the chain.
LEMMA ChainEnds ==
    ASSUME Inv, NEW s \in Inbound, s = Head(chain), chain' = Tail(chain),
           inFlight' \in {inFlight, inFlight \ {s}},
           step[s] \notin {"none", "done"}, step'[s] \in {"none", "done"},
           \A t \in Session : t # s => step'[t] = step[t]
    PROVE  Chained'
  <1>1. TypeOK /\ Chained /\ Inbound \subseteq Session /\ Outbound \subseteq Session /\ s \notin Outbound
    BY Apart DEF Inv
  <1>2. Range(Tail(chain)) = Range(chain) \ {s}
    BY <1>1, EndsTyped
  <1>3. \A t \in Inbound : step[t] \in {"receiver", "params", "evict", "handlers"} => t = s
    BY <1>1 DEF Chained
  <1>4. \A t \in Inbound : /\ t \in Range(chain') <=> step'[t] \notin {"none", "done"}
                           /\ step'[t] \notin {"receiver", "params", "evict", "handlers"}
                           /\ step'[t] \notin {"connect", "asked", "dial"}
    BY <1>1, <1>2, <1>3 DEF Chained
  <1>5. \A t \in Outbound : step'[t] \notin {"queued", "receiver", "params"}
    BY <1>1 DEF Chained
  <1>6. Range(chain') \subseteq inFlight'
    BY <1>1, <1>2 DEF Chained
  <1> QED BY <1>4, <1>5, <1>6 DEF Chained

LEMMA ChainedInv == ASSUME Inv, [Next]_vars PROVE Chained'
  <1>1. TypeOK /\ Places /\ Chained /\ Announced
    BY DEF Inv
  <1>2. /\ step \in [Session -> Steps] /\ Inbound \subseteq Session /\ Outbound \subseteq Session
        /\ \A s \in Session : s \in Inbound <=> s \notin Outbound
    BY <1>1, Apart DEF TypeOK, Steps
  <1>3. \A s \in Inbound : step[s] \in {"receiver", "params", "evict", "handlers"} =>
                              s = Head(chain) /\ chain # << >>
    BY <1>1 DEF Chained
  <1>4. \A s \in Outbound : step[s] \notin {"queued", "receiver", "params"}
    BY <1>1 DEF Chained
  <1>5. ASSUME UNCHANGED <<step, acceptVars>> PROVE Chained'
    BY <1>4, <1>5, ChainKept
  <1>6. CASE UNCHANGED vars
    BY <1>5, <1>6 DEF vars, sessionVars
  <1>7. CASE Started \/ StartFails \/ Retries \/ SetOffline \/ StartAgent \/ AwaitSession \/ WaiterGone
    BY <1>5, <1>7
       DEF Started, StartFails, Retries, SetOffline, StartAgent, AwaitSession, WaiterGone, sessionVars
  <1>8. CASE OfflineSessions
    BY <1>5, <1>8 DEF OfflineSessions
  <1>9. ASSUME NEW s \in Inbound, NEW p \in {s, Other}, Offer(s, p) \/ Reserved(s) PROVE Chained'
    BY <1>5, <1>9 DEF Offer, Reserved, sessionVars
  <1>10. ASSUME NEW s \in Inbound, Refuse(s) PROVE Chained'
    <2>1. /\ \A t \in Inbound : step'[t] = step[t]
          /\ \A t \in Outbound : step'[t] \in {step[t], "done"}
      BY <1>2, <1>10 DEF Refuse, Misread, Asked
    <2> QED BY <1>4, <1>10, <2>1, ChainKept DEF Refuse
  <1>11. ASSUME NEW s \in Inbound, Assign(s) PROVE Chained'
    <2>1. step[s] = "none" /\ s \notin Range(chain)
      BY <1>1, <1>11 DEF Announced, Chained, Assign, Known
    <2>2. /\ \A t \in Inbound : t # s => step'[t] = step[t]
          /\ step'[s] = "queued"
          /\ \A t \in Outbound : step'[t] \in {step[t], "done"}
      BY <1>2, <1>11, <2>1 DEF Assign, Misread, Asked
    <2>3. /\ Range(chain') = Range(chain) \cup {s} /\ chain' # << >>
          /\ chain # << >> => Head(chain') = Head(chain)
      <3>1. chain \in Seq(Inbound) /\ IsInjective(chain) /\ chain' = Append(chain, s)
        BY <1>1, <1>11 DEF Assign, TypeOK
      <3> QED BY <2>1, <3>1, RangeAppend
    <2>4. \A t \in Inbound : /\ t \in Range(chain') <=> step'[t] \notin {"none", "done"}
                             /\ step'[t] \in {"receiver", "params", "evict", "handlers"} =>
                                   chain' # << >> /\ t = Head(chain')
                             /\ step'[t] \notin {"connect", "asked", "dial"}
      BY <1>1, <2>2, <2>3 DEF Chained
    <2>5. \A t \in Outbound : step'[t] \notin {"queued", "receiver", "params"}
      BY <1>4, <2>2
    <2>6. Range(chain') \subseteq inFlight'
      BY <1>1, <1>11, <2>3 DEF Chained, Assign
    <2> QED BY <2>4, <2>5, <2>6 DEF Chained
  <1>12. ASSUME NEW s \in Inbound, AcceptBegins(s) PROVE Chained'
    <2>1. s \in Session /\ step[s] = "queued" /\ s = Head(chain) /\ chain # << >>
      BY <1>1, <1>2, <1>12, EndsTyped DEF AcceptBegins
    <2>2. CASE step' = [step EXCEPT ![s] = "receiver"] /\ UNCHANGED acceptVars
      BY <1>2, <2>1, <2>2, ChainHead
    <2>3. CASE /\ step' = [step EXCEPT ![s] = "none"]
               /\ chain' = Tail(chain) /\ inFlight' \in {inFlight, inFlight \ {s}}
      BY <1>2, <2>1, <2>3, ChainEnds
    <2> QED BY <1>12, <2>2, <2>3 DEF AcceptBegins, AcceptEnds
  <1>13. ASSUME NEW s \in Inbound, step[s] \in {"receiver", "params", "evict", "handlers"},
                \/ UNCHANGED acceptVars
                   /\ \E d \in {"params", "evict", "handlers"} : step' = [step EXCEPT ![s] = d]
                \/ AcceptEnds(s) /\ \E d \in {"none", "done"} : step' = [step EXCEPT ![s] = d]
         PROVE  Chained'
    <2>1. CASE UNCHANGED acceptVars
               /\ \E d \in {"params", "evict", "handlers"} : step' = [step EXCEPT ![s] = d]
      BY <1>2, <1>3, <1>13, <2>1, ChainHead
    <2>2. CASE AcceptEnds(s) /\ \E d \in {"none", "done"} : step' = [step EXCEPT ![s] = d]
      BY <1>2, <1>3, <1>13, <2>2, ChainEnds DEF AcceptEnds
    <2> QED BY <1>13, <2>1, <2>2
  <1>14. ASSUME NEW s \in Inbound, ReceiverAwaited(s) \/ AcceptSession(s) PROVE Chained'
    BY <1>13, <1>14 DEF ReceiverAwaited, AcceptSession, Take
  <1>15. ASSUME NEW s \in Outbound, UNCHANGED acceptVars,
                \E d \in Steps \ {"queued", "receiver", "params"} : step' = [step EXCEPT ![s] = d]
         PROVE  Chained'
    BY <1>2, <1>4, <1>15, ChainKept
  <1>16. ASSUME NEW s \in Outbound, Negotiate(s) \/ Connected(s) \/ Unanswered(s) \/ CreateSession(s)
         PROVE  Chained'
    BY <1>15, <1>16 DEF Negotiate, Connected, Unanswered, CreateSession, Take, Steps
  <1>17. ASSUME NEW s \in Outbound, Answered(s) PROVE Chained'
    <2>1. /\ \A t \in Inbound : step'[t] = step[t]
          /\ \A t \in Outbound : step'[t] \in {step[t], "done", "dial"}
      BY <1>2, <1>17 DEF Answered, Asked
    <2> QED BY <1>4, <1>17, <2>1, ChainKept DEF Answered
  <1>18. ASSUME NEW s \in Session, Evicted(s) \/ RowFails(s) \/ Opened(s) PROVE Chained'
    <2>1. CASE s \in Inbound
      BY <1>2, <1>13, <1>18, <2>1 DEF Evicted, RowFails, Opened
    <2>2. CASE s \in Outbound
      BY <1>2, <1>15, <1>18, <2>2 DEF Evicted, RowFails, Opened, Steps
    <2> QED BY <2>1, <2>2 DEF Session
  <1>19. ASSUME NEW s \in Session, Close(s) PROVE Chained'
    BY <1>5, <1>19 DEF Close
  <1> QED BY <1>6, <1>7, <1>8, <1>9, <1>10, <1>11, <1>12, <1>14, <1>16, <1>17, <1>18, <1>19 DEF Next

-----------------------------------------------------------------------------
(* Announcements.                                                          *)

\* Nothing is announced or told, and no session from outside is opened.
LEMMA NothingTold ==
    ASSUME Inv, UNCHANGED <<queue, told>>,
           \A t \in Session : /\ step'[t] = "handlers" => step[t] = "handlers" \/ row'[t] # "none"
                              /\ row[t] # "none" => row'[t] # "none"
                              /\ step[t] = "done" /\ row'[t] = "active" => row[t] = "active",
           \A t \in Inbound : step'[t] = "done" <=> step[t] = "done"
    PROVE  Announced'
  <1>1. Announced /\ TypeOK /\ Inbound \subseteq Session
    BY Apart DEF Inv
  <1>2. Range(queue) \cup told \subseteq Inbound
    BY <1>1, RangeSeq DEF TypeOK
  <1>3. AnnouncedOnce'
    BY <1>1 DEF Announced, AnnouncedOnce
  <1> QED BY <1>1, <1>2, <1>3 DEF Announced

LEMMA OpenedTold == ASSUME Inv, NEW s \in Session, Opened(s) PROVE Announced'
  <1>1. Announced /\ TypeOK /\ Inbound \subseteq Session /\ (s \in Inbound <=> s \notin Outbound)
    BY Apart DEF Inv
  <1>2. /\ step[s] = "handlers" /\ step' = [step EXCEPT ![s] = "done"] /\ row' = row /\ row[s] # "none"
        /\ step \in [Session -> Steps]
    BY <1>1 DEF Opened, Announced, TypeOK, Steps
  <1>3. /\ queue \in Seq(Inbound) /\ told \subseteq Inbound /\ Range(queue) \subseteq Inbound
        /\ IsInjective(queue) /\ s \notin Range(queue) /\ s \notin told
    <2>1. queue \in Seq(Inbound) /\ told \subseteq Inbound
      BY <1>1 DEF TypeOK
    <2>2. DOMAIN queue = 1..Len(queue)
      BY <2>1
    <2> QED BY <1>1, <1>2, <2>1, <2>2, RangeSeq DEF Announced, AnnouncedOnce
  <1>4. CASE s \in Outbound
    <2>1. UNCHANGED <<queue, told>>
      BY <1>1, <1>4 DEF Opened, toldVars
    <2>2. \A t \in Session : step'[t] # step[t] => t = s /\ t \notin Inbound
      BY <1>1, <1>2, <1>4
    <2> QED BY <1>1, <1>2, <2>1, <2>2, NothingTold
  <1>5. CASE s \in Inbound /\ UNCHANGED queue /\ told' = told \cup {s}
    BY <1>1, <1>2, <1>3, <1>5 DEF Announced, AnnouncedOnce
  <1>6. CASE s \in Inbound /\ UNCHANGED told /\ queue' = Append(queue, s)
    <2>1. queue' \in Seq(Inbound) /\ IsInjective(queue') /\ Range(queue') = Range(queue) \cup {s}
      BY <1>3, <1>6, RangeAppend
    <2>2. \A i, j \in DOMAIN queue' : queue'[i] = queue'[j] => i = j
      BY <2>1 DEF IsInjective
    <2>3. AnnouncedOnce'
      BY <1>1, <1>2, <1>3, <1>6, <2>1, <2>2 DEF Announced, AnnouncedOnce
    <2> QED BY <1>1, <1>2, <1>6, <2>1, <2>3 DEF Announced
  <1> QED BY <1>1, <1>4, <1>5, <1>6 DEF Opened, Announce

LEMMA AwaitTold == ASSUME Inv, AwaitSession PROVE Announced'
  <1>1. Announced /\ TypeOK /\ UNCHANGED <<step, row>>
    BY DEF Inv, AwaitSession, sessionVars
  <1>2. queue \in Seq(Inbound) /\ IsInjective(queue) /\ Range(queue) = {queue[i] : i \in 1..Len(queue)}
    <2>1. queue \in Seq(Inbound)
      BY <1>1 DEF TypeOK
    <2>2. DOMAIN queue = 1..Len(queue)
      BY <2>1
    <2> QED BY <1>1, <2>1, <2>2, RangeSeq DEF Announced, AnnouncedOnce
  <1>3. ASSUME NEW i \in 1..Len(queue), row[queue[i]] = "active",
               \A j \in 1..(i - 1) : row[queue[j]] # "active",
               queue' = SubSeq(queue, i + 1, Len(queue)), told' = told \cup {queue[i]}
        PROVE  Announced'
    <2>1. /\ queue' \in Seq(Inbound) /\ IsInjective(queue')
          /\ Range(queue') = {queue[j] : j \in (i + 1)..Len(queue)}
          /\ queue[i] \notin Range(queue') /\ Range(queue') \subseteq Range(queue)
      BY <1>2, <1>3, RangeRest
    <2>2. \A j \in 1..Len(queue) : j \in 1..(i - 1) \/ j = i \/ j \in (i + 1)..Len(queue)
      BY <1>2
    <2>3. \A t \in Range(queue) : row[t] = "active" => t = queue[i] \/ t \in Range(queue')
      BY <1>2, <1>3, <2>1, <2>2
    <2>4. \A j, k \in DOMAIN queue' : queue'[j] = queue'[k] => j = k
      BY <2>1 DEF IsInjective
    <2>5. queue[i] \in Range(queue)
      BY <1>2
    <2>6. \A t \in Inbound : step[t] = "done" /\ row[t] = "active" => (t \in told') # (t \in Range(queue'))
      <3>1. SUFFICES ASSUME NEW t \in Inbound, step[t] = "done", row[t] = "active"
                     PROVE  (t \in told') # (t \in Range(queue'))
        OBVIOUS
      <3>2. (t \in told) # (t \in Range(queue))
        BY <1>1, <3>1 DEF Announced, AnnouncedOnce
      <3>3. t \in told' <=> t \in told \/ t = queue[i]
        BY <1>3
      <3> QED BY <2>1, <2>3, <2>5, <3>1, <3>2, <3>3
    <2>7. AnnouncedOnce'
      BY <1>1, <2>4, <2>6 DEF AnnouncedOnce
    <2>8. \A t \in Range(queue') \cup told' : step[t] = "done"
      BY <1>1, <1>3, <2>1, <2>5 DEF Announced
    <2> QED BY <1>1, <2>7, <2>8 DEF Announced
  <1>4. ASSUME \A i \in 1..Len(queue) : row[queue[i]] # "active", queue' = << >>, UNCHANGED told
        PROVE  Announced'
    <2>1. Range(queue') = {} /\ DOMAIN queue' = {}
      BY <1>4 DEF Range
    <2>2. \A t \in Range(queue) : row[t] # "active"
      BY <1>2, <1>4
    <2> QED BY <1>1, <1>4, <2>1, <2>2 DEF Announced, AnnouncedOnce
  <1> QED BY <1>3, <1>4 DEF AwaitSession

LEMMA AnnouncedInv == ASSUME Inv, [Next]_vars PROVE Announced'
  <1>1. TypeOK /\ Places /\ Chained /\ Announced
    BY DEF Inv
  <1>2. /\ step \in [Session -> Steps] /\ row \in [Session -> {"none", "active", "closed"}]
        /\ Inbound \subseteq Session /\ Outbound \subseteq Session
        /\ \A s \in Session : s \in Inbound <=> s \notin Outbound
    BY <1>1, Apart DEF TypeOK, Steps
  <1>3. \A s \in Inbound : step[s] = "done" => row[s] # "none"
    BY <1>1 DEF Announced
  <1>4. ASSUME UNCHANGED <<queue, told, row>>,
               \A t \in Session : step'[t] = "handlers" => step[t] = "handlers",
               \A t \in Inbound : step'[t] = "done" <=> step[t] = "done"
        PROVE  Announced'
    BY <1>4, NothingTold
  <1>5. CASE UNCHANGED vars
    BY <1>4, <1>5 DEF vars, sessionVars, toldVars
  <1>6. CASE Started \/ StartFails \/ Retries \/ SetOffline \/ StartAgent \/ WaiterGone
    BY <1>4, <1>6
       DEF Started, StartFails, Retries, SetOffline, StartAgent, WaiterGone, sessionVars, toldVars
  <1>7. CASE OfflineSessions
    <2>1. \A t \in Session : row'[t] = row[t] \/ row'[t] = "closed"
      BY <1>2, <1>7 DEF OfflineSessions
    <2> QED BY <1>7, <2>1, NothingTold DEF OfflineSessions, toldVars
  <1>8. ASSUME NEW s \in Inbound, NEW p \in {s, Other}, Offer(s, p) \/ Reserved(s)
        PROVE  Announced'
    BY <1>4, <1>8 DEF Offer, Reserved, sessionVars, toldVars
  <1>9. ASSUME NEW s \in Inbound, Refuse(s) PROVE Announced'
    <2>1. /\ \A t \in Inbound : step'[t] = step[t]
          /\ \A t \in Outbound : step'[t] \in {step[t], "done"}
      BY <1>2, <1>9 DEF Refuse, Misread, Asked
    <2> QED BY <1>2, <1>4, <1>9, <2>1 DEF Refuse, toldVars
  <1>10. ASSUME NEW s \in Inbound, Assign(s) PROVE Announced'
    <2>1. /\ \A t \in Inbound : t # s => step'[t] = step[t]
          /\ step[s] # "done" /\ step'[s] = "queued"
          /\ \A t \in Outbound : step'[t] \in {step[t], "done"}
      BY <1>2, <1>3, <1>10 DEF Assign, Known, Misread, Asked
    <2> QED BY <1>2, <1>4, <1>10, <2>1 DEF Assign, toldVars
  <1>11. ASSUME NEW s \in Inbound, AcceptBegins(s) \/ ReceiverAwaited(s) \/ AcceptSession(s)
         PROVE  Announced'
    <2>1. /\ step[s] \in {"queued", "receiver", "params"}
          /\ \E d \in {"none", "receiver", "params", "evict"} : step' = [step EXCEPT ![s] = d]
      BY <1>11 DEF AcceptBegins, ReceiverAwaited, AcceptSession, Take
    <2>2. UNCHANGED <<queue, told, row>>
      BY <1>11 DEF AcceptBegins, ReceiverAwaited, AcceptSession, toldVars
    <2> QED BY <1>2, <1>4, <2>1, <2>2
  <1>12. ASSUME NEW s \in Outbound, Negotiate(s) \/ Connected(s) \/ Unanswered(s) \/ CreateSession(s)
         PROVE  Announced'
    <2>1. \E d \in {"connect", "asked", "done", "evict"} : step' = [step EXCEPT ![s] = d]
      BY <1>12 DEF Negotiate, Connected, Unanswered, CreateSession, Take
    <2>2. UNCHANGED <<queue, told, row>>
      BY <1>12 DEF Negotiate, Connected, Unanswered, CreateSession, toldVars
    <2> QED BY <1>2, <1>4, <2>1, <2>2
  <1>13. ASSUME NEW s \in Outbound, Answered(s) PROVE Announced'
    <2>1. /\ \A t \in Inbound : step'[t] = step[t]
          /\ \A t \in Outbound : step'[t] \in {step[t], "done", "dial"}
      BY <1>2, <1>13 DEF Answered, Asked
    <2> QED BY <1>2, <1>4, <1>13, <2>1 DEF Answered, toldVars
  <1>14. ASSUME NEW s \in Session, Evicted(s) PROVE Announced'
    <2>1. /\ step[s] = "evict" /\ step' = [step EXCEPT ![s] = "handlers"]
          /\ row' = [row EXCEPT ![s] = "active"] /\ UNCHANGED <<queue, told>>
      BY <1>14 DEF Evicted, toldVars
    <2> QED BY <1>2, <2>1, NothingTold
  <1>15. ASSUME NEW s \in Session, RowFails(s) PROVE Announced'
    <2>1. CASE s \in Inbound
      <3>1. step[s] = "evict" /\ step' = [step EXCEPT ![s] = "none"]
        BY <1>2, <1>15, <2>1 DEF RowFails
      <3> QED BY <1>2, <1>4, <1>15, <3>1 DEF RowFails, toldVars
    <2>2. CASE s \in Outbound
      <3>1. step' = [step EXCEPT ![s] = "done"]
        BY <1>2, <1>15, <2>2 DEF RowFails
      <3> QED BY <1>2, <1>4, <1>15, <2>2, <3>1 DEF RowFails, toldVars
    <2> QED BY <2>1, <2>2 DEF Session
  <1>16. ASSUME NEW s \in Session, Close(s) PROVE Announced'
    <2>1. \A t \in Session : row'[t] = row[t] \/ row'[t] = "closed"
      BY <1>2, <1>16 DEF Close
    <2> QED BY <1>16, <2>1, NothingTold DEF Close, toldVars
  <1> QED BY <1>5, <1>6, <1>7, <1>8, <1>9, <1>10, <1>11, <1>12, <1>13, <1>14, <1>15, <1>16,
             OpenedTold, AwaitTold DEF Next

-----------------------------------------------------------------------------
(* Owners.                                                                 *)

\* No promotion reads a receiver, no receiver is added, and no gate of a held node changes.
LEMMA OwnedKept ==
    ASSUME Inv, Owned,
           \A t \in Session : Holds(t)' => /\ Holds(t) /\ node'[t] = node[t]
                                           /\ gate'[node[t]] = gate[node[t]],
           recv' = 0 \/ (recv' = recv /\ live' \subseteq live),
           \A t \in Inbound : step'[t] = "evict" /\ node[t] = recv =>
              step[t] = "evict" /\ offered'[t] \in {None, offered[t]},
           creating' # "no" => creating # "no" \/ recv' = 0,
           live' \subseteq Session
    PROVE  Owned'
  <1>1. Places /\ TypeOK /\ Inbound \subseteq Session /\ recv \in Nat /\ built \in Nat
    BY Typed DEF Inv
  <1>2. \A t \in Session : Holds(t)' => node'[t] # 0
    BY <1>1 DEF Places
  <1>3. \A s, t \in Session : Holds(s)' /\ Holds(t)' /\ node'[s] = node'[t] => s = t
    BY DEF Owned
  <1>4. \A s \in live' : node'[s] # recv'
    BY <1>2 DEF Owned, Holds
  <1>5. \A s \in Session : Holds(s)' => gate'[node'[s]] = s
    BY DEF Owned
  <1>6. \A s \in Inbound : step'[s] = "evict" /\ node'[s] = recv' => offered'[s] = None
    BY <1>1, <1>2 DEF Owned, Holds
  <1>7. creating' # "no" => recv' = 0
    BY DEF Owned
  <1> QED BY <1>3, <1>4, <1>5, <1>6, <1>7 DEF Owned

\* A promotion reads the receiver.
LEMMA OwnedTaken ==
    ASSUME Inv, Owned, NEW s \in Session, step[s] \in {"params", "dial"}, recv # 0, Take(s), ~raced',
           UNCHANGED <<recv, live, creating>>,
           \A t \in Inbound : offered'[t] = IF t = s THEN None ELSE offered[t]
    PROVE  Owned'
  <1>1. Places /\ TypeOK /\ Inbound \subseteq Session /\ recv \in Nat /\ built \in Nat /\ s \notin live
    BY Typed DEF Inv, Places
  <1>2. recv \in Node /\ \A t \in Session : Holds(t) => node[t] \in Node
    BY <1>1, Limits, Typed DEF Places, Node
  <1>3. /\ step' = [step EXCEPT ![s] = "evict"] /\ node' = [node EXCEPT ![s] = recv]
        /\ gate' = [gate EXCEPT ![recv] = s] /\ step \in [Session -> Steps]
        /\ node \in [Session -> 0..MaxNodes] /\ gate \in [Node -> Session \cup {Other, None}]
    BY <1>1 DEF Take, TypeOK, Steps
  <1>4. \A t \in Session : step[t] = "evict" => node[t] # recv
    BY DEF Take, BeingTaken
  <1>5. \A t \in Session : /\ Holds(t)' <=> Holds(t) \/ t = s
                           /\ Holds(t) => node[t] # recv /\ t # s
                           /\ node'[t] = IF t = s THEN recv ELSE node[t]
    BY <1>1, <1>3, <1>4 DEF Holds, Owned
  <1>6. gate'[recv] = s /\ \A n \in Node : n # recv => gate'[n] = gate[n]
    BY <1>2, <1>3
  <1>7. \A x, t \in Session : Holds(x)' /\ Holds(t)' /\ node'[x] = node'[t] => x = t
    BY <1>5 DEF Owned
  <1>8. \A t \in live' : node'[t] # recv'
    BY <1>1, <1>5 DEF Owned, TypeOK
  <1>9. \A t \in Session : Holds(t)' => gate'[node'[t]] = t
    BY <1>2, <1>5, <1>6 DEF Owned
  <1>10. \A t \in Inbound : step'[t] = "evict" /\ node'[t] = recv' => offered'[t] = None
    BY <1>1, <1>3, <1>5 DEF Holds
  <1> QED BY <1>7, <1>8, <1>9, <1>10 DEF Owned

\* A receiver has started.
LEMMA OwnedStarted == ASSUME Inv, Owned, Started PROVE Owned'
  <1>1. Places /\ TypeOK /\ Inbound \subseteq Session /\ recv \in Nat /\ built \in Nat
    BY Typed DEF Inv
  <1>2. UNCHANGED <<step, node, live, gate, offered>> /\ creating' = "no" /\ recv' \in {recv, built + 1}
    BY DEF Started, sessionVars, offerVars
  <1>3. \A t \in Session : (Holds(t)' <=> Holds(t)) /\ (Holds(t) => node[t] # built + 1)
    BY <1>1, <1>2 DEF Holds, Places
  <1>4. \A s, t \in Session : Holds(s)' /\ Holds(t)' /\ node'[s] = node'[t] => s = t
    BY <1>2, <1>3 DEF Owned
  <1>5. \A t \in live' : node'[t] # recv'
    BY <1>1, <1>2, <1>3 DEF Owned, Holds, TypeOK
  <1>6. \A t \in Session : Holds(t)' => gate'[node'[t]] = t
    BY <1>2, <1>3 DEF Owned
  <1>7. \A t \in Inbound : step'[t] = "evict" /\ node'[t] = recv' => offered'[t] = None
    BY <1>1, <1>2, <1>3 DEF Owned, Holds
  <1> QED BY <1>2, <1>4, <1>5, <1>6, <1>7 DEF Owned

LEMMA OwnedInv == ASSUME Inv, [Next]_vars, ~raced, ~raced' PROVE Owned'
  <1>1. TypeOK /\ Places /\ Chained /\ Owned
    BY DEF Inv
  <1>2. /\ step \in [Session -> Steps] /\ node \in [Session -> 0..MaxNodes]
        /\ gate \in [Node -> Session \cup {Other, None}] /\ live \subseteq Session
        /\ Inbound \subseteq Session /\ Outbound \subseteq Session
        /\ \A s \in Session : s \in Inbound <=> s \notin Outbound
        /\ recv \in Nat /\ built \in Nat
    BY <1>1, Apart, Typed DEF TypeOK, Steps
  <1>3. /\ \A t \in Session : Holds(t) => node[t] \in Node
        /\ \A t \in live : step[t] # "evict" /\ node[t] # recv
    BY <1>1, <1>2, Limits, Typed DEF Places, Node, Owned
  <1>4. ASSUME UNCHANGED <<recv, live, node, gate, offered>>,
               \A t \in Session : step'[t] = "evict" <=> step[t] = "evict",
               creating' # "no" => creating # "no" \/ recv = 0
        PROVE  Owned'
    BY <1>1, <1>2, <1>4, OwnedKept DEF Holds
  <1>5. CASE UNCHANGED vars
    BY <1>4, <1>5 DEF vars, receiverVars, sessionVars, offerVars
  <1>6. CASE StartFails \/ Retries \/ AwaitSession \/ WaiterGone
    BY <1>4, <1>6
       DEF StartFails, Retries, AwaitSession, WaiterGone, receiverVars, sessionVars, offerVars
  <1>7. CASE SetOffline
    BY <1>1, <1>2, <1>7, OwnedKept DEF SetOffline, sessionVars, offerVars, Holds
  <1>8. CASE OfflineSessions
    <2>1. /\ live' = {} /\ UNCHANGED <<step, recv, offered>>
          /\ node' = [s \in Session |-> IF s \in live THEN 0 ELSE node[s]]
          /\ gate' = [n \in Node |-> IF n \in {node[s] : s \in live} THEN None ELSE gate[n]]
      BY <1>8 DEF OfflineSessions, Stop, offerVars
    <2>2. creating' # "no" => creating # "no" \/ recv = 0
      BY <1>1, <1>8, Ensured DEF OfflineSessions
    <2>3. \A t \in Session : Holds(t)' => t \notin live /\ Holds(t)
      BY <1>3, <2>1 DEF Holds
    <2>4. \A t \in Session : Holds(t)' => node[t] \notin {node[s] : s \in live}
      BY <1>1, <1>2, <2>3 DEF Owned, Holds
    <2>5. \A t \in Session : Holds(t)' => /\ Holds(t) /\ node'[t] = node[t]
                                          /\ gate'[node[t]] = gate[node[t]]
      BY <1>2, <1>3, <2>1, <2>3, <2>4
    <2> QED BY <1>1, <2>1, <2>2, <2>5, OwnedKept
  <1>9. CASE StartAgent
    <2>1. creating' # "no" => creating # "no" \/ recv = 0
      BY <1>1, <1>9, Ensured DEF StartAgent
    <2> QED BY <1>4, <1>9, <2>1 DEF StartAgent, sessionVars, offerVars
  \* An answered offer writes the gate of a receiver nobody is taking.
  <1>10. ASSUME NEW s \in Inbound, NEW p, recv # 0, ~BeingTaken(recv),
                UNCHANGED <<recv, step, live, node, creating>>,
                Admit(s, p, recv) \/ UNCHANGED <<gate, offered>>
         PROVE  Owned'
    <2>1. \A t \in Session : Holds(t) => node[t] # recv
      BY <1>1, <1>10 DEF BeingTaken, Holds, Owned
    <2>2. \A t \in Session : Holds(t)' => /\ Holds(t) /\ node'[t] = node[t]
                                          /\ gate'[node[t]] = gate[node[t]]
      BY <1>2, <1>3, <1>10, <2>1 DEF Admit, Holds
    <2>3. \A t \in Inbound : ~(step'[t] = "evict" /\ node[t] = recv)
      BY <1>2, <1>10, <2>1 DEF Holds
    <2> QED BY <1>1, <1>2, <1>10, <2>2, <2>3, OwnedKept
  <1>11. ASSUME NEW s \in Inbound, NEW p \in {s, Other}, Offer(s, p) PROVE Owned'
    <2>1. UNCHANGED <<recv, step, live, node, creating>> /\ recv # 0
      BY <1>11 DEF Offer, receiverVars, sessionVars
    <2>2. CASE Admit(s, p, recv) /\ raced' = (raced \/ BeingTaken(recv))
      BY <1>10, <2>1, <2>2
    <2>3. CASE UNCHANGED <<gate, offered, raced>>
      BY <1>4, <2>1, <2>3
    <2> QED BY <1>11, <2>2, <2>3 DEF Offer
  <1>12. ASSUME NEW s \in Inbound, Reserved(s) PROVE Owned'
    <2>1. asked[s].node = recv /\ ~BeingTaken(recv)
      BY <1>12 DEF Reserved
    <2>2. recv # 0 /\ UNCHANGED <<recv, step, live, node, creating>>
      BY <1>1, <1>2, <1>12, <2>1 DEF Reserved, Places, sessionVars
    <2> QED BY <1>10, <1>12, <2>1, <2>2 DEF Reserved
  <1>13. ASSUME NEW s \in Inbound, Refuse(s) PROVE Owned'
    <2>1. UNCHANGED <<recv, live, node, creating>> /\ Revoke(s)
      BY <1>13 DEF Refuse, receiverVars
    <2>2. \A t \in Session : step'[t] = "evict" <=> step[t] = "evict"
      BY <1>2, <1>13 DEF Refuse, Misread, Asked
    <2>3. \A t \in Session : Holds(t) => gate'[node[t]] = gate[node[t]]
      <3>1. SUFFICES ASSUME NEW t \in Session, Holds(t), node[t] = recv, offered[s] # None,
                            gate[recv] = offered[s]
                     PROVE  FALSE
        BY <1>2, <1>3, <2>1 DEF Revoke
      <3>2. step[t] = "evict" /\ gate[recv] = t
        BY <1>1, <1>3, <3>1 DEF Owned, Holds
      <3>3. offered[s] = s
        BY <1>1, <3>1, <3>2, Apart DEF Places
      <3> QED BY <1>1, <3>1, <3>2, <3>3 DEF Owned
    <2>4. \A t \in Inbound : offered'[t] \in {None, offered[t]}
      BY <1>1, <2>1 DEF Revoke, TypeOK
    <2> QED BY <1>1, <1>2, <2>1, <2>2, <2>3, <2>4, OwnedKept DEF Holds
  <1>14. ASSUME NEW s \in Inbound, Assign(s) PROVE Owned'
    <2>1. step[s] # "evict"
      BY <1>1, <1>14 DEF Chained, Assign, Known
    <2>2. \A t \in Session : step'[t] = "evict" <=> step[t] = "evict"
      BY <1>2, <1>14, <2>1 DEF Assign, Misread, Asked
    <2> QED BY <1>4, <1>14, <2>2 DEF Assign, receiverVars, offerVars
  <1>15. ASSUME NEW s \in Inbound, AcceptBegins(s) \/ ReceiverAwaited(s) PROVE Owned'
    <2>1. creating' # "no" => creating # "no" \/ recv = 0
      BY <1>1, <1>15, Ensured DEF AcceptBegins, ReceiverAwaited, receiverVars
    <2>2. \A t \in Session : step'[t] = "evict" <=> step[t] = "evict"
      BY <1>2, <1>15 DEF AcceptBegins, ReceiverAwaited
    <2> QED BY <1>4, <1>15, <2>1, <2>2 DEF AcceptBegins, ReceiverAwaited, receiverVars, offerVars
  <1>16. ASSUME NEW s \in Inbound, AcceptSession(s) PROVE Owned'
    <2>1. \A t \in Inbound : offered'[t] = IF t = s THEN None ELSE offered[t]
      BY <1>1, <1>16 DEF AcceptSession, TypeOK
    <2>2. CASE recv # 0 /\ Take(s) /\ UNCHANGED creating
      BY <1>1, <1>2, <1>16, <2>1, <2>2, OwnedTaken DEF AcceptSession
    <2>3. CASE recv = 0 /\ step' = [step EXCEPT ![s] = "none"] /\ UNCHANGED <<node, gate>>
      <3>1. \A t \in Session : step'[t] = "evict" <=> step[t] = "evict"
        BY <1>2, <1>16, <2>3 DEF AcceptSession
      <3>2. \A t \in Session : Holds(t)' => /\ Holds(t) /\ node'[t] = node[t]
                                            /\ gate'[node[t]] = gate[node[t]]
        BY <1>16, <2>3, <3>1 DEF AcceptSession, Holds
      <3>3. UNCHANGED <<recv, live>>
        BY <1>16 DEF AcceptSession
      <3> QED BY <1>1, <1>2, <2>1, <2>3, <3>1, <3>2, <3>3, OwnedKept
    <2> QED BY <1>16, <2>2, <2>3 DEF AcceptSession
  <1>17. ASSUME NEW s \in Outbound, Negotiate(s) \/ Connected(s) \/ Answered(s) \/ Unanswered(s)
         PROVE  Owned'
    <2>1. \A t \in Session : step'[t] = "evict" <=> step[t] = "evict"
      BY <1>2, <1>17 DEF Negotiate, Connected, Answered, Unanswered, Asked
    <2> QED BY <1>4, <1>17, <2>1
            DEF Negotiate, Connected, Answered, Unanswered, receiverVars, offerVars
  <1>18. ASSUME NEW s \in Outbound, CreateSession(s) PROVE Owned'
    <2>1. CASE recv # 0 /\ Take(s) /\ UNCHANGED creating
      BY <1>1, <1>2, <1>18, <2>1, OwnedTaken DEF CreateSession, offerVars
    <2>2. CASE recv = 0 /\ step' = [step EXCEPT ![s] = "done"] /\ UNCHANGED <<node, gate>>
      BY <1>2, <1>4, <1>18, <2>2 DEF CreateSession, offerVars
    <2> QED BY <1>18, <2>1, <2>2 DEF CreateSession
  <1>19. ASSUME NEW s \in Session, Evicted(s) PROVE Owned'
    <2>1. /\ recv' = 0 /\ live' = live \cup {s} /\ step[s] = "evict"
          /\ step' = [step EXCEPT ![s] = "handlers"] /\ UNCHANGED <<node, gate, offered, creating>>
      BY <1>19 DEF Evicted, offerVars
    <2>2. \A t \in Session : Holds(t)' <=> Holds(t)
      BY <1>2, <2>1 DEF Holds
    <2> QED BY <1>1, <1>2, <2>1, <2>2, OwnedKept
  <1>20. ASSUME NEW s \in Session, RowFails(s) PROVE Owned'
    <2>1. /\ recv' = 0 /\ Stop({node[s]}) /\ node' = [node EXCEPT ![s] = 0] /\ step[s] = "evict"
          /\ \E d \in {"none", "done"} : step' = [step EXCEPT ![s] = d]
          /\ UNCHANGED <<live, offered>>
      BY <1>20 DEF RowFails, offerVars
    <2>2. s \notin live
      BY <1>3, <2>1
    <2>3. \A t \in Session : Holds(t)' => t # s /\ Holds(t)
      BY <1>2, <2>1, <2>2 DEF Holds
    <2>4. \A t \in Session : Holds(t)' => node[t] # node[s]
      BY <1>1, <2>1, <2>3 DEF Owned, Holds
    <2>5. \A t \in Session : Holds(t)' => /\ Holds(t) /\ node'[t] = node[t]
                                          /\ gate'[node[t]] = gate[node[t]]
      BY <1>2, <1>3, <2>1, <2>3, <2>4 DEF Stop
    <2>6. \A t \in Inbound : step'[t] = "evict" => step[t] = "evict"
      BY <1>2, <2>1
    <2> QED BY <1>1, <1>2, <2>1, <2>5, <2>6, OwnedKept
  <1>21. ASSUME NEW s \in Session, Opened(s) PROVE Owned'
    <2>1. creating' # "no" => creating # "no" \/ recv = 0
      BY <1>1, <1>21, Ensured DEF Opened
    <2>2. \A t \in Session : step'[t] = "evict" <=> step[t] = "evict"
      BY <1>2, <1>21 DEF Opened
    <2> QED BY <1>4, <1>21, <2>1, <2>2 DEF Opened, offerVars
  <1>22. ASSUME NEW s \in Session, Close(s) PROVE Owned'
    <2>1. /\ s \in live /\ live' = live \ {s} /\ Stop({node[s]}) /\ node' = [node EXCEPT ![s] = 0]
          /\ UNCHANGED <<step, recv, offered>>
      BY <1>22 DEF Close, offerVars
    <2>2. creating' # "no" => creating # "no" \/ recv = 0
      BY <1>1, <1>22, Ensured DEF Close
    <2>3. \A t \in Session : Holds(t)' => t # s /\ Holds(t)
      BY <1>3, <2>1 DEF Holds
    <2>4. \A t \in Session : Holds(t)' => node[t] # node[s]
      BY <1>1, <2>1, <2>3 DEF Owned, Holds
    <2>5. \A t \in Session : Holds(t)' => /\ Holds(t) /\ node'[t] = node[t]
                                          /\ gate'[node[t]] = gate[node[t]]
      BY <1>2, <1>3, <2>1, <2>3, <2>4 DEF Stop
    <2> QED BY <1>1, <1>2, <2>1, <2>2, <2>5, OwnedKept
  <1> QED BY <1>5, <1>6, <1>7, <1>8, <1>9, <1>11, <1>12, <1>13, <1>14, <1>15, <1>16, <1>17, <1>18,
             <1>19, <1>20, <1>21, <1>22, OwnedStarted, <1>1 DEF Next

-----------------------------------------------------------------------------
(* Nodes.                                                                  *)

\* Nothing is built, stopped or promoted.
LEMMA CountedKept ==
    ASSUME Inv, Counted, UNCHANGED <<recv, built, stopped, node, live>>,
           \A t \in Session : step'[t] = "evict" <=> step[t] = "evict"
    PROVE  Counted'
  <1>1. \A t \in Session : Holds(t)' <=> Holds(t)
    BY DEF Holds
  <1> QED BY <1>1 DEF Counted

LEMMA CountedTaken ==
    ASSUME Inv, Counted, NEW s \in Session, step[s] \in {"params", "dial"}, Take(s),
           UNCHANGED <<recv, built, stopped, live>>
    PROVE  Counted'
  <1>1. /\ step' = [step EXCEPT ![s] = "evict"] /\ node' = [node EXCEPT ![s] = recv]
        /\ step \in [Session -> Steps] /\ node \in [Session -> 0..MaxNodes] /\ ~Holds(s)
    BY DEF Inv, Take, TypeOK, Steps, Places, Holds
  <1>2. \A t \in Session : /\ Holds(t)' <=> Holds(t) \/ t = s
                           /\ node'[t] = IF t = s THEN recv ELSE node[t]
                           /\ step'[t] = "evict" <=> step[t] = "evict" \/ t = s
    BY <1>1 DEF Holds
  <1> QED BY <1>1, <1>2 DEF Counted

\* Nodes are stopped whose sessions let go of them.
LEMMA CountedStopped ==
    ASSUME Inv, Owned, Counted, NEW gone \in SUBSET Session, \A t \in gone : Holds(t),
           stopped' = stopped \cup {node[t] : t \in gone}, UNCHANGED built,
           node' = [t \in Session |-> IF t \in gone THEN 0 ELSE node[t]],
           \A t \in Session : /\ Holds(t)' <=> Holds(t) /\ t \notin gone
                              /\ step'[t] = "evict" => step[t] = "evict" /\ recv' = recv,
           \/ recv' = recv /\ \A t \in gone : node[t] # recv
           \/ recv' = 0 /\ (recv = 0 \/ \E t \in gone : node[t] = recv)
    PROVE  Counted'
  <1>1. stopped \subseteq 1..built /\ \A t \in Session : Holds(t) => node[t] \in 1..built
    BY DEF Inv, TypeOK, Places
  <1>2. \A t \in Session : Holds(t)' => node'[t] = node[t] /\ node[t] \notin {node[x] : x \in gone}
    BY DEF Owned
  <1>3. recv' \notin stopped'
    BY <1>1 DEF Counted
  <1>4. \A n \in 1..built : n \in stopped' \/ n = recv' \/ \E s \in Session : Holds(s)' /\ node'[s] = n
    <2>1. SUFFICES ASSUME NEW n \in 1..built, n \notin stopped', n # recv'
                   PROVE  \E s \in Session : Holds(s)' /\ node'[s] = n
      OBVIOUS
    <2>2. n \notin stopped /\ n # recv
      BY <2>1
    <2>3. PICK s \in Session : Holds(s) /\ node[s] = n
      BY <2>2 DEF Counted
    <2>4. s \notin gone
      BY <2>1, <2>3
    <2> QED BY <2>3, <2>4
  <1>5. \A s \in Session : Holds(s)' => node'[s] \notin stopped'
    BY <1>2 DEF Counted
  <1>6. \A s \in Session : step'[s] = "evict" => node'[s] = recv'
    <2>1. \A s \in Session : step'[s] = "evict" => Holds(s)'
      BY DEF Holds
    <2> QED BY <1>2, <2>1 DEF Counted
  <1> QED BY <1>3, <1>4, <1>5, <1>6 DEF Counted

LEMMA CountedInv == ASSUME Inv, [Next]_vars, ~raced, ~late, ~raced', ~late' PROVE Counted'
  <1>1. TypeOK /\ Places /\ Chained /\ Owned /\ Counted
    BY DEF Inv
  <1>2. /\ step \in [Session -> Steps] /\ node \in [Session -> 0..MaxNodes] /\ live \subseteq Session
        /\ Inbound \subseteq Session /\ Outbound \subseteq Session
        /\ \A s \in Session : s \in Inbound <=> s \notin Outbound
        /\ recv \in Nat /\ built \in Nat /\ stopped \subseteq 1..built
        /\ \A t \in Session : Holds(t) => node[t] \in 1..built
        /\ \A t \in live : step[t] # "evict" /\ node[t] # recv
    BY <1>1, Apart, Typed DEF TypeOK, Steps, Places, Owned
  <1>3. ASSUME UNCHANGED <<recv, built, stopped, node, live, step>> PROVE Counted'
    BY <1>1, <1>3, CountedKept
  <1>4. CASE UNCHANGED vars
    BY <1>3, <1>4 DEF vars, receiverVars, sessionVars
  <1>5. CASE StartFails \/ Retries \/ AwaitSession \/ WaiterGone \/ StartAgent
    BY <1>3, <1>5
       DEF StartFails, Retries, AwaitSession, WaiterGone, StartAgent, receiverVars, sessionVars
  <1>6. CASE Started
    <2>1. recv = 0 /\ UNCHANGED <<step, node, live>> /\ built' = built + 1
      BY <1>1, <1>6 DEF Started, sessionVars, Owned
    <2>2. \A t \in Session : /\ Holds(t)' <=> Holds(t)
                             /\ step[t] # "evict"
      BY <1>1, <1>2, <2>1 DEF Holds, Counted
    <2>3. \/ recv' = 0 /\ stopped' = stopped \cup {built + 1}
          \/ recv' = built + 1 /\ stopped' = stopped
      BY <1>6, <2>1 DEF Started
    <2>4. 1..(built + 1) = 1..built \cup {built + 1} /\ built + 1 \notin 1..built /\ 0 \notin 1..(built + 1)
      BY <1>2
    <2>5. \A t \in Session : Holds(t)' => node'[t] \notin stopped'
      BY <1>1, <1>2, <2>1, <2>2, <2>3, <2>4 DEF Counted
    <2>6. recv' \notin stopped'
      BY <1>2, <2>3, <2>4
    <2>7. \A n \in 1..built' : n \in stopped' \/ n = recv' \/ \E s \in Session : Holds(s)' /\ node'[s] = n
      <3>1. SUFFICES ASSUME NEW n \in 1..built, n \notin stopped
                     PROVE  \E s \in Session : Holds(s)' /\ node'[s] = n
        BY <2>1, <2>3, <2>4
      <3>2. n # recv
        BY <2>1
      <3>3. PICK s \in Session : Holds(s) /\ node[s] = n
        BY <1>1, <3>1, <3>2 DEF Counted
      <3> QED BY <2>1, <2>2, <3>3
    <2> QED BY <2>1, <2>2, <2>5, <2>6, <2>7 DEF Counted
  <1>7. CASE SetOffline
    <2>1. /\ UNCHANGED <<step, node, live, built>> /\ recv' = 0
          /\ stopped' = IF recv = 0 THEN stopped ELSE stopped \cup {recv}
      BY <1>7 DEF SetOffline, sessionVars
    <2>2. \A t \in Session : step[t] # "evict"
      <3>1. ~\E t \in Session : step[t] \notin {"none", "queued", "done"}
        BY <1>7 DEF SetOffline
      <3> QED BY <3>1
    <2>3. \A t \in Session : (Holds(t)' <=> Holds(t)) /\ (Holds(t) => node[t] # recv)
      BY <1>2, <2>1, <2>2 DEF Holds
    <2>4. 0 \notin stopped'
      BY <1>2, <2>1
    <2> QED BY <1>1, <1>2, <2>1, <2>2, <2>3, <2>4 DEF Counted
  <1>8. CASE OfflineSessions
    <2>1. /\ live' = {} /\ UNCHANGED <<step, recv, built>>
          /\ node' = [s \in Session |-> IF s \in live THEN 0 ELSE node[s]]
          /\ stopped' = stopped \cup {node[s] : s \in live}
      BY <1>8 DEF OfflineSessions, Stop
    <2>2. /\ \A t \in live : Holds(t)
          /\ \A t \in Session : Holds(t)' <=> Holds(t) /\ t \notin live
      BY <1>2, <2>1 DEF Holds
    <2> QED BY <1>1, <1>2, <2>1, <2>2, CountedStopped
  <1>9. ASSUME NEW s \in Inbound, NEW p \in {s, Other}, Offer(s, p) PROVE Counted'
    BY <1>3, <1>9 DEF Offer, receiverVars, sessionVars
  <1>10. ASSUME NEW s \in Inbound, Reserved(s) PROVE Counted'
    <2>1. recv' = recv
      BY <1>10 DEF Reserved
    <2> QED BY <1>3, <1>10, <2>1 DEF Reserved, sessionVars
  <1>11. ASSUME NEW s \in Inbound, Refuse(s) PROVE Counted'
    <2>1. \A t \in Session : step'[t] = "evict" <=> step[t] = "evict"
      BY <1>2, <1>11 DEF Refuse, Misread, Asked
    <2> QED BY <1>1, <1>11, <2>1, CountedKept DEF Refuse, receiverVars
  <1>12. ASSUME NEW s \in Inbound, Assign(s) PROVE Counted'
    <2>1. step[s] # "evict"
      BY <1>1, <1>12 DEF Chained, Assign, Known
    <2>2. \A t \in Session : step'[t] = "evict" <=> step[t] = "evict"
      BY <1>2, <1>12, <2>1 DEF Assign, Misread, Asked
    <2> QED BY <1>1, <1>12, <2>2, CountedKept DEF Assign, receiverVars
  <1>13. ASSUME NEW s \in Inbound, AcceptBegins(s) \/ ReceiverAwaited(s) PROVE Counted'
    <2>1. \A t \in Session : step'[t] = "evict" <=> step[t] = "evict"
      BY <1>2, <1>13 DEF AcceptBegins, ReceiverAwaited
    <2> QED BY <1>1, <1>13, <2>1, CountedKept DEF AcceptBegins, ReceiverAwaited, receiverVars
  <1>14. ASSUME NEW s \in Inbound, AcceptSession(s) PROVE Counted'
    <2>1. CASE Take(s)
      BY <1>1, <1>2, <1>14, <2>1, CountedTaken DEF AcceptSession
    <2>2. CASE step' = [step EXCEPT ![s] = "none"] /\ UNCHANGED node
      <3>1. \A t \in Session : step'[t] = "evict" <=> step[t] = "evict"
        BY <1>2, <1>14, <2>2 DEF AcceptSession
      <3> QED BY <1>1, <1>14, <2>2, <3>1, CountedKept DEF AcceptSession
    <2> QED BY <1>14, <2>1, <2>2 DEF AcceptSession
  <1>15. ASSUME NEW s \in Outbound, Negotiate(s) \/ Connected(s) \/ Answered(s) \/ Unanswered(s)
         PROVE  Counted'
    <2>1. \A t \in Session : step'[t] = "evict" <=> step[t] = "evict"
      BY <1>2, <1>15 DEF Negotiate, Connected, Answered, Unanswered, Asked
    <2> QED BY <1>1, <1>15, <2>1, CountedKept DEF Negotiate, Connected, Answered, Unanswered, receiverVars
  <1>16. ASSUME NEW s \in Outbound, CreateSession(s) PROVE Counted'
    <2>1. CASE Take(s)
      BY <1>1, <1>2, <1>16, <2>1, CountedTaken DEF CreateSession
    <2>2. CASE step' = [step EXCEPT ![s] = "done"] /\ UNCHANGED node
      <3>1. \A t \in Session : step'[t] = "evict" <=> step[t] = "evict"
        BY <1>2, <1>16, <2>2 DEF CreateSession
      <3> QED BY <1>1, <1>16, <2>2, <3>1, CountedKept DEF CreateSession
    <2> QED BY <1>16, <2>1, <2>2 DEF CreateSession
  <1>17. ASSUME NEW s \in Session, step[s] = "evict"
         PROVE  node[s] = recv /\ \A t \in Session : step[t] = "evict" => t = s
    BY <1>1, <1>17 DEF Counted, Owned, Holds
  <1>18. ASSUME NEW s \in Session, Evicted(s) PROVE Counted'
    <2>1. /\ recv' = 0 /\ live' = live \cup {s} /\ step[s] = "evict"
          /\ step' = [step EXCEPT ![s] = "handlers"] /\ UNCHANGED <<node, stopped, built>>
      BY <1>18 DEF Evicted
    <2>2. \A t \in Session : (Holds(t)' <=> Holds(t)) /\ step'[t] # "evict"
      BY <1>2, <1>17, <2>1 DEF Holds
    <2>3. 0 \notin stopped /\ Holds(s)
      BY <1>2, <2>1 DEF Holds
    <2> QED BY <1>1, <1>17, <2>1, <2>2, <2>3 DEF Counted
  <1>19. ASSUME NEW s \in Session, RowFails(s) PROVE Counted'
    <2>1. /\ recv' = 0 /\ Stop({node[s]}) /\ node' = [node EXCEPT ![s] = 0] /\ step[s] = "evict"
          /\ \E d \in {"none", "done"} : step' = [step EXCEPT ![s] = d]
          /\ UNCHANGED <<live, built>>
      BY <1>19 DEF RowFails
    <2> DEFINE gone == {s}
    <2>2. stopped' = stopped \cup {node[t] : t \in gone}
      BY <2>1 DEF Stop
    <2>3. node' = [t \in Session |-> IF t \in gone THEN 0 ELSE node[t]]
      BY <1>2, <2>1
    <2>4. \A t \in Session : /\ Holds(t)' <=> Holds(t) /\ t \notin gone
                             /\ step'[t] # "evict"
      BY <1>2, <1>17, <2>1 DEF Holds
    <2>5. Holds(s) /\ node[s] = recv
      BY <1>17, <2>1 DEF Holds
    <2> QED BY <1>1, <2>1, <2>2, <2>3, <2>4, <2>5, CountedStopped
  <1>20. ASSUME NEW s \in Session, Opened(s) PROVE Counted'
    <2>1. \A t \in Session : step'[t] = "evict" <=> step[t] = "evict"
      BY <1>2, <1>20 DEF Opened
    <2> QED BY <1>1, <1>20, <2>1, CountedKept DEF Opened
  <1>21. ASSUME NEW s \in Session, Close(s) PROVE Counted'
    <2>1. /\ s \in live /\ live' = live \ {s} /\ Stop({node[s]}) /\ node' = [node EXCEPT ![s] = 0]
          /\ UNCHANGED <<step, recv, built>>
      BY <1>21 DEF Close
    <2> DEFINE gone == {s}
    <2>2. stopped' = stopped \cup {node[t] : t \in gone}
      BY <2>1 DEF Stop
    <2>3. node' = [t \in Session |-> IF t \in gone THEN 0 ELSE node[t]]
      BY <1>2, <2>1
    <2>4. \A t \in Session : Holds(t)' <=> Holds(t) /\ t \notin gone
      BY <1>2, <2>1 DEF Holds
    <2>5. Holds(s) /\ node[s] # recv
      BY <1>2, <2>1 DEF Holds
    <2> QED BY <1>1, <2>1, <2>2, <2>3, <2>4, <2>5, CountedStopped
  <1> QED BY <1>4, <1>5, <1>6, <1>7, <1>8, <1>9, <1>10, <1>11, <1>12, <1>13, <1>14, <1>15, <1>16,
             <1>18, <1>19, <1>20, <1>21 DEF Next

-----------------------------------------------------------------------------
(* An agent that is offline.                                               *)

LEMMA RestingInv == ASSUME Inv, [Next]_vars, raced => raced' PROVE Resting'
  <1>1. TypeOK /\ Places /\ Chained /\ Resting /\ (~raced => Owned)
    BY DEF Inv
  <1>2. /\ step \in [Session -> Steps] /\ Inbound \subseteq Session /\ Outbound \subseteq Session
        /\ \A s \in Session : s \in Inbound <=> s \notin Outbound
    BY <1>1, Apart DEF TypeOK, Steps
  <1>3. online \/ /\ ~wants
                  /\ \A s \in Session : step[s] \notin {"none", "queued", "done"} => s \in overtaken
                  /\ \/ raced \/ overtaken # {}
                     \/ /\ recv = 0 /\ (creating # "no" => removing)
                        /\ \A s \in Inbound : asked[s] = NoAsk
                  /\ stopping \/ live \subseteq overtaken
    BY <1>1 DEF Resting
  <1>4. CASE UNCHANGED vars
    BY <1>1, <1>4
       DEF Resting, vars, receiverVars, agentVars, offerVars, sessionVars, flagVars
  <1>5. CASE Started \/ StartFails \/ Retries
    BY <1>1, <1>5
       DEF Resting, Started, StartFails, Retries, agentVars, offerVars, sessionVars, flagVars
  <1>6. CASE SetOffline
    <2>1. /\ recv' = 0 /\ wants' = FALSE /\ stopping' = TRUE
          /\ UNCHANGED <<step, asked, creating, raced>>
          /\ overtaken' = {s \in Session : step[s] \notin {"none", "queued", "done"}}
                             \cup {s \in Inbound : asked[s] # NoAsk}
      BY <1>6 DEF SetOffline, sessionVars, offerVars
    <2>2. CASE ~raced
      <3>1. creating # "no" => removing'
        BY <1>1, <1>6, <2>2 DEF SetOffline, Owned
      <3>2. overtaken' # {} \/ \A s \in Inbound : asked[s] = NoAsk
        BY <2>1
      <3> QED BY <2>1, <3>1, <3>2 DEF Resting
    <2>3. CASE raced
      BY <2>1, <2>3 DEF Resting
    <2> QED BY <2>2, <2>3
  <1>7. CASE OfflineSessions
    <2>1. UNCHANGED <<online, recv, wants, step, asked, raced, overtaken>> /\ live' = {}
      BY <1>7 DEF OfflineSessions, offerVars, flagVars
    <2>2. ~wants => UNCHANGED <<creating, removing>>
      BY <1>7 DEF OfflineSessions
    <2> QED BY <1>3, <2>1, <2>2 DEF Resting
  <1>8. CASE StartAgent
    BY <1>8 DEF StartAgent, Resting
  <1>9. CASE AwaitSession \/ WaiterGone
    BY <1>1, <1>9
       DEF Resting, AwaitSession, WaiterGone, receiverVars, agentVars, offerVars, sessionVars,
           flagVars
  \* A step of what was overtaken.
  <1>10. ASSUME UNCHANGED <<online, stopping, wants, overtaken>>,
                online \/ raced \/ overtaken # {},
                \A t \in Session : step'[t] \in {step[t], "none", "queued", "done"}
                                   \/ online \/ t \in overtaken,
                \A t \in live' : t \in live \/ online \/ t \in overtaken
         PROVE  Resting'
    BY <1>3, <1>10 DEF Resting
  <1>11. ASSUME NEW s \in Inbound, NEW p \in {s, Other}, Offer(s, p) \/ Reserved(s) PROVE Resting'
    <2>1. online \/ raced \/ overtaken # {}
      BY <1>3, <1>11 DEF Offer, Reserved
    <2>2. UNCHANGED <<online, stopping, wants, overtaken, step, live>>
      BY <1>11 DEF Offer, Reserved, agentVars, receiverVars, sessionVars
    <2> QED BY <1>10, <2>1, <2>2
  <1>12. ASSUME NEW s \in Inbound, Refuse(s) \/ Assign(s) PROVE Resting'
    <2>1. UNCHANGED <<online, stopping, recv, wants, creating, removing, asked, live, raced, overtaken>>
      BY <1>12 DEF Refuse, Assign, receiverVars, offerVars, flagVars
    <2>2. \A t \in Session : step'[t] \in {step[t], "done", "queued"}
      BY <1>2, <1>12 DEF Refuse, Assign, Misread
    <2> QED BY <1>1, <2>1, <2>2 DEF Resting
  <1>13. ASSUME NEW s \in Inbound, AcceptBegins(s) PROVE Resting'
    <2>1. CASE online
      BY <1>13, <2>1 DEF AcceptBegins, agentVars, Resting
    <2>2. CASE ~online
      <3>1. /\ UNCHANGED <<online, stopping, recv, wants, creating, removing, asked, live, raced,
                           overtaken>>
            /\ step' = [step EXCEPT ![s] = "none"]
        BY <1>13, <2>2 DEF AcceptBegins, agentVars, offerVars, flagVars
      <3>2. \A t \in Session : step'[t] \in {step[t], "none"}
        BY <1>2, <3>1
      <3> QED BY <1>1, <3>1, <3>2 DEF Resting
    <2> QED BY <2>1, <2>2
  \* A step of the promotion of s.
  <1>14. ASSUME NEW s \in Session, step[s] \notin {"none", "queued", "done"},
                UNCHANGED <<online, stopping, wants, overtaken>>, live' \subseteq live \cup {s},
                \A t \in Session : t = s \/ step'[t] \in {step[t], "none", "queued", "done"}
         PROVE  Resting'
    <2>1. online \/ s \in overtaken
      BY <1>3, <1>14
    <2> QED BY <1>10, <1>14, <2>1
  <1>15. ASSUME NEW s \in Inbound, ReceiverAwaited(s) \/ AcceptSession(s) PROVE Resting'
    <2>1. /\ step[s] \in {"receiver", "params"} /\ \E d \in Steps : step' = [step EXCEPT ![s] = d]
          /\ UNCHANGED <<online, stopping, wants, overtaken, live>>
      BY <1>15 DEF ReceiverAwaited, AcceptSession, Take, Steps, receiverVars, agentVars, flagVars
    <2> QED BY <1>2, <1>14, <2>1
  <1>16. ASSUME NEW s \in Outbound, Connected(s) \/ Answered(s) \/ Unanswered(s) \/ CreateSession(s)
         PROVE  Resting'
    <2>1. /\ step[s] \in {"connect", "asked", "dial"}
          /\ UNCHANGED <<online, stopping, wants, overtaken, live>>
      BY <1>16 DEF Connected, Answered, Unanswered, CreateSession, Take, receiverVars, agentVars, flagVars
    <2>2. \A t \in Session : t = s \/ step'[t] \in {step[t], "done"}
      BY <1>2, <1>16 DEF Connected, Answered, Unanswered, CreateSession, Take
    <2> QED BY <1>2, <1>14, <2>1, <2>2
  <1>17. ASSUME NEW s \in Outbound, Negotiate(s) PROVE Resting'
    <2>1. CASE online
      BY <1>17, <2>1 DEF Negotiate, agentVars, Resting
    <2>2. CASE ~online
      <3>1. /\ UNCHANGED <<online, stopping, wants, live>> /\ overtaken' = overtaken \cup {s}
            /\ step' = [step EXCEPT ![s] = "connect"]
        BY <1>17, <2>2 DEF Negotiate, agentVars, receiverVars
      <3> QED BY <1>2, <1>3, <2>2, <3>1 DEF Resting
    <2> QED BY <2>1, <2>2
  <1>18. ASSUME NEW s \in Session, Evicted(s) \/ RowFails(s) \/ Opened(s) PROVE Resting'
    <2>1. /\ step[s] \in {"evict", "handlers"} /\ \E d \in Steps : step' = [step EXCEPT ![s] = d]
          /\ UNCHANGED <<online, stopping, wants, overtaken>> /\ live' \subseteq live \cup {s}
      BY <1>18 DEF Evicted, RowFails, Opened, Steps, receiverVars, agentVars, flagVars
    <2> QED BY <1>2, <1>14, <2>1
  <1>19. ASSUME NEW s \in Session, Close(s) PROVE Resting'
    <2>1. /\ UNCHANGED <<online, stopping, recv, wants, step, asked, raced, overtaken>>
          /\ live' \subseteq live
          /\ ~wants => UNCHANGED <<creating, removing>>
      BY <1>19 DEF Close, agentVars, offerVars, flagVars
    <2> QED BY <1>3, <2>1 DEF Resting
  <1> QED BY <1>4, <1>5, <1>6, <1>7, <1>8, <1>9, <1>11, <1>12, <1>13, <1>15, <1>16, <1>17, <1>18,
             <1>19 DEF Next

-----------------------------------------------------------------------------
(* The theorems.                                                           *)

LEMMA InitInv == ASSUME Init PROVE Inv
  <1>1. Range(<< >>) = {} /\ DOMAIN << >> = {} /\ << >> \in Seq(Inbound) /\ IsInjective(<< >>)
    BY DEF Range, IsInjective
  <1>2. TypeOK
    <2>1. online \in BOOLEAN /\ stopping \in BOOLEAN /\ slot \in BOOLEAN /\ wants \in BOOLEAN
          /\ removing \in BOOLEAN /\ raced \in BOOLEAN /\ unheard \in BOOLEAN /\ late \in BOOLEAN
      BY DEF Init
    <2>2. Flags
      BY <2>1, Zenon DEF Flags
    <2>3. asked \in [Inbound -> [node : 0..MaxNodes, dialer : Inbound \cup {Other, None}]]
      BY NoAskTyped DEF Init
    <2> QED BY <1>1, <2>2, <2>3, Limits DEF Init, TypeOK, Flags
  <1>3. \A s \in Session : ~Holds(s)
    BY DEF Init, Holds
  <1>4. Places
    BY <1>3, Apart DEF Init, Places, NoAsk
  <1>5. Chained
    BY <1>1, Apart DEF Init, Chained
  <1>6. Announced
    BY <1>1, Apart DEF Init, Announced, AnnouncedOnce
  <1>7. Owned
    <2>1. recv = 0 /\ live = {} /\ \A s \in Inbound : step[s] = "none"
      BY Apart DEF Init
    <2> QED BY <1>3, <2>1 DEF Owned
  <1>8. Counted /\ Resting
    BY <1>3 DEF Init, Counted, Resting, Holds
  <1> QED BY <1>2, <1>4, <1>5, <1>6, <1>7, <1>8 DEF Inv

\* A race, once it happened, stays on the record, and so does a stop that came too soon.
LEMMA FlagsStay == ASSUME Inv, [Next]_vars PROVE (raced => raced') /\ (late => late')
  <1>1. ASSUME UNCHANGED late PROVE late => late'
    BY <1>1, Zenon
  <1>2. ASSUME UNCHANGED raced PROVE raced => raced'
    BY <1>2, Zenon
  <1>3. ASSUME UNCHANGED flagVars \/ UNCHANGED <<raced, late>>
        PROVE  (raced => raced') /\ (late => late')
    BY <1>1, <1>2, <1>3 DEF flagVars
  <1>4. CASE UNCHANGED vars
    BY <1>3, <1>4 DEF vars
  <1>5. CASE Started \/ StartFails \/ Retries \/ OfflineSessions \/ StartAgent \/ AwaitSession
             \/ WaiterGone
    BY <1>3, <1>5 DEF Started, StartFails, Retries, OfflineSessions, StartAgent, AwaitSession, WaiterGone
  <1>6. CASE SetOffline
    <2>1. late => late'
      BY <1>6, Zenon DEF SetOffline
    <2> QED BY <1>2, <1>6, <2>1 DEF SetOffline
  <1>7. ASSUME NEW s \in Inbound, NEW p \in {s, Other}, Offer(s, p)
        PROVE  (raced => raced') /\ (late => late')
    <2>1. raced => raced'
      BY <1>7, Zenon DEF Offer
    <2> QED BY <1>1, <1>7, <2>1 DEF Offer
  <1>8. ASSUME NEW s \in Inbound, Reserved(s) PROVE (raced => raced') /\ (late => late')
    <2>1. raced => raced'
      BY <1>8, Zenon DEF Reserved
    <2> QED BY <1>1, <1>8, <2>1 DEF Reserved
  <1>9. ASSUME NEW s \in Session, Take(s) \/ UNCHANGED raced, UNCHANGED late
        PROVE  (raced => raced') /\ (late => late')
    <2>1. raced => raced'
      BY <1>9, Zenon DEF Take
    <2> QED BY <1>1, <1>9, <2>1
  <1>10. ASSUME NEW s \in Inbound, Refuse(s) \/ Assign(s) \/ AcceptBegins(s) \/ ReceiverAwaited(s)
         PROVE  (raced => raced') /\ (late => late')
    BY <1>3, <1>10 DEF Refuse, Assign, AcceptBegins, ReceiverAwaited
  <1>11. ASSUME NEW s \in Inbound, AcceptSession(s) PROVE (raced => raced') /\ (late => late')
    BY <1>9, <1>11, Apart DEF AcceptSession
  <1>12. ASSUME NEW s \in Outbound, Negotiate(s) \/ Connected(s) \/ Answered(s) \/ Unanswered(s)
         PROVE  (raced => raced') /\ (late => late')
    BY <1>3, <1>12 DEF Negotiate, Connected, Answered, Unanswered
  <1>13. ASSUME NEW s \in Outbound, CreateSession(s) PROVE (raced => raced') /\ (late => late')
    BY <1>9, <1>13, Apart DEF CreateSession
  <1>14. ASSUME NEW s \in Session, Evicted(s) \/ RowFails(s) \/ Opened(s) \/ Close(s)
         PROVE  (raced => raced') /\ (late => late')
    BY <1>3, <1>14 DEF Evicted, RowFails, Opened, Close
  <1> QED BY <1>4, <1>5, <1>6, <1>7, <1>8, <1>10, <1>11, <1>12, <1>13, <1>14 DEF Next

LEMMA NextInv == ASSUME Inv, [Next]_vars PROVE Inv'
  <1>1. TypeOK' /\ Places' /\ Chained' /\ Announced'
    BY TypeInv, PlacesInv, ChainedInv, AnnouncedInv
  <1>2. ~raced' => Owned'
    BY FlagsStay, OwnedInv
  <1>3. ~raced' /\ ~late' => Counted'
    BY FlagsStay, CountedInv
  <1>4. Resting'
    BY FlagsStay, RestingInv
  <1> QED BY <1>1, <1>2, <1>3, <1>4 DEF Inv

\* The inductive invariant: every step of the receiver, of an offer, of an assignment, of a
\* promotion and of a stop (session-node-manager.ts, inbound-sessions.ts, outbound-sessions.ts)
\* keeps it.
THEOREM Invariance == Spec => []Inv
  <1>1. Init => Inv
    BY InitInv
  <1>2. Inv /\ [Next]_vars => Inv'
    BY NextInv
  <1> QED BY <1>1, <1>2, PTL DEF Spec

\* The variables keep their types; in particular, a session waits in the accept chain once.
THEOREM TypeCorrect == Spec => []TypeOK
  <1>1. Inv => TypeOK
    BY DEF Inv
  <1> QED BY <1>1, Invariance, PTL

\* acceptSession and createSessionNode take the receiver they read for their session alone, and
\* its gate admits the session's peer alone, unless another promotion reads it before the
\* eviction is over or a reservation puts it back.
THEOREM SharedByRace == Spec => []SharedOnlyByRace
  <1>1. Inv => SharedOnlyByRace
    BY DEF Inv, SharedOnlyByRace, OneSessionPerReceiver, Owned, Holds, TypeOK
  <1> QED BY <1>1, Invariance, PTL

\* No promotion, failed insert, close or stop leaves a node running that neither
\* standingReceivers nor a session has, nor stops the node of a live session, short of a race
\* or of a stop that overtakes a promotion.
THEOREM NodesCounted == Spec => []NodesAccounted
  <1>1. ASSUME Inv, ~raced, ~late PROVE NodesAccounted
    <2>1. Counted /\ Places /\ live \subseteq Session
      BY <1>1 DEF Inv, TypeOK
    <2>2. \A s \in live : node[s] \notin stopped
      BY <2>1 DEF Counted, Holds
    <2>3. \A n \in 1..built : n \in stopped \/ n = recv
                              \/ \E s \in Session : node[s] = n /\ (s \in live \/ step[s] = "evict")
      BY <2>1 DEF Counted, Holds
    <2> QED BY <2>2, <2>3 DEF NodesAccounted
  <1>2. Inv => NodesAccounted
    BY <1>1 DEF NodesAccounted
  <1> QED BY <1>2, Invariance, PTL

\* What cello_set_agent_offline leaves behind: of sessions, those that were being promoted or
\* reserved for at the stop, and those begun since over a receiver that was not to be there; and
\* a receiver only if there were such, or a reservation put an old one back.  Any other accept,
\* request, build, pause or open session ends with the stop.
THEOREM OfflineRests == Spec => []OfflineIsOff
  <1>1. Inv => OfflineIsOff
    BY DEF Inv, OfflineIsOff, Resting
  <1> QED BY <1>1, Invariance, PTL

\* enqueueInboundSession and cello_await_session hand each accepted session out once: it was
\* told to a caller, or it waits in the queue in one place.
THEOREM AnnouncedSafe == Spec => []AnnouncedOnce
  <1>1. Inv => AnnouncedOnce
    BY DEF Inv, Announced
  <1> QED BY <1>1, Invariance, PTL

=============================================================================
