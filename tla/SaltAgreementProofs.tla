------------------------ MODULE SaltAgreementProofs ------------------------
(***************************************************************************)
(* Proofs about SaltAgreement for any number of messages and of faults.    *)
(*                                                                         *)
(* What a side hashed, and did not lose track of, is by one rule: while a  *)
(* message waits there is no salt to hash it by, every hash without the    *)
(* salt closes adoption by the counter or by its leaf, and every hash with *)
(* it keeps the salt from being erased by the flag or by its leaf (Ruled). *)
(* The peer keeps the salt of a salted leaf because a tree with a leaf     *)
(* closes adoption and forbids the erasure (Seen).  Until a side's maps    *)
(* are dropped, each side makes one half, so that there is one salt that   *)
(* anybody can derive or announce (Fresh).                                 *)
(* As long as no frame is lost, a side that would use a salt which its     *)
(* peer lacks or has suspended is owed a frame that ends this, and hearing *)
(* a frame on the way there sends the next one (Sharing).                  *)
(***************************************************************************)
EXTENDS SaltAgreement, FiniteSetTheorems, TLAPS

-----------------------------------------------------------------------------
(* The invariant.                                                          *)

Mem == [half : Nat, susp : BOOLEAN, plain : Nat, spent : BOOLEAN, told : BOOLEAN,
        ansHalf : SUBSET Half, ansPrint : SUBSET Half, pending : BOOLEAN]

Message == [st   : {"new", "waiting", "hashed", "placed", "void"},
            rule : Salt \cup {Plain}, seen : {"no", "yes", "refused"}]

\* The variables, mem as the functions and records they are.
Shaped ==
    /\ salt \in [Side -> Salt \cup {Plain}] /\ tree \in [Side -> SUBSET (Salt \cup {Plain})]
    /\ mem \in [Side -> Mem] /\ minted \in [Side -> Nat] /\ net = [p \in Side |-> net[p]]
    /\ up \in [Side -> BOOLEAN] /\ frozen \in [Side -> BOOLEAN]
    /\ doomed \in [Side -> BOOLEAN] /\ due \in [Side -> BOOLEAN]
    /\ msg \in [Msg -> Message] /\ cut \subseteq Msg
    /\ events \in 0..MaxEvents /\ evicted \in BOOLEAN /\ spoilt \in BOOLEAN

\* A half is the sender's, and the sender made it.
HalfOf(q, s) == \E k \in 1..minted[q] : s = {<<q, k>>}

\* What is on its way, and what was answered.
Framed ==
    \A p \in Side :
        /\ \A f \in DOMAIN net[p] : \/ f.kind = "half" /\ HalfOf(Peer(p), f.of)
                                    \/ f.kind = "print" /\ f.of \in Salt
                                    \/ f = ClosedFrame
        /\ mem[p].ansHalf = Plain \/ \E h \in Half : mem[p].ansHalf = {h}
        /\ mem[p].ansPrint \in Salt \cup {Plain}

\* Without the two nodes there are no frames; a frozen session has no node.
Down ==
    /\ (\E p \in Side : ~up[p]) => \A p \in Side : ~due[p] /\ DOMAIN net[p] = {}
    /\ \A p \in Side : frozen[p] => ~up[p]

\* Messages a side has hashed or given up.
Gone(p) == {i \in Msg : Sender(i) = p /\ msg[i].st \notin {"new", "waiting"}}

\* Halves are made once for each time the maps were dropped, hashes counted once a message.
Sized ==
    \A p \in Side :
        /\ mem[p].half <= minted[p] /\ minted[p] <= events + 1
        /\ mem[p].half = 0 /\ ~frozen[p] => minted[p] <= events
        /\ mem[p].plain <= Cardinality(Gone(p))

\* Hashes without the salt, not placed and not cut.
Loose(p) == {i \in Msg : Sender(i) = p /\ msg[i].st = "hashed" /\ msg[i].rule = Plain /\ i \notin cut}

\* A side's rule.
Ruled(p) ==
    /\ \A i \in Msg : Sender(i) = p /\ msg[i].st = "waiting" => salt[p] = Plain
    /\ \A i \in Msg : Sender(i) = p /\ msg[i].st = "placed" => tree[p] # {}
    /\ Cardinality(Loose(p)) <= mem[p].plain
    /\ \A i \in Msg : Sender(i) = p /\ msg[i].st \in {"hashed", "placed"} /\ i \notin cut =>
          salt[p] = msg[i].rule /\ (msg[i].rule = Plain \/ mem[p].spent \/ tree[p] # {})

\* What the peer took.
Seen ==
    \A i \in Msg : msg[i].seen = "yes" =>
        /\ msg[i].st \in {"hashed", "placed"}
        /\ tree[Peer(Sender(i))] # {}
        /\ msg[i].rule # Plain => salt[Peer(Sender(i))] = msg[i].rule

\* The one salt there is as long as no maps were dropped.
First == {<<A, 1>>, <<B, 1>>}

Fresh ==
    ~evicted => \A p \in Side :
        /\ mem[p].half = minted[p] /\ minted[p] <= 1
        /\ salt[p] # Plain => salt[p] = First /\ mem[p].half = 1
        /\ \A f \in DOMAIN net[p] : f.kind = "print" => f.of = First
        /\ ~doomed[p] /\ ~frozen[p]

Inv ==
    /\ Shaped /\ Framed /\ Down /\ Sized
    /\ \A p \in Side : Ruled(p)
    /\ Seen /\ Fresh

-----------------------------------------------------------------------------
(* Sides, salts and messages.                                              *)

LEMMA Sides ==
    /\ MaxMsgs \in Nat /\ MaxEvents \in Nat
    /\ \A p \in Side : /\ Peer(p) \in Side /\ Peer(p) # p /\ Peer(Peer(p)) = p
                       /\ \A q \in Side : q # p => q = Peer(p)
    /\ \A i \in Msg : Sender(i) \in Side
  BY AgreementAssumption DEF Side, Peer, Msg, Sender

\* Two halves make a salt, and no salt is none.
LEMMA SaltOfHalves ==
    /\ Plain \notin Salt
    /\ \A p \in Side : \A a, b \in 1..(MaxEvents + 1) : {<<p, a>>} \cup {<<Peer(p), b>>} \in Salt
  <1>1. Plain \notin Salt
    BY FS_EmptySet DEF Plain, Salt
  <1>2. ASSUME NEW p \in Side, NEW a \in 1..(MaxEvents + 1), NEW b \in 1..(MaxEvents + 1)
        PROVE  {<<p, a>>} \cup {<<Peer(p), b>>} \in Salt
    <2>1. <<p, a>> \in Half /\ <<Peer(p), b>> \in Half /\ <<p, a>> # <<Peer(p), b>>
      BY Sides DEF Half
    <2>2. IsFiniteSet({<<p, a>>}) /\ Cardinality({<<p, a>>}) = 1
      BY FS_Singleton
    <2>3. Cardinality({<<p, a>>} \cup {<<Peer(p), b>>}) = 1 + 1
      BY <2>1, <2>2, FS_AddElement
    <2> QED BY <2>1, <2>3 DEF Salt
  <1> QED BY <1>1, <1>2

LEMMA FirstIsSalt ==
    /\ First \in Salt
    /\ \A p \in Side : {<<p, 1>>} \cup {<<Peer(p), 1>>} = First
  <1>1. \A p \in Side : {<<p, 1>>} \cup {<<Peer(p), 1>>} = First
    BY DEF First, Side, Peer
  <1>2. 1 \in 1..(MaxEvents + 1) /\ A \in Side
    BY Sides DEF Side
  <1> QED BY <1>1, <1>2, SaltOfHalves

\* The messages of a side are at most MaxMsgs.
LEMMA Bounded ==
    ASSUME NEW p \in Side, NEW S \in SUBSET {i \in Msg : Sender(i) = p}
    PROVE  IsFiniteSet(S) /\ Cardinality(S) \in Nat /\ Cardinality(S) <= MaxMsgs
  <1> DEFINE f == [i \in S |-> i[2]]
  <1>1. IsFiniteSet(1..MaxMsgs) /\ Cardinality(1..MaxMsgs) = MaxMsgs
    <2>1. 1 \in Int /\ MaxMsgs \in Int /\ MaxMsgs \in Nat
      BY Sides
    <2> QED BY <2>1, FS_Interval
  <1>2. \A i \in S : i[1] = p /\ i[2] \in 1..MaxMsgs /\ i = <<i[1], i[2]>>
    BY DEF Msg, Sender
  <1>3. f \in Injection(S, 1..MaxMsgs)
    <2>1. f \in [S -> 1..MaxMsgs]
      BY <1>2
    <2>2. ASSUME NEW i \in S, NEW j \in S, f[i] = f[j] PROVE i = j
      BY <1>2, <2>2
    <2> QED BY <2>1, <2>2 DEF Injection, IsInjective
  <1>4. IsFiniteSet(S) /\ Cardinality(S) <= Cardinality(1..MaxMsgs)
    BY <1>1, <1>3, FS_Injection
  <1> QED BY <1>1, <1>4, FS_CardinalityType

LEMMA AddDom == ASSUME NEW b, NEW c PROVE DOMAIN (b (+) c) = DOMAIN b \cup DOMAIN c
  BY DEF (+)

LEMMA SubDom == ASSUME NEW b, NEW c PROVE DOMAIN (b (-) c) \subseteq DOMAIN b
  BY DEF (-)

LEMMA SetDom == ASSUME NEW S PROVE DOMAIN SetToBag(S) = S /\ DOMAIN EmptyBag = {}
  BY DEF SetToBag, EmptyBag

-----------------------------------------------------------------------------
(* What an agreement has in memory.                                        *)

\* As far as the rule of a side goes.
Same(m, n) ==
    /\ n \in Mem /\ n.half = m.half /\ n.plain = m.plain /\ (n.spent <=> m.spent)
    /\ n.ansHalf = m.ansHalf /\ n.ansPrint = m.ansPrint

LEMMA MarkedMem == ASSUME NEW m \in Mem PROVE Same(m, Marked(m))
  BY DEF Mem, Marked, Same

LEMMA CountedMem ==
    ASSUME NEW m \in Mem, NEW n \in Nat
    PROVE  LET c == CountPlain(m, n)
           IN  /\ c \in Mem /\ c.half = m.half /\ c.plain = m.plain + n /\ (c.spent <=> m.spent)
               /\ c.ansHalf = m.ansHalf /\ c.ansPrint = m.ansPrint
  <1>1. m.plain + n \in Nat /\ (m.told \/ n > 0) \in BOOLEAN
    BY DEF Mem
  <1>2. ASSUME NEW k \in Nat, NEW b \in BOOLEAN
        PROVE  LET c == [m EXCEPT !.plain = k, !.told = b]
               IN  /\ c \in Mem /\ c.half = m.half /\ c.plain = k /\ (c.spent <=> m.spent)
                   /\ c.ansHalf = m.ansHalf /\ c.ansPrint = m.ansPrint
    BY <1>2 DEF Mem
  <1> QED BY <1>1, <1>2 DEF CountPlain

LEMMA SettledMem ==
    ASSUME NEW m \in Mem, NEW p \in Side
    PROVE  LET c == SettledPlain(p, m)
           IN  /\ c \in Mem /\ c.half = m.half /\ c.plain = m.plain + Cardinality(Waiting(p))
               /\ (c.spent <=> m.spent) /\ c.ansHalf = m.ansHalf /\ c.ansPrint = m.ansPrint
  <1> DEFINE u == [m EXCEPT !.pending = FALSE]
  <1>1. Same(m, u)
    BY DEF Mem, Same
  <1>2. Cardinality(Waiting(p)) \in Nat
    BY Bounded DEF Waiting
  <1> HIDE DEF u
  <1>3. u \in Mem
    BY <1>1 DEF Same
  <1>4. LET c == CountPlain(u, Cardinality(Waiting(p)))
        IN  /\ c \in Mem /\ c.half = u.half /\ c.plain = u.plain + Cardinality(Waiting(p))
            /\ (c.spent <=> u.spent) /\ c.ansHalf = u.ansHalf /\ c.ansPrint = u.ansPrint
    BY <1>2, <1>3, CountedMem
  <1>5. SettledPlain(p, m) = CountPlain(u, Cardinality(Waiting(p)))
    BY DEF SettledPlain, u
  <1> QED BY <1>1, <1>4, <1>5 DEF Same

LEMMA StateMem ==
    ASSUME Shaped, NEW p \in Side
    PROVE  /\ OwnHalf(p) \in Nat
           /\ OwnHalf(p) = 0 => mem[p].half = 0 /\ salt[p] # Plain
           /\ State(p) \in Mem /\ State(p).half = OwnHalf(p) /\ State(p).plain = mem[p].plain
           /\ (State(p).spent <=> mem[p].spent)
           /\ State(p).ansHalf = mem[p].ansHalf /\ State(p).ansPrint = mem[p].ansPrint
  <1>1. mem[p] \in Mem /\ minted[p] \in Nat
    BY DEF Shaped
  <1>2. mem[p].half \in Nat
    BY <1>1 DEF Mem
  <1>3. OwnHalf(p) \in Nat /\ (OwnHalf(p) = 0 => mem[p].half = 0 /\ salt[p] # Plain)
    BY <1>1, <1>2 DEF OwnHalf, Mints
  <1>4. \A h \in Nat : LET c == [mem[p] EXCEPT !.half = h]
                       IN  /\ c \in Mem /\ c.half = h /\ c.plain = mem[p].plain
                           /\ (c.spent <=> mem[p].spent)
                           /\ c.ansHalf = mem[p].ansHalf /\ c.ansPrint = mem[p].ansPrint
    BY <1>1 DEF Mem
  <1> QED BY <1>3, <1>4 DEF State

LEMMA SuspendedMem ==
    ASSUME NEW m \in Mem, NEW p \in Side, NEW closed \in BOOLEAN PROVE Same(m, Suspended(p, m, closed))
  BY DEF Mem, Suspended, Same

-----------------------------------------------------------------------------
(* What a side does when it announces, hears a frame, or gives up on one.  *)

\* Its memory, and the half it may have made.
Remembers(p) ==
    /\ mem' \in [Side -> Mem] /\ \A q \in Side : q # p => mem'[q] = mem[q]
    /\ \/ UNCHANGED minted /\ mem'[p].half = mem[p].half
       \/ Minting(p) /\ mem'[p].half = OwnHalf(p)

\* The messages that waited go on without the salt.
Settling(p) ==
    /\ UNCHANGED salt /\ msg' = Hashed(Waiting(p), Plain)
    /\ mem'[p].plain = mem[p].plain + Cardinality(Waiting(p))
    /\ mem'[p].spent <=> mem[p].spent

Counting(p) == mem'[p].plain = mem[p].plain /\ (mem[p].spent => mem'[p].spent)

Standing(p) == UNCHANGED <<salt, msg>> /\ Counting(p)

\* The salt is derived, and they go on with it.
Deriving(p) ==
    \E s \in Salt :
        /\ salt[p] = Plain /\ ~Closed(p) /\ salt' = [salt EXCEPT ![p] = s]
        /\ msg' = Hashed(Waiting(p), s) /\ Counting(p) /\ (Waiting(p) # {} => mem'[p].spent)
        /\ evicted \/ (s = First /\ mem'[p].half = 1)

Erasing(p) ==
    /\ Unspent(mem[p], Closed(p)) /\ salt' = [salt EXCEPT ![p] = Plain]
    /\ UNCHANGED msg /\ Counting(p)

\* A frame p may send.
Honest(p, g) ==
    \/ g = Frame("half", {<<p, mem'[p].half>>}) /\ mem'[p].half # 0
    \/ g = Frame("print", salt'[p]) /\ salt'[p] # Plain
    \/ g = ClosedFrame

Frames(p) ==
    /\ \A q, r \in Side : DOMAIN net'[r] # {} => up[q]
    /\ net' = [q \in Side |-> net'[q]]
    /\ \A g \in DOMAIN net'[p] : g \in DOMAIN net[p]
    /\ \A g \in DOMAIN net'[Peer(p)] : g \in DOMAIN net[Peer(p)] \/ Honest(p, g)

\* What it answered.
Noted(p) ==
    /\ \/ mem'[p].ansHalf = mem[p].ansHalf
       \/ \E f \in DOMAIN net[p] : f.kind = "half" /\ mem'[p].ansHalf = f.of
    /\ \/ mem'[p].ansPrint = mem[p].ansPrint
       \/ \E f \in DOMAIN net[p] : f.kind = "print" /\ mem'[p].ansPrint = f.of

Handles(p) ==
    /\ Remembers(p) /\ (Settling(p) \/ Standing(p) \/ Deriving(p) \/ Erasing(p))
    /\ Frames(p) /\ Noted(p)
    /\ UNCHANGED <<tree, up, frozen, cut, evicted>>
    /\ events' \in {events, events + 1} /\ events' <= MaxEvents /\ spoilt' \in BOOLEAN
    /\ doomed' \in [Side -> BOOLEAN] /\ (evicted \/ UNCHANGED doomed)
    /\ due' \in [Side -> BOOLEAN] /\ \A q, r \in Side : due'[q] => up[r]

LEMMA InvParts ==
    ASSUME Inv
    PROVE  Shaped /\ Framed /\ Down /\ Sized /\ (\A p \in Side : Ruled(p)) /\ Seen /\ Fresh
  BY DEF Inv

\* Nobody has to do with a session without both nodes.
LEMMA BothUp ==
    ASSUME Inv, NEW p \in Side, due[p] \/ DOMAIN net[p] # {}
    PROVE  \A q \in Side : up[q] /\ ~frozen[q]
  BY InvParts DEF Down

LEMMA SentNat == Sent \in Nat
  <1>1. IsFiniteSet({A}) /\ IsFiniteSet({A} \cup {B})
    BY FS_Singleton, FS_AddElement
  <1>2. Side = {A} \cup {B}
    BY DEF Side
  <1>3. 1 \in Int /\ MaxMsgs \in Int
    BY Sides
  <1>4. IsFiniteSet(1..MaxMsgs)
    BY <1>3, FS_Interval
  <1>5. IsFiniteSet(Msg)
    BY <1>1, <1>2, <1>4, FS_Product DEF Msg
  <1>6. {j \in Msg : msg[j].st # "new"} \subseteq Msg
    OBVIOUS
  <1> QED BY <1>5, <1>6, FS_Subset, FS_CardinalityType DEF Sent

\* A bound of the events, and the flag of the histories.
LEMMA Troubled ==
    ASSUME Inv, NEW fails \in BOOLEAN, Trouble(fails)
    PROVE  events' \in {events, events + 1} /\ events' <= MaxEvents /\ events' \in 0..MaxEvents
           /\ spoilt' \in BOOLEAN
  <1>1. /\ events \in Nat /\ events <= MaxEvents /\ MaxEvents \in Nat /\ spoilt \in BOOLEAN
        /\ Sent \in Nat
    BY InvParts, Sides, SentNat DEF Shaped
  <1>2. spoilt' \in BOOLEAN
    BY <1>1 DEF Trouble
  <1>3. events' \in {events, events + 1} /\ events' <= MaxEvents
    <2> DEFINE n == Sent
    <2> HIDE DEF n
    <2>1. n \in Nat
      BY <1>1 DEF n
    <2>2. events' = events \/ (n + events < MaxEvents /\ events' = events + 1)
      BY DEF Trouble, Event, n
    <2> QED BY <1>1, <2>1, <2>2
  <1> QED BY <1>1, <1>2, <1>3

\* Exchange, as the frames that are there afterwards.
LEMMA Exchanged ==
    ASSUME Inv, NEW p \in Side, NEW f \in DOMAIN net[p], NEW answers, Exchange(p, f, answers),
           \A g \in answers : Honest(p, g)
    PROVE  Frames(p)
  <1>1. /\ \A q \in Side : up[q]
        /\ net = [q \in Side |-> net[q]] /\ Peer(p) \in Side /\ Peer(p) # p
    BY BothUp, InvParts, Sides DEF Shaped
  <1>2. /\ net' = [q \in Side |-> net'[q]]
        /\ net'[p] = net[p] (-) SetToBag({f})
        /\ net'[Peer(p)] = net[Peer(p)] (+) SetToBag(answers)
    BY <1>1 DEF Exchange
  <1>3. DOMAIN net'[p] \subseteq DOMAIN net[p]
    BY <1>2, SubDom
  <1>4. DOMAIN net'[Peer(p)] = DOMAIN net[Peer(p)] \cup answers
    <2>1. DOMAIN SetToBag(answers) = answers
      BY SetDom
    <2> QED BY <1>2, <2>1, AddDom
  <1> QED BY <1>1, <1>2, <1>3, <1>4 DEF Frames

LEMMA AnnounceHandles == ASSUME Inv, NEW p \in Side, Announce(p) PROVE Handles(p)
  <1>1. Shaped /\ p \in Side /\ mem \in [Side -> Mem] /\ due \in [Side -> BOOLEAN]
    BY InvParts DEF Shaped
  <1>2. Same(State(p), Marked(State(p)))
    BY <1>1, StateMem, MarkedMem
  <1>3. mem' \in [Side -> Mem] /\ (\A q \in Side : q # p => mem'[q] = mem[q]) /\ mem'[p] = Marked(State(p))
    BY <1>1, <1>2 DEF Announce, Same
  <1>4. Remembers(p) /\ Standing(p) /\ Noted(p)
    BY <1>1, <1>2, <1>3, StateMem DEF Announce, Remembers, Standing, Counting, Noted, Same
  <1>5. mem'[p].half = OwnHalf(p)
    BY <1>1, <1>2, <1>3, StateMem DEF Same
  <1>6. Frames(p)
    <2> DEFINE g == IF salt[p] = Plain THEN HalfFrame(p) ELSE PrintFrame(p)
    <2>1. due[p] /\ \A q \in Side : up[q]
      BY BothUp DEF Announce
    <2>2. net = [q \in Side |-> net[q]] /\ Peer(p) \in Side /\ Peer(p) # p
      BY <1>1, Sides DEF Shaped
    <2>3. /\ net' = [q \in Side |-> net'[q]] /\ net'[p] = net[p]
          /\ net'[Peer(p)] = net[Peer(p)] (+) SetToBag({g})
      BY <2>2 DEF Announce
    <2>4. Honest(p, g)
      BY <1>1, <1>5, StateMem DEF Honest, HalfFrame, PrintFrame, Announce
    <2> HIDE DEF g
    <2>5. DOMAIN SetToBag({g}) = {g}
      BY SetDom
    <2>6. DOMAIN net'[Peer(p)] = DOMAIN net[Peer(p)] \cup {g}
      BY <2>3, <2>5, AddDom
    <2> QED BY <2>1, <2>3, <2>4, <2>6 DEF Frames
  <1>7. due' \in [Side -> BOOLEAN] /\ \A q, r \in Side : due'[q] => up[r]
    BY <1>1, BothUp DEF Announce
  <1>8. events \in Nat /\ events <= MaxEvents /\ spoilt \in BOOLEAN /\ doomed \in [Side -> BOOLEAN]
    BY <1>1, Sides DEF Shaped
  <1>9. UNCHANGED <<tree, up, frozen, cut, evicted, events, spoilt, doomed>>
    BY DEF Announce, nodeVars
  <1> QED BY <1>4, <1>6, <1>7, <1>8, <1>9 DEF Handles

\* What the receiving actions have in common.
LEMMA HandlesIf ==
    ASSUME Inv, NEW p \in Side, Remembers(p), Noted(p), Frames(p),
           Settling(p) \/ Standing(p) \/ Deriving(p) \/ Erasing(p),
           UNCHANGED <<tree, up, frozen, due, cut, evicted>>,
           UNCHANGED events \/ (events' \in {events, events + 1} /\ events' <= MaxEvents),
           UNCHANGED spoilt \/ spoilt' \in BOOLEAN,
           UNCHANGED doomed \/ (evicted /\ doomed' \in [Side -> BOOLEAN])
    PROVE  Handles(p)
  <1>1. Shaped /\ events \in Nat /\ events <= MaxEvents
    BY InvParts, Sides DEF Shaped
  <1>2. due' \in [Side -> BOOLEAN] /\ \A q, r \in Side : due'[q] => up[r]
    BY <1>1, BothUp DEF Shaped
  <1> QED BY <1>1, <1>2 DEF Handles, Shaped

LEMMA Hearer ==
    ASSUME Inv, NEW p \in Side, NEW n \in Mem, mem' = [mem EXCEPT ![p] = n],
           (UNCHANGED minted /\ n.half = mem[p].half) \/ (Minting(p) /\ n.half = OwnHalf(p))
    PROVE  Remembers(p) /\ mem'[p] = n
  BY InvParts DEF Shaped, Remembers

\* Those of them that end the wait.
LEMMA Settler ==
    ASSUME Inv, NEW p \in Side, NEW m \in Mem, mem' = [mem EXCEPT ![p] = SettledPlain(p, m)],
           (UNCHANGED minted /\ m.half = mem[p].half) \/ (Minting(p) /\ m.half = OwnHalf(p)),
           m.plain = mem[p].plain, m.spent <=> mem[p].spent, m.ansHalf = mem[p].ansHalf,
           m.ansPrint = mem[p].ansPrint, msg' = Hashed(Waiting(p), Plain), UNCHANGED salt
    PROVE  Remembers(p) /\ Settling(p) /\ Noted(p) /\ mem'[p].half = m.half
  <1> DEFINE c == SettledPlain(p, m)
  <1>1. /\ c \in Mem /\ c.half = m.half /\ c.plain = m.plain + Cardinality(Waiting(p))
        /\ (c.spent <=> m.spent) /\ c.ansHalf = m.ansHalf /\ c.ansPrint = m.ansPrint
    BY SettledMem
  <1> HIDE DEF c
  <1>2. Remembers(p) /\ mem'[p] = c
    <2>1. mem' = [mem EXCEPT ![p] = c]
      BY DEF c
    <2>2. (UNCHANGED minted /\ c.half = mem[p].half) \/ (Minting(p) /\ c.half = OwnHalf(p))
      BY <1>1
    <2>3. c \in Mem
      BY <1>1
    <2> QED BY <2>1, <2>2, <2>3, Hearer
  <1>3. Settling(p) /\ Noted(p)
    BY <1>1, <1>2 DEF Settling, Noted
  <1> QED BY <1>1, <1>2, <1>3

LEMMA ClosedHandles ==
    ASSUME Inv, NEW p \in Side, NEW fails \in BOOLEAN, ClosedArrives(p, fails)
    PROVE  Handles(p)
  <1> DEFINE m == Suspended(p, State(p), Closed(p) \/ fails)
  <1>1. Shaped
    BY InvParts
  <1>2. (Closed(p) \/ fails) \in BOOLEAN
    OBVIOUS
  <1>3. Same(State(p), m)
    BY <1>1, <1>2, StateMem, SuspendedMem
  <1>4. m \in Mem /\ m.half = OwnHalf(p) /\ m.plain = mem[p].plain /\ (m.spent <=> mem[p].spent)
        /\ m.ansHalf = mem[p].ansHalf /\ m.ansPrint = mem[p].ansPrint
    BY <1>1, <1>3, StateMem DEF Same
  <1>5. mem' = [mem EXCEPT ![p] = SettledPlain(p, m)]
    BY DEF ClosedArrives
  <1> HIDE DEF m
  <1>6. Remembers(p) /\ Settling(p) /\ Noted(p)
    BY <1>4, <1>5, Settler DEF ClosedArrives
  <1>7. Frames(p)
    <2>1. Honest(p, ClosedFrame)
      BY DEF Honest
    <2> QED BY <2>1, Exchanged DEF ClosedArrives
  <1>8. events' \in {events, events + 1} /\ events' <= MaxEvents /\ spoilt' \in BOOLEAN
    BY Troubled DEF ClosedArrives
  <1> QED BY <1>6, <1>7, <1>8, HandlesIf DEF ClosedArrives, nodeVars

LEMMA StateSettles ==
    ASSUME Inv, NEW p \in Side, mem' = [mem EXCEPT ![p] = SettledPlain(p, State(p))], Minting(p),
           msg' = Hashed(Waiting(p), Plain), UNCHANGED salt
    PROVE  Remembers(p) /\ Settling(p) /\ Noted(p)
  <1>1. Shaped
    BY InvParts
  <1>2. /\ State(p) \in Mem /\ State(p).half = OwnHalf(p) /\ State(p).plain = mem[p].plain
        /\ (State(p).spent <=> mem[p].spent)
        /\ State(p).ansHalf = mem[p].ansHalf /\ State(p).ansPrint = mem[p].ansPrint
    BY <1>1, StateMem
  <1> QED BY <1>2, Settler

LEMMA DeclineHandles ==
    ASSUME Inv, NEW p \in Side, NEW f \in DOMAIN net[p], NEW fails \in BOOLEAN, Declines(p, f, fails)
    PROVE  Handles(p)
  <1>1. Remembers(p) /\ Settling(p) /\ Noted(p)
    BY StateSettles DEF Declines
  <1>2. Frames(p)
    <2>1. \A g \in {ClosedFrame} : Honest(p, g)
      BY DEF Honest
    <2> QED BY <2>1, Exchanged DEF Declines
  <1>3. events' \in {events, events + 1} /\ events' <= MaxEvents /\ spoilt' \in BOOLEAN
    BY Troubled DEF Declines
  <1> QED BY <1>1, <1>2, <1>3, HandlesIf DEF Declines, nodeVars

LEMMA UnstoredHandles ==
    ASSUME Inv, NEW p \in Side, NEW f \in DOMAIN net[p], DerivesUnstored(p, f)
    PROVE  Handles(p)
  <1>1. Remembers(p) /\ Settling(p) /\ Noted(p)
    BY StateSettles DEF DerivesUnstored
  <1>2. Frames(p)
    BY Exchanged DEF DerivesUnstored
  <1>3. events' \in {events, events + 1} /\ events' <= MaxEvents /\ spoilt' \in BOOLEAN
    BY Troubled DEF DerivesUnstored
  <1> QED BY <1>1, <1>2, <1>3, HandlesIf DEF DerivesUnstored, nodeVars

\* The salt of a half that is on its way and of this side's.
LEMMA Derived ==
    ASSUME Inv, NEW p \in Side, NEW f \in DOMAIN net[p], f.kind = "half", salt[p] = Plain
    PROVE  LET s == {<<p, OwnHalf(p)>>} \cup f.of
           IN  s \in Salt /\ (evicted \/ (s = First /\ OwnHalf(p) = 1))
  <1>1. Shaped /\ Framed /\ Sized /\ Fresh /\ Peer(p) \in Side
    BY InvParts, Sides
  <1>2. PICK k \in 1..minted[Peer(p)] : f.of = {<<Peer(p), k>>}
    <2>1. f.kind # "print" /\ f # ClosedFrame
      BY DEF ClosedFrame, Frame
    <2> QED BY <1>1, <2>1 DEF Framed, HalfOf
  <1>3. /\ mem[p].half \in Nat /\ minted[p] \in Nat /\ minted[Peer(p)] \in Nat /\ events \in Nat
        /\ events <= MaxEvents /\ MaxEvents \in Nat
    BY <1>1, Sides DEF Shaped, Mem
  <1>4. ~frozen[p]
    BY BothUp
  <1>5. OwnHalf(p) \in 1..(MaxEvents + 1) /\ k \in 1..(MaxEvents + 1)
    <2>1. minted[Peer(p)] <= events + 1 /\ mem[p].half <= minted[p] /\ minted[p] <= events + 1
      BY <1>1 DEF Sized
    <2>2. mem[p].half = 0 => minted[p] <= events
      BY <1>1, <1>4 DEF Sized
    <2> QED BY <1>3, <2>1, <2>2 DEF OwnHalf, Mints
  <1>6. {<<p, OwnHalf(p)>>} \cup f.of \in Salt
    BY <1>2, <1>5, SaltOfHalves
  <1>7. ~evicted => OwnHalf(p) = 1 /\ k = 1
    <2>1. ~evicted => mem[p].half = minted[p] /\ minted[p] <= 1 /\ minted[Peer(p)] <= 1
      BY <1>1 DEF Fresh
    <2> QED BY <1>3, <2>1 DEF OwnHalf, Mints
  <1>8. ~evicted => {<<p, OwnHalf(p)>>} \cup f.of = First
    BY <1>2, <1>7, FirstIsSalt
  <1> QED BY <1>6, <1>7, <1>8

LEMMA DeriveHandles ==
    ASSUME Inv, NEW p \in Side, NEW f \in DOMAIN net[p], Derives(p, f)
    PROVE  Handles(p)
  <1> DEFINE s == {<<p, OwnHalf(p)>>} \cup f.of
             w == Waiting(p) # {}
             n == [Marked(State(p)) EXCEPT !.spent = @ \/ w]
  <1>1. Shaped /\ salt \in [Side -> Salt \cup {Plain}]
    BY InvParts DEF Shaped
  <1>2. s \in Salt /\ (evicted \/ (s = First /\ OwnHalf(p) = 1))
    BY Derived DEF Derives
  <1>3. salt' = [salt EXCEPT ![p] = s] /\ msg' = Hashed(Waiting(p), s) /\ mem' = [mem EXCEPT ![p] = n]
        /\ Exchange(p, f, {Frame("print", s)}) /\ ~Closed(p) /\ salt[p] = Plain /\ Minting(p)
    BY DEF Derives
  <1> HIDE DEF s
  <1>4. /\ n \in Mem /\ n.half = OwnHalf(p) /\ n.plain = mem[p].plain /\ (mem[p].spent \/ w => n.spent)
        /\ n.ansHalf = mem[p].ansHalf /\ n.ansPrint = mem[p].ansPrint
    <2> DEFINE m == Marked(State(p))
    <2>1. Same(State(p), m)
      BY <1>1, StateMem, MarkedMem
    <2>2. m \in Mem /\ m.half = OwnHalf(p) /\ m.plain = mem[p].plain /\ (m.spent <=> mem[p].spent)
          /\ m.ansHalf = mem[p].ansHalf /\ m.ansPrint = mem[p].ansPrint
      BY <1>1, <2>1, StateMem DEF Same
    <2> HIDE DEF m
    <2>3. w \in BOOLEAN
      OBVIOUS
    <2> HIDE DEF w
    <2>4. LET c == [m EXCEPT !.spent = @ \/ w]
          IN  c \in Mem /\ c.half = m.half /\ c.plain = m.plain /\ (m.spent \/ w => c.spent)
              /\ c.ansHalf = m.ansHalf /\ c.ansPrint = m.ansPrint
      BY <2>2, <2>3 DEF Mem
    <2> QED BY <2>2, <2>4 DEF m
  <1> HIDE DEF n
  <1>5. Remembers(p) /\ mem'[p] = n
    BY <1>3, <1>4, Hearer
  <1>6. Deriving(p) /\ Noted(p)
    BY <1>2, <1>3, <1>4, <1>5 DEF Deriving, Counting, Noted
  <1>7. Frames(p)
    <2>1. salt'[p] = s /\ s # Plain
      BY <1>1, <1>2, <1>3, SaltOfHalves
    <2>2. \A g \in {Frame("print", s)} : Honest(p, g)
      BY <2>1 DEF Honest
    <2> QED BY <1>3, <2>2, Exchanged
  <1>8. events' \in {events, events + 1} /\ events' <= MaxEvents /\ spoilt' \in BOOLEAN
    BY Troubled DEF Derives
  <1> QED BY <1>5, <1>6, <1>7, <1>8, HandlesIf DEF Derives, nodeVars

LEMMA AskHandles ==
    ASSUME Inv, NEW p \in Side, NEW f \in DOMAIN net[p], Asks(p, f)
    PROVE  Handles(p)
  <1>1. Shaped /\ mem[p] \in Mem /\ spoilt \in BOOLEAN
    BY InvParts DEF Shaped
  <1>2. CASE mem[p].ansPrint = f.of
    <2>1. Remembers(p) /\ Settling(p) /\ Noted(p)
      BY <1>2, StateSettles DEF Asks
    <2>2. Frames(p)
      <3>1. \A g \in {ClosedFrame} : Honest(p, g)
        BY DEF Honest
      <3> QED BY <1>2, <3>1, Exchanged DEF Asks
    <2>3. spoilt' \in BOOLEAN
      BY <1>1 DEF Asks
    <2> QED BY <2>1, <2>2, <2>3, HandlesIf DEF Asks, nodeVars
  <1>3. CASE mem[p].ansPrint # f.of
    <2> DEFINE n == [Marked(State(p)) EXCEPT !.ansPrint = f.of]
    <2>1. f.of \in SUBSET Half
      <3>1. f.of \in Salt
        BY InvParts DEF Framed, Asks, ClosedFrame, Frame
      <3> QED BY <3>1 DEF Salt
    <2>2. /\ n \in Mem /\ n.half = OwnHalf(p) /\ n.plain = mem[p].plain /\ (n.spent <=> mem[p].spent)
          /\ n.ansHalf = mem[p].ansHalf /\ n.ansPrint = f.of
      <3> DEFINE m == Marked(State(p))
      <3>1. Same(State(p), m)
        BY <1>1, StateMem, MarkedMem
      <3>2. m \in Mem /\ m.half = OwnHalf(p) /\ m.plain = mem[p].plain /\ (m.spent <=> mem[p].spent)
            /\ m.ansHalf = mem[p].ansHalf
        BY <1>1, <3>1, StateMem DEF Same
      <3> HIDE DEF m
      <3>3. LET c == [m EXCEPT !.ansPrint = f.of]
            IN  c \in Mem /\ c.half = m.half /\ c.plain = m.plain /\ (c.spent <=> m.spent)
                /\ c.ansHalf = m.ansHalf /\ c.ansPrint = f.of
        BY <2>1, <3>2 DEF Mem
      <3> QED BY <3>2, <3>3 DEF m
    <2>3. mem' = [mem EXCEPT ![p] = n]
      BY <1>3 DEF Asks
    <2> HIDE DEF n
    <2>4. Remembers(p) /\ mem'[p] = n
      BY <2>2, <2>3, Hearer DEF Asks
    <2>5. Standing(p) /\ Noted(p)
      BY <1>3, <2>2, <2>4 DEF Standing, Counting, Noted, Asks
    <2>6. Frames(p)
      <3>1. OwnHalf(p) # 0
        BY <1>1, StateMem DEF Asks
      <3>2. \A g \in {HalfFrame(p)} : Honest(p, g)
        BY <2>2, <2>4, <3>1 DEF Honest, HalfFrame
      <3> QED BY <1>3, <3>2, Exchanged DEF Asks
    <2>7. spoilt' \in BOOLEAN
      BY <1>1 DEF Asks
    <2> QED BY <2>4, <2>5, <2>6, <2>7, HandlesIf DEF Asks, nodeVars
  <1> QED BY <1>2, <1>3

LEMMA RepairHandles ==
    ASSUME Inv, NEW p \in Side, NEW f \in DOMAIN net[p], Repairs(p, f)
    PROVE  Handles(p)
  <1> DEFINE m == Marked(mem[p])
             n == [m EXCEPT !.ansHalf = f.of]
  <1>1. Shaped /\ mem[p] \in Mem /\ f.kind = "half" /\ salt[p] # Plain /\ mem[p].half # 0
    BY InvParts DEF Shaped, Repairs
  <1>2. f.of \in SUBSET Half
    <2>1. PICK k \in 1..minted[Peer(p)] : f.of = {<<Peer(p), k>>}
      BY <1>1, InvParts DEF Framed, HalfOf, ClosedFrame, Frame
    <2>2. Peer(p) \in Side /\ minted[Peer(p)] <= events + 1 /\ events <= MaxEvents /\ events \in Nat
          /\ MaxEvents \in Nat /\ minted[Peer(p)] \in Nat
      BY InvParts, Sides DEF Sized, Shaped
    <2>3. k \in 1..(MaxEvents + 1)
      BY <2>2
    <2> QED BY <2>1, <2>2, <2>3 DEF Half
  <1>3. Same(mem[p], m)
    BY <1>1, MarkedMem
  <1>4. mem' = [mem EXCEPT ![p] = n]
    BY DEF Repairs
  <1> HIDE DEF m
  <1>5. n \in Mem /\ n.half = m.half /\ n.plain = m.plain /\ (n.spent <=> m.spent)
        /\ n.ansHalf = f.of /\ n.ansPrint = m.ansPrint
    BY <1>2, <1>3 DEF Mem, Same
  <1> HIDE DEF n
  <1>6. Remembers(p) /\ mem'[p] = n
    <2>1. n \in Mem /\ UNCHANGED minted /\ n.half = mem[p].half
      BY <1>3, <1>5 DEF Repairs, Same
    <2> QED BY <1>4, <2>1, Hearer
  <1>7. Standing(p) /\ Noted(p)
    BY <1>1, <1>3, <1>5, <1>6 DEF Standing, Counting, Noted, Repairs, Same
  <1>8. Frames(p)
    <2>1. n.half = mem[p].half /\ OwnHalf(p) = mem[p].half
      BY <1>1, <1>3, <1>5 DEF Same, OwnHalf, Mints
    <2>2. \A g \in {Repair(p, f)} : Honest(p, g)
      BY <1>1, <1>6, <2>1 DEF Honest, Repair, HalfFrame, PrintFrame, Repairs
    <2> QED BY <2>2, Exchanged DEF Repairs
  <1> QED BY <1>6, <1>7, <1>8, HandlesIf DEF Repairs, nodeVars

LEMMA DivergeHandles ==
    ASSUME Inv, NEW p \in Side, NEW f \in DOMAIN net[p], Diverges(p, f)
    PROVE  Handles(p)
  <1>1. Shaped /\ mem \in [Side -> Mem] /\ doomed \in [Side -> BOOLEAN]
    BY InvParts DEF Shaped
  <1>2. Remembers(p) /\ Standing(p) /\ Noted(p)
    BY <1>1 DEF Remembers, Standing, Counting, Noted, Diverges
  <1>3. Frames(p)
    BY Exchanged DEF Diverges
  <1>4. evicted /\ doomed' \in [Side -> BOOLEAN]
    <2>1. evicted
      BY InvParts DEF Fresh, Diverges
    <2> QED BY <1>1, <2>1 DEF Diverges
  <1> QED BY <1>2, <1>3, <1>4, HandlesIf DEF Diverges

LEMMA ConfirmHandles ==
    ASSUME Inv, NEW p \in Side, NEW f \in DOMAIN net[p], Confirms(p, f)
    PROVE  Handles(p)
  <1> DEFINE erased == mem[p].susp /\ mem[p].told /\ Unspent(mem[p], Closed(p))
             n == [mem[p] EXCEPT !.susp = FALSE, !.pending = FALSE]
  <1>1. mem[p] \in Mem /\ salt \in [Side -> Salt \cup {Plain}] /\ spoilt \in BOOLEAN
    BY InvParts DEF Shaped
  <1>2. n \in Mem /\ n.half = mem[p].half /\ n.plain = mem[p].plain /\ (n.spent <=> mem[p].spent)
        /\ n.ansHalf = mem[p].ansHalf /\ n.ansPrint = mem[p].ansPrint
    BY <1>1 DEF Mem
  <1>3. mem' = [mem EXCEPT ![p] = n]
    BY DEF Confirms
  <1> HIDE DEF n
  <1>4. Remembers(p) /\ mem'[p] = n
    BY <1>2, <1>3, Hearer DEF Confirms
  <1>5. Noted(p) /\ Counting(p)
    BY <1>2, <1>4 DEF Counting, Noted
  <1>6. Standing(p) \/ Erasing(p)
    <2>1. CASE erased
      BY <1>5, <2>1 DEF Erasing, Confirms
    <2>2. CASE ~erased
      BY <1>1, <1>5, <2>2 DEF Standing, Confirms
    <2> QED BY <2>1, <2>2
  <1>7. Frames(p)
    BY Exchanged DEF Confirms
  <1>8. spoilt' \in BOOLEAN
    <2>1. mem[p].susp \in BOOLEAN
      BY <1>1 DEF Mem
    <2> QED BY <1>1, <2>1 DEF Confirms
  <1> QED BY <1>4, <1>5, <1>6, <1>7, <1>8, HandlesIf DEF Confirms, nodeVars

LEMMA MismatchHandles ==
    ASSUME Inv, NEW p \in Side, NEW f \in DOMAIN net[p], Mismatches(p, f)
    PROVE  Handles(p)
  <1>1. Shaped /\ mem[p] \in Mem /\ doomed \in [Side -> BOOLEAN]
    BY InvParts DEF Shaped
  <1>2. Same(mem[p], Marked(mem[p]))
    BY <1>1, MarkedMem
  <1>3. Remembers(p) /\ mem'[p] = Marked(mem[p])
    BY <1>2, Hearer DEF Mismatches, Same
  <1>4. Standing(p) /\ Noted(p)
    BY <1>2, <1>3 DEF Standing, Counting, Noted, Mismatches, Same
  <1>5. Frames(p)
    <2>1. \A g \in {PrintFrame(p)} : Honest(p, g)
      BY DEF Honest, PrintFrame, Mismatches
    <2> QED BY <2>1, Exchanged DEF Mismatches
  <1>6. evicted /\ doomed' \in [Side -> BOOLEAN]
    <2>1. evicted
      BY InvParts DEF Fresh, Mismatches
    <2> QED BY <1>1, <2>1 DEF Mismatches
  <1> QED BY <1>3, <1>4, <1>5, <1>6, HandlesIf DEF Mismatches

LEMMA GivesUpHandles ==
    ASSUME Inv, NEW p \in Side, Timeout(p) \/ \E f \in DOMAIN net[Peer(p)] : SendFails(p, f)
    PROVE  Remembers(p) /\ Settling(p) /\ Noted(p)
  <1>1. mem[p] \in Mem
    BY InvParts DEF Shaped
  <1> QED BY <1>1, Settler DEF Timeout, SendFails

LEMMA ReceiveHandles == ASSUME Inv, NEW p \in Side, Receive(p) PROVE Handles(p)
  BY ClosedHandles, DeclineHandles, DeriveHandles, UnstoredHandles, AskHandles, RepairHandles,
     DivergeHandles, ConfirmHandles, MismatchHandles DEF Receive

LEMMA SendFailsHandles ==
    ASSUME Inv, NEW p \in Side, NEW f \in DOMAIN net[Peer(p)], SendFails(p, f) PROVE Handles(p)
  <1>1. Remembers(p) /\ Settling(p) /\ Noted(p)
    BY GivesUpHandles
  <1>2. Peer(p) \in Side /\ Peer(p) # p /\ net = [q \in Side |-> net[q]]
    BY Sides, InvParts DEF Shaped
  <1>3. Frames(p)
    <2>1. \A q \in Side : up[q]
      BY <1>2, BothUp DEF SendFails
    <2>2. /\ net' = [q \in Side |-> net'[q]] /\ net'[p] = net[p]
          /\ net'[Peer(p)] = net[Peer(p)] (-) SetToBag({f})
      BY <1>2 DEF SendFails
    <2>3. DOMAIN net'[Peer(p)] \subseteq DOMAIN net[Peer(p)]
      BY <2>2, SubDom
    <2> QED BY <2>1, <2>2, <2>3 DEF Frames
  <1>4. events' \in {events, events + 1} /\ events' <= MaxEvents /\ spoilt' \in BOOLEAN
    BY Troubled DEF SendFails
  <1> QED BY <1>1, <1>3, <1>4, HandlesIf DEF SendFails, nodeVars

LEMMA TimeoutHandles == ASSUME Inv, NEW p \in Side, Timeout(p) PROVE Handles(p)
  <1>1. Remembers(p) /\ Settling(p) /\ Noted(p)
    BY GivesUpHandles
  <1>2. Frames(p)
    <2>1. Down /\ net = [q \in Side |-> net[q]]
      BY InvParts DEF Shaped
    <2> QED BY <2>1 DEF Frames, Down, Timeout
  <1> QED BY <1>1, <1>2, HandlesIf DEF Timeout, nodeVars

-----------------------------------------------------------------------------
(* What that leaves of the invariant.                                      *)

LEMMA WaitingIn == ASSUME NEW p \in Side PROVE Waiting(p) \in SUBSET {i \in Msg : Sender(i) = p}
  BY DEF Waiting

\* Messages a rule is used for.
LEMMA HashedMsg ==
    ASSUME Shaped, NEW is \in SUBSET Msg, NEW rule \in Salt \cup {Plain}, msg' = Hashed(is, rule)
    PROVE  /\ msg' \in [Msg -> Message]
           /\ \A i \in is : msg'[i].st = "hashed" /\ msg'[i].rule = rule /\ msg'[i].seen = "no"
           /\ \A i \in Msg \ is : msg'[i] = msg[i]
  <1> DEFINE m == [st |-> "hashed", rule |-> rule, seen |-> "no"]
  <1>1. m \in Message /\ m.st = "hashed" /\ m.rule = rule /\ m.seen = "no"
    BY DEF Message
  <1>2. msg' = [i \in Msg |-> IF i \in is THEN m ELSE msg[i]] /\ msg \in [Msg -> Message]
    BY DEF Hashed, Shaped
  <1> HIDE DEF m
  <1> QED BY <1>1, <1>2

\* The messages of the side that handles something, and of the other.
LEMMA HandledMsgs ==
    ASSUME Inv, NEW p \in Side, Handles(p)
    PROVE  /\ salt' \in [Side -> Salt \cup {Plain}] /\ \A q \in Side : q # p => salt'[q] = salt[q]
           /\ msg' \in [Msg -> Message]
           /\ \A i \in Msg : \/ msg'[i] = msg[i]
                             \/ /\ i \in Waiting(p) /\ msg'[i].st = "hashed" /\ msg'[i].seen = "no"
                                /\ msg'[i].rule = salt'[p]
           /\ Settling(p) \/ Deriving(p) => \A i \in Waiting(p) : msg'[i].st = "hashed"
  <1>1. Shaped /\ salt \in [Side -> Salt \cup {Plain}] /\ msg \in [Msg -> Message]
    BY InvParts DEF Shaped
  <1>2. Waiting(p) \in SUBSET Msg /\ \A i \in Waiting(p) : salt[p] = Plain
    BY InvParts DEF Waiting, Ruled
  <1>3. CASE Settling(p)
    <2>1. msg' = Hashed(Waiting(p), Plain) /\ salt' = salt
      BY <1>3 DEF Settling
    <2>2. Plain \in Salt \cup {Plain}
      OBVIOUS
    <2>3. /\ msg' \in [Msg -> Message]
          /\ \A i \in Waiting(p) : msg'[i].st = "hashed" /\ msg'[i].rule = Plain /\ msg'[i].seen = "no"
          /\ \A i \in Msg \ Waiting(p) : msg'[i] = msg[i]
      BY <1>1, <1>2, <2>1, <2>2, HashedMsg
    <2> QED BY <1>1, <1>2, <2>1, <2>3
  <1>4. CASE Standing(p)
    <2>1. msg' = msg /\ salt' = salt
      BY <1>4 DEF Standing
    <2>2. ~Deriving(p) \/ Waiting(p) = {}
      <3>1. ASSUME Deriving(p), NEW s \in Salt, salt' = [salt EXCEPT ![p] = s], salt[p] = Plain
            PROVE FALSE
        BY <1>1, <2>1, <3>1, SaltOfHalves
      <3> QED BY <3>1 DEF Deriving
    <2>3. ~Settling(p) \/ Waiting(p) = {}
      <3>1. ASSUME Settling(p), NEW i \in Waiting(p) PROVE FALSE
        <4>1. msg'[i].st = "hashed"
          BY <1>1, <1>2, <3>1, HashedMsg DEF Settling
        <4>2. msg[i].st = "waiting"
          BY DEF Waiting
        <4> QED BY <2>1, <4>1, <4>2
      <3> QED BY <3>1
    <2> QED BY <1>1, <2>1, <2>2, <2>3
  <1>5. CASE Deriving(p)
    <2>1. PICK s \in Salt : salt' = [salt EXCEPT ![p] = s] /\ msg' = Hashed(Waiting(p), s)
      BY <1>5 DEF Deriving
    <2>2. /\ msg' \in [Msg -> Message]
          /\ \A i \in Waiting(p) : msg'[i].st = "hashed" /\ msg'[i].rule = s /\ msg'[i].seen = "no"
          /\ \A i \in Msg \ Waiting(p) : msg'[i] = msg[i]
      BY <1>1, <1>2, <2>1, HashedMsg
    <2>3. salt'[p] = s
      BY <1>1, <2>1
    <2> QED BY <1>1, <1>2, <2>1, <2>2, <2>3
  <1>6. CASE Erasing(p)
    <2>1. msg' = msg /\ salt' = [salt EXCEPT ![p] = Plain]
      BY <1>6 DEF Erasing
    <2>2. Settling(p) \/ Deriving(p) => \A i \in Waiting(p) : msg'[i].st = "hashed"
      <3>1. CASE Settling(p)
        BY <1>1, <1>2, <3>1, HashedMsg DEF Settling
      <3>2. CASE Deriving(p)
        BY <1>1, <1>2, <3>2, HashedMsg DEF Deriving
      <3> QED BY <3>1, <3>2
    <2> QED BY <1>1, <2>1, <2>2
  <1> QED BY <1>3, <1>4, <1>5, <1>6 DEF Handles

LEMMA HandlesShaped == ASSUME Inv, NEW p \in Side, Handles(p) PROVE Shaped'
  <1>1. Shaped /\ Peer(p) \in Side /\ MaxEvents \in Nat
    BY InvParts, Sides
  <1>2. salt' \in [Side -> Salt \cup {Plain}] /\ msg' \in [Msg -> Message]
    BY HandledMsgs
  <1>3. mem' \in [Side -> Mem] /\ minted' \in [Side -> Nat]
    BY <1>1 DEF Handles, Remembers, Shaped, Minting
  <1>4. events' \in 0..MaxEvents
    BY <1>1 DEF Handles, Shaped
  <1> QED BY <1>1, <1>2, <1>3, <1>4 DEF Handles, Frames, Shaped

\* Halves made.
LEMMA HandlesHalves ==
    ASSUME Inv, NEW p \in Side, Handles(p), ~frozen[p] \/ UNCHANGED minted
    PROVE  /\ \A q \in Side : minted[q] <= minted'[q] /\ mem'[q].half <= minted'[q]
           /\ \A q \in Side : minted'[q] <= events' + 1
           /\ \A q \in Side : mem'[q].half = 0 /\ ~frozen'[q] => minted'[q] <= events'
           /\ \A q \in Side : mem'[q].half \in Nat /\ minted'[q] \in Nat
  <1>1. Shaped /\ Sized /\ events \in Nat /\ events' \in {events, events + 1} /\ minted \in [Side -> Nat]
        /\ frozen' = frozen
    BY InvParts DEF Shaped, Handles
  <1>2. \A q \in Side : mem[q].half \in Nat /\ minted[q] \in Nat
    BY <1>1 DEF Shaped, Mem
  <1>3. \A q \in Side : q # p => mem'[q] = mem[q] /\ minted'[q] = minted[q]
    BY <1>1 DEF Handles, Remembers, Minting
  <1>4. \/ minted'[p] = minted[p] /\ mem'[p].half = mem[p].half
        \/ ~frozen[p] /\ mem[p].half = 0 /\ minted'[p] = minted[p] + 1 /\ mem'[p].half = minted[p] + 1
    <2>1. CASE UNCHANGED minted /\ mem'[p].half = mem[p].half
      BY <2>1
    <2>2. CASE Minting(p) /\ mem'[p].half = OwnHalf(p)
      <3>1. CASE Mints(p)
        <4>1. minted'[p] = minted[p] + 1 /\ mem'[p].half = minted[p] + 1 /\ mem[p].half = 0
          BY <1>1, <2>2, <3>1 DEF Minting, OwnHalf, Mints
        <4>2. minted'[p] # minted[p]
          BY <1>2, <4>1
        <4> QED BY <4>1, <4>2
      <3>2. CASE ~Mints(p)
        BY <1>1, <2>2, <3>2 DEF Minting, OwnHalf
      <3> QED BY <3>1, <3>2
    <2> QED BY <2>1, <2>2 DEF Handles, Remembers
  <1> SUFFICES ASSUME NEW q \in Side
               PROVE  /\ minted[q] <= minted'[q] /\ mem'[q].half <= minted'[q]
                      /\ minted'[q] <= events' + 1
                      /\ mem'[q].half = 0 /\ ~frozen'[q] => minted'[q] <= events'
                      /\ mem'[q].half \in Nat /\ minted'[q] \in Nat
    OBVIOUS
  <1>5. /\ mem[q].half <= minted[q] /\ minted[q] <= events + 1
        /\ mem[q].half = 0 /\ ~frozen[q] => minted[q] <= events
    BY <1>1 DEF Sized
  <1>6. CASE minted'[q] = minted[q] /\ mem'[q].half = mem[q].half
    BY <1>1, <1>2, <1>5, <1>6
  <1>7. CASE ~frozen[q] /\ mem[q].half = 0 /\ minted'[q] = minted[q] + 1 /\ mem'[q].half = minted[q] + 1
    BY <1>1, <1>2, <1>5, <1>7
  <1> QED BY <1>3, <1>4, <1>6, <1>7

LEMMA HandlesFramed ==
    ASSUME Inv, NEW p \in Side, Handles(p), ~frozen[p] \/ UNCHANGED minted
    PROVE  Framed'
  <1>1. /\ Framed /\ Shaped /\ Peer(p) \in Side /\ Peer(p) # p /\ Peer(Peer(p)) = p
        /\ \A q \in Side : q # p => q = Peer(p)
    BY InvParts, Sides
  <1>2. \A q \in Side : minted[q] <= minted'[q] /\ minted[q] \in Nat /\ minted'[q] \in Nat
    BY <1>1, HandlesHalves DEF Shaped
  <1>3. \A q \in Side : \A s : HalfOf(q, s) => HalfOf(q, s)'
    <2> SUFFICES ASSUME NEW q \in Side, NEW s, NEW k \in 1..minted[q], s = {<<q, k>>}
                 PROVE  \E j \in 1..minted'[q] : s = {<<q, j>>}
      BY DEF HalfOf
    <2>1. k \in 1..minted'[q]
      BY <1>2
    <2> QED BY <2>1
  <1>4. ASSUME NEW q \in Side, NEW f \in DOMAIN net'[q]
        PROVE  \/ f.kind = "half" /\ HalfOf(Peer(q), f.of)'
               \/ f.kind = "print" /\ f.of \in Salt
               \/ f = ClosedFrame
    <2>1. CASE f \in DOMAIN net[q]
      BY <1>1, <1>3, <2>1, Sides DEF Framed
    <2>2. CASE f \notin DOMAIN net[q]
      <3>1. q = Peer(p) /\ Honest(p, f)
        BY <1>1, <2>2 DEF Handles, Frames
      <3>2. CASE f = Frame("half", {<<p, mem'[p].half>>}) /\ mem'[p].half # 0
        <4>1. mem'[p].half \in 1..minted'[p]
          BY <3>2, HandlesHalves
        <4>2. f.kind = "half" /\ f.of = {<<p, mem'[p].half>>}
          BY <3>2 DEF Frame
        <4>3. HalfOf(p, f.of)'
          BY <4>1, <4>2 DEF HalfOf
        <4> QED BY <1>1, <3>1, <4>2, <4>3
      <3>3. CASE f = Frame("print", salt'[p]) /\ salt'[p] # Plain
        <4>1. salt'[p] \in Salt \cup {Plain}
          BY HandledMsgs
        <4> QED BY <3>3, <4>1 DEF Frame
      <3> QED BY <3>1, <3>2, <3>3 DEF Honest
    <2> QED BY <2>1, <2>2
  <1>5. ASSUME NEW q \in Side
        PROVE  /\ mem'[q].ansHalf = Plain \/ \E h \in Half : mem'[q].ansHalf = {h}
               /\ mem'[q].ansPrint \in Salt \cup {Plain}
    <2>1. CASE q # p
      BY <1>1, <2>1 DEF Handles, Remembers, Framed
    <2>2. CASE q = p
      <3>1. \A f \in DOMAIN net[p] : f.kind = "half" => \E h \in Half : f.of = {h}
        <4> SUFFICES ASSUME NEW f \in DOMAIN net[p], f.kind = "half" PROVE \E h \in Half : f.of = {h}
          OBVIOUS
        <4>1. PICK k \in 1..minted[Peer(p)] : f.of = {<<Peer(p), k>>}
          BY <1>1 DEF Framed, HalfOf, ClosedFrame, Frame
        <4>2. minted[Peer(p)] <= events + 1 /\ events \in Nat /\ events <= MaxEvents /\ MaxEvents \in Nat
          BY <1>1, InvParts, Sides DEF Sized, Shaped
        <4>3. <<Peer(p), k>> \in Half
          BY <1>1, <1>2, <4>2 DEF Half
        <4> QED BY <4>1, <4>3
      <3>2. \A f \in DOMAIN net[p] : f.kind = "print" => f.of \in Salt
        BY <1>1 DEF Framed, ClosedFrame, Frame
      <3> QED BY <1>1, <2>2, <3>1, <3>2 DEF Handles, Noted, Framed
    <2> QED BY <2>1, <2>2
  <1> QED BY <1>4, <1>5 DEF Framed

LEMMA HandlesDown == ASSUME Inv, NEW p \in Side, Handles(p) PROVE Down'
  <1>1. Down
    BY InvParts
  <1>2. \A q \in Side : (\E r \in Side : ~up[r]) => DOMAIN net'[q] = {}
    BY DEF Handles, Frames
  <1>3. \A q \in Side : (\E r \in Side : ~up[r]) => ~due'[q]
    BY DEF Handles
  <1> QED BY <1>1, <1>2, <1>3 DEF Down, Handles

\* Sets of a side's messages.
LEMMA Cards ==
    ASSUME NEW p \in Side, NEW S \in SUBSET {i \in Msg : Sender(i) = p},
           NEW T \in SUBSET {i \in Msg : Sender(i) = p}
    PROVE  /\ Cardinality(S) \in Nat /\ Cardinality(T) \in Nat
           /\ S \subseteq T => Cardinality(S) <= Cardinality(T)
           /\ Cardinality(S \cup T) <= Cardinality(S) + Cardinality(T)
           /\ (\A i \in S : i \notin T) => Cardinality(S \cup T) = Cardinality(S) + Cardinality(T)
           /\ \A i : i \notin S => Cardinality(S \cup {i}) = Cardinality(S) + 1
           /\ \A i \in S : Cardinality(S \ {i}) = Cardinality(S) - 1
           /\ (Cardinality(S) = 0) <=> (S = {})
  <1>1. IsFiniteSet(S) /\ IsFiniteSet(T) /\ Cardinality(S) \in Nat /\ Cardinality(T) \in Nat
    BY Bounded
  <1>2. S \subseteq T => Cardinality(S) <= Cardinality(T)
    BY <1>1, FS_Subset
  <1>3. Cardinality(S \cup T) = Cardinality(S) + Cardinality(T) - Cardinality(S \cap T)
    BY <1>1, FS_Union
  <1>4. IsFiniteSet(S \cap T) /\ Cardinality(S \cap T) \in Nat
    BY <1>1, FS_Subset, FS_CardinalityType
  <1>5. (\A i \in S : i \notin T) => Cardinality(S \cap T) = 0
    <2>1. (\A i \in S : i \notin T) => S \cap T = {}
      OBVIOUS
    <2> QED BY <2>1, FS_EmptySet
  <1>6. \A i : i \notin S => Cardinality(S \cup {i}) = Cardinality(S) + 1
    BY <1>1, FS_AddElement
  <1>7. \A i \in S : Cardinality(S \ {i}) = Cardinality(S) - 1
    BY <1>1, FS_RemoveElement
  <1>8. (Cardinality(S) = 0) <=> (S = {})
    BY <1>1, FS_EmptySet
  <1> QED BY <1>1, <1>2, <1>3, <1>4, <1>5, <1>6, <1>7, <1>8

LEMMA SideSets ==
    ASSUME NEW p \in Side
    PROVE  /\ Gone(p) \in SUBSET {i \in Msg : Sender(i) = p}
           /\ Loose(p) \in SUBSET {i \in Msg : Sender(i) = p}
           /\ Waiting(p) \in SUBSET {i \in Msg : Sender(i) = p}
           /\ Unplaced(p) \in SUBSET {i \in Msg : Sender(i) = p}
           /\ Gone(p)' \in SUBSET {i \in Msg : Sender(i) = p}
           /\ Loose(p)' \in SUBSET {i \in Msg : Sender(i) = p}
  BY DEF Gone, Loose, Waiting, Unplaced

LEMMA HandlesSized ==
    ASSUME Inv, NEW p \in Side, Handles(p), ~frozen[p] \/ UNCHANGED minted
    PROVE  Sized'
  <1>1. Sized /\ mem \in [Side -> Mem]
    BY InvParts DEF Shaped
  <1>2. \A q \in Side : Gone(q) \subseteq Gone(q)'
    <2>1. \A i \in Msg : msg'[i] = msg[i] \/ msg'[i].st = "hashed"
      BY HandledMsgs
    <2> QED BY <2>1 DEF Gone
  <1>3. ASSUME NEW q \in Side PROVE mem'[q].plain <= Cardinality(Gone(q)')
    <2>1. /\ Cardinality(Gone(q)) \in Nat /\ Cardinality(Gone(q)') \in Nat
          /\ Cardinality(Gone(q)) <= Cardinality(Gone(q)')
          /\ mem[q].plain <= Cardinality(Gone(q)) /\ mem[q].plain \in Nat
      BY <1>1, <1>2, SideSets, Cards DEF Sized, Mem
    <2>2. CASE mem'[q].plain = mem[q].plain
      BY <2>1, <2>2
    <2>3. CASE q = p /\ Settling(p)
      <3>1. Waiting(p) \cup Gone(p) \subseteq Gone(p)'
        BY <1>2, <2>3, HandledMsgs DEF Waiting, Gone
      <3>2. \A i \in Waiting(p) : i \notin Gone(p)
        BY DEF Waiting, Gone
      <3>3. /\ Cardinality(Waiting(p) \cup Gone(p)) = Cardinality(Waiting(p)) + Cardinality(Gone(p))
            /\ Cardinality(Waiting(p)) \in Nat
        <4> DEFINE W == Waiting(p)
                   G == Gone(p)
        <4>1. W \in SUBSET {i \in Msg : Sender(i) = p} /\ G \in SUBSET {i \in Msg : Sender(i) = p}
          BY SideSets
        <4>2. \A i \in W : i \notin G
          BY <3>2
        <4> HIDE DEF W, G
        <4>3. Cardinality(W) \in Nat
          BY <4>1, Cards
        <4>4. Cardinality(W \cup G) = Cardinality(W) + Cardinality(G)
          BY <4>1, <4>2, Cards
        <4> QED BY <4>3, <4>4 DEF W, G
      <3>4. Cardinality(Waiting(p) \cup Gone(p)) <= Cardinality(Gone(p)')
        BY <3>1, SideSets, Cards
      <3>5. mem'[p].plain = mem[p].plain + Cardinality(Waiting(p)) /\ Cardinality(Waiting(p)) \in Nat
        BY <2>3, SideSets, Cards DEF Settling
      <3> QED BY <2>1, <2>3, <3>3, <3>4, <3>5
    <2>4. mem'[q].plain = mem[q].plain \/ (q = p /\ Settling(p))
      BY DEF Handles, Remembers, Standing, Deriving, Erasing, Counting
    <2> QED BY <2>2, <2>3, <2>4
  <1> QED BY <1>3, HandlesHalves DEF Sized

\* A side of which nothing is lost has the same rule after.
LEMMA RuledKept ==
    ASSUME Inv, NEW q \in Side, salt'[q] = salt[q], tree[q] # {} => tree'[q] # {},
           mem'[q].plain = mem[q].plain, mem[q].spent => mem'[q].spent, cut \subseteq cut',
           \A i \in Msg : Sender(i) = q => msg'[i].st = msg[i].st /\ msg'[i].rule = msg[i].rule
    PROVE  Ruled(q)'
  <1>1. Ruled(q)
    BY InvParts
  <1>2. Loose(q)' \subseteq Loose(q)
    BY DEF Loose
  <1>3. Cardinality(Loose(q)') <= mem'[q].plain
    <2>1. Cardinality(Loose(q)) \in Nat /\ Cardinality(Loose(q)') \in Nat
          /\ Cardinality(Loose(q)') <= Cardinality(Loose(q))
      BY <1>2, SideSets, Cards
    <2>2. Cardinality(Loose(q)) <= mem[q].plain /\ mem[q].plain \in Nat
      BY <1>1, InvParts DEF Ruled, Shaped, Mem
    <2> QED BY <2>1, <2>2
  <1>4. \A i \in Msg : Sender(i) = q /\ msg'[i].st = "waiting" => salt'[q] = Plain
    BY <1>1 DEF Ruled
  <1>5. \A i \in Msg : Sender(i) = q /\ msg'[i].st = "placed" => tree'[q] # {}
    BY <1>1 DEF Ruled
  <1>6. \A i \in Msg : Sender(i) = q /\ msg'[i].st \in {"hashed", "placed"} /\ i \notin cut' =>
          salt'[q] = msg'[i].rule /\ (msg'[i].rule = Plain \/ mem'[q].spent \/ tree'[q] # {})
    BY <1>1 DEF Ruled
  <1> QED BY <1>3, <1>4, <1>5, <1>6 DEF Ruled

\* A side that may adopt a salt, or erase one, has hashed nothing that it keeps track of.
LEMMA Untouched ==
    ASSUME Inv, NEW p \in Side, ~Closed(p), salt[p] = Plain \/ ~mem[p].spent
    PROVE  /\ mem[p].plain = 0 /\ Loose(p) = {}
           /\ \A i \in Msg : Sender(i) = p => msg[i].st # "placed" /\ (msg[i].st = "hashed" => i \in cut)
  <1>1. Ruled(p) /\ mem[p].plain \in Nat
    BY InvParts DEF Shaped, Mem
  <1>2. tree[p] = {} /\ mem[p].plain = 0
    BY <1>1 DEF Closed
  <1>3. Loose(p) = {}
    <2>1. Cardinality(Loose(p)) <= 0 /\ Cardinality(Loose(p)) \in Nat
      BY <1>1, <1>2, SideSets, Cards DEF Ruled
    <2>2. Cardinality(Loose(p)) = 0
      BY <2>1
    <2> QED BY <2>2, SideSets, Cards
  <1>4. ASSUME NEW i \in Msg, Sender(i) = p
        PROVE  msg[i].st # "placed" /\ (msg[i].st = "hashed" => i \in cut)
    <2>1. msg[i].st # "placed"
      BY <1>1, <1>2, <1>4 DEF Ruled
    <2>2. msg[i].st = "hashed" /\ i \notin cut => msg[i].rule = Plain
      BY <1>1, <1>2, <1>4 DEF Ruled
    <2> QED BY <1>3, <1>4, <2>1, <2>2 DEF Loose
  <1> QED BY <1>2, <1>3, <1>4

LEMMA HandlesRuled == ASSUME Inv, NEW p \in Side, Handles(p), NEW q \in Side PROVE Ruled(q)'
  <1>1. /\ Shaped /\ Ruled(p) /\ tree' = tree /\ cut' = cut
        /\ \A r \in Side : r # p => mem'[r] = mem[r]
        /\ mem[p].plain \in Nat
    BY InvParts DEF Handles, Remembers, Shaped, Mem
  <1>2. \A r \in Side : r # p => salt'[r] = salt[r]
    BY HandledMsgs
  <1>3. \A i \in Msg : Sender(i) # p => msg'[i] = msg[i]
    BY HandledMsgs DEF Waiting
  <1>4. CASE q # p
    BY <1>1, <1>2, <1>3, <1>4, RuledKept
  <1>5. CASE q = p /\ Standing(p)
    BY <1>1, <1>5, RuledKept DEF Standing, Counting
  <1>6. ASSUME NEW i \in Msg
        PROVE  \/ msg'[i] = msg[i] /\ i \notin Waiting(p)
               \/ msg'[i] = msg[i] /\ ~Settling(p) /\ ~Deriving(p)
               \/ /\ i \in Waiting(p) /\ msg'[i].st = "hashed" /\ msg'[i].rule = salt'[p]
    BY HandledMsgs DEF Waiting
  <1>7. CASE q = p /\ Settling(p)
    <2>1. salt' = salt /\ (mem'[p].spent <=> mem[p].spent)
          /\ mem'[p].plain = mem[p].plain + Cardinality(Waiting(p))
      BY <1>7 DEF Settling
    <2>2. \A i \in Waiting(p) : salt[p] = Plain
      BY <1>1 DEF Ruled, Waiting
    <2>3. Cardinality(Loose(p)') <= mem'[p].plain
      <3>1. Loose(p)' \subseteq Loose(p) \cup Waiting(p)
        BY <1>1, <1>6 DEF Loose
      <3>2. Cardinality(Loose(p)') <= Cardinality(Loose(p) \cup Waiting(p))
        BY <3>1, SideSets, Cards
      <3>3. /\ Cardinality(Loose(p) \cup Waiting(p)) <= Cardinality(Loose(p)) + Cardinality(Waiting(p))
            /\ Cardinality(Loose(p)) \in Nat /\ Cardinality(Waiting(p)) \in Nat
            /\ Cardinality(Loose(p)') \in Nat /\ Cardinality(Loose(p) \cup Waiting(p)) \in Nat
        BY SideSets, Cards
      <3>4. Cardinality(Loose(p)) <= mem[p].plain
        BY <1>1 DEF Ruled
      <3> QED BY <1>1, <2>1, <3>2, <3>3, <3>4
    <2>4. \A i \in Msg : Sender(i) = p /\ msg'[i].st = "waiting" => salt'[p] = Plain
      BY <1>1, <1>6, <2>1 DEF Ruled
    <2>5. \A i \in Msg : Sender(i) = p /\ msg'[i].st = "placed" => tree'[p] # {}
      BY <1>1, <1>6 DEF Ruled
    <2>6. \A i \in Msg : Sender(i) = p /\ msg'[i].st \in {"hashed", "placed"} /\ i \notin cut' =>
            salt'[p] = msg'[i].rule /\ (msg'[i].rule = Plain \/ mem'[p].spent \/ tree'[p] # {})
      BY <1>1, <1>6, <2>1, <2>2 DEF Ruled
    <2> QED BY <1>7, <2>3, <2>4, <2>5, <2>6 DEF Ruled
  <1>8. CASE q = p /\ (Deriving(p) \/ Erasing(p))
    <2>1. ~Closed(p) /\ (salt[p] = Plain \/ ~mem[p].spent)
      BY <1>8 DEF Deriving, Erasing, Unspent
    <2>2. /\ mem[p].plain = 0 /\ Loose(p) = {}
          /\ \A i \in Msg : Sender(i) = p => msg[i].st # "placed" /\ (msg[i].st = "hashed" => i \in cut)
      BY <2>1, Untouched
    <2>3. mem'[p].plain = 0
      BY <1>8, <2>2 DEF Deriving, Erasing, Counting
    <2>4. CASE Deriving(p)
      <3>1. PICK s \in Salt : salt' = [salt EXCEPT ![p] = s] /\ (Waiting(p) # {} => mem'[p].spent)
        BY <2>4 DEF Deriving
      <3>2. salt'[p] = s /\ s # Plain
        BY <1>1, <3>1, SaltOfHalves DEF Shaped
      <3>3. Loose(p)' = {}
        BY <1>1, <1>6, <2>2, <3>2 DEF Loose
      <3>4. Cardinality(Loose(p)') <= mem'[p].plain
        BY <2>3, <3>3, FS_EmptySet
      <3>5. \A i \in Msg : Sender(i) = p => msg'[i].st # "waiting" /\ msg'[i].st # "placed"
        BY <1>6, <2>2, <2>4 DEF Waiting
      <3>6. \A i \in Msg : Sender(i) = p /\ msg'[i].st \in {"hashed", "placed"} /\ i \notin cut' =>
              salt'[p] = msg'[i].rule /\ mem'[p].spent
        BY <1>1, <1>6, <2>2, <3>1
      <3> QED BY <1>8, <3>4, <3>5, <3>6 DEF Ruled
    <2>5. CASE Erasing(p)
      <3>1. msg' = msg /\ salt'[p] = Plain
        BY <1>1, <2>5 DEF Erasing, Shaped
      <3>2. Loose(p)' = {}
        BY <1>1, <2>2, <3>1 DEF Loose
      <3>3. Cardinality(Loose(p)') <= mem'[p].plain
        BY <2>3, <3>2, FS_EmptySet
      <3> QED BY <1>1, <1>8, <2>2, <3>1, <3>3 DEF Ruled
    <2> QED BY <1>8, <2>4, <2>5
  <1> QED BY <1>4, <1>5, <1>7, <1>8 DEF Handles

\* What the peer took stays, and with it the salt that it was hashed by.
LEMMA SeenKept ==
    ASSUME Inv, \A q \in Side : tree[q] # {} => tree'[q] # {} /\ salt'[q] = salt[q],
           \A i \in Msg : msg'[i].seen = "yes" =>
               msg[i].seen = "yes" /\ msg'[i].rule = msg[i].rule /\ msg'[i].st \in {"hashed", "placed"}
    PROVE  Seen'
  <1>1. Seen /\ \A i \in Msg : Peer(Sender(i)) \in Side
    BY InvParts, Sides
  <1> QED BY <1>1 DEF Seen

LEMMA HandlesSeen == ASSUME Inv, NEW p \in Side, Handles(p) PROVE Seen'
  <1>1. \A q \in Side : tree[q] # {} => tree'[q] # {} /\ salt'[q] = salt[q]
    <2>1. \A q \in Side : q # p => salt'[q] = salt[q]
      BY HandledMsgs
    <2>2. tree[p] # {} => salt'[p] = salt[p]
      BY DEF Handles, Settling, Standing, Deriving, Erasing, Closed, Unspent
    <2> QED BY <2>1, <2>2 DEF Handles
  <1>2. \A i \in Msg : msg'[i] = msg[i] \/ msg'[i].seen = "no"
    BY HandledMsgs
  <1>3. \A i \in Msg : msg[i].seen = "yes" => msg[i].st \in {"hashed", "placed"}
    BY InvParts DEF Seen
  <1> QED BY <1>1, <1>2, <1>3, SeenKept

LEMMA HandlesFresh ==
    ASSUME Inv, NEW p \in Side, Handles(p), ~frozen[p] \/ UNCHANGED minted
    PROVE  Fresh'
  <1> SUFFICES ASSUME ~evicted, NEW q \in Side
               PROVE  /\ mem'[q].half = minted'[q] /\ minted'[q] <= 1
                      /\ salt'[q] # Plain => salt'[q] = First /\ mem'[q].half = 1
                      /\ \A f \in DOMAIN net'[q] : f.kind = "print" => f.of = First
                      /\ ~doomed'[q] /\ ~frozen'[q]
    BY DEF Fresh, Handles
  <1>1. Fresh /\ Shaped /\ minted \in [Side -> Nat]
    BY InvParts DEF Shaped
  <1>2. /\ mem[p].half = minted[p] /\ minted[p] <= 1 /\ (salt[p] # Plain => salt[p] = First /\ mem[p].half = 1)
        /\ minted[p] \in Nat
    BY <1>1 DEF Fresh
  <1>3. mem'[p].half = minted'[p] /\ minted'[p] <= 1 /\ (salt[p] # Plain => mem'[p].half = 1)
    <2>1. CASE UNCHANGED minted /\ mem'[p].half = mem[p].half
      BY <1>2, <2>1
    <2>2. CASE Minting(p) /\ mem'[p].half = OwnHalf(p)
      <3>1. CASE Mints(p)
        BY <1>1, <1>2, <2>2, <3>1 DEF Minting, OwnHalf, Mints
      <3>2. CASE ~Mints(p)
        BY <1>1, <1>2, <2>2, <3>2 DEF Minting, OwnHalf
      <3> QED BY <3>1, <3>2
    <2> QED BY <2>1, <2>2 DEF Handles, Remembers
  <1>4. salt'[p] # Plain => salt'[p] = First /\ mem'[p].half = 1
    <2>1. CASE UNCHANGED salt
      BY <1>2, <1>3, <2>1
    <2>2. CASE Deriving(p)
      BY <1>1, <2>2 DEF Deriving, Shaped
    <2>3. CASE Erasing(p)
      BY <1>1, <2>3 DEF Erasing, Shaped
    <2> QED BY <2>1, <2>2, <2>3 DEF Handles, Settling, Standing
  <1>5. q # p => mem'[q] = mem[q] /\ minted'[q] = minted[q] /\ salt'[q] = salt[q]
    <2>1. salt'[q] = salt[q] \/ q = p
      BY HandledMsgs
    <2> QED BY <1>1, <2>1 DEF Handles, Remembers, Minting
  <1>6. \A f \in DOMAIN net'[q] : f.kind = "print" => f.of = First
    <2> SUFFICES ASSUME NEW f \in DOMAIN net'[q], f.kind = "print" PROVE f.of = First
      OBVIOUS
    <2>1. f \in DOMAIN net[q] \/ Honest(p, f)
      BY Sides DEF Handles, Frames
    <2>2. f \in DOMAIN net[q] => f.of = First
      BY <1>1 DEF Fresh
    <2>3. Honest(p, f) => f.of = First
      BY <1>4 DEF Honest, Frame, ClosedFrame
    <2> QED BY <2>1, <2>2, <2>3
  <1>7. ~doomed'[q] /\ ~frozen'[q]
    BY <1>1 DEF Fresh, Handles
  <1>8. CASE q = p
    BY <1>3, <1>4, <1>6, <1>7, <1>8
  <1>9. CASE q # p
    BY <1>1, <1>5, <1>6, <1>7, <1>9 DEF Fresh
  <1> QED BY <1>8, <1>9

LEMMA HandlesInv ==
    ASSUME Inv, NEW p \in Side, Handles(p), ~frozen[p] \/ UNCHANGED minted
    PROVE  Inv'
  BY HandlesShaped, HandlesFramed, HandlesDown, HandlesSized, HandlesRuled, HandlesSeen, HandlesFresh
  DEF Inv

-----------------------------------------------------------------------------
(* Messages.                                                               *)

\* Nothing but messages, memory, trees and a salt change.
LEMMA Steady ==
    ASSUME Inv, UNCHANGED <<minted, nodeVars, due, net>>, events' \in 0..MaxEvents, events <= events',
           mem' \in [Side -> Mem],
           \A q \in Side : /\ mem'[q].half = mem[q].half /\ mem'[q].ansHalf = mem[q].ansHalf
                           /\ mem'[q].ansPrint = mem[q].ansPrint
                           /\ salt'[q] \in {salt[q], Plain},
           evicted' = evicted
    PROVE  Framed' /\ Down' /\ Fresh'
           /\ \A p \in Side : /\ mem'[p].half <= minted'[p] /\ minted'[p] <= events' + 1
                              /\ mem'[p].half = 0 /\ ~frozen'[p] => minted'[p] <= events'
  <1>1. Framed /\ Down /\ Sized /\ Fresh /\ Shaped /\ minted' = minted /\ net' = net /\ frozen' = frozen
    BY InvParts DEF nodeVars
  <1>2. Framed'
    <2>1. \A q \in Side : \A s : HalfOf(q, s)' <=> HalfOf(q, s)
      BY <1>1 DEF HalfOf
    <2> QED BY <1>1, <2>1, Sides DEF Framed
  <1>3. Down'
    BY <1>1 DEF Down, nodeVars
  <1>4. Fresh'
    BY <1>1 DEF Fresh, nodeVars
  <1>5. \A p \in Side : /\ mem'[p].half <= minted'[p] /\ minted'[p] <= events' + 1
                        /\ mem'[p].half = 0 /\ ~frozen'[p] => minted'[p] <= events'
    <2>1. events \in Nat /\ events' \in Nat /\ minted \in [Side -> Nat]
      BY <1>1, Sides DEF Shaped
    <2> SUFFICES ASSUME NEW p \in Side
                 PROVE  /\ mem'[p].half <= minted'[p] /\ minted'[p] <= events' + 1
                        /\ mem'[p].half = 0 /\ ~frozen'[p] => minted'[p] <= events'
      OBVIOUS
    <2>2. /\ mem[p].half <= minted[p] /\ minted[p] <= events + 1
          /\ mem[p].half = 0 /\ ~frozen[p] => minted[p] <= events
      BY <1>1 DEF Sized
    <2> QED BY <1>1, <2>1, <2>2
  <1> QED BY <1>2, <1>3, <1>4, <1>5

\* A message is hashed with the salt, or without it; then the salt may be erased.
Salts(i) ==
    /\ salt[Sender(i)] # Plain /\ msg' = Hashed({i}, salt[Sender(i)]) /\ UNCHANGED salt
    /\ mem'[Sender(i)].plain = mem[Sender(i)].plain /\ mem'[Sender(i)].spent

Erases(i) ==
    /\ salt[Sender(i)] # Plain /\ ~Closed(Sender(i)) /\ ~mem[Sender(i)].spent
    /\ msg' = Hashed({i}, Plain) /\ salt' = [salt EXCEPT ![Sender(i)] = Plain]
    /\ mem'[Sender(i)].plain = mem[Sender(i)].plain + 1

Omits(i) ==
    /\ salt[Sender(i)] = Plain /\ msg' = Hashed({i}, Plain) /\ UNCHANGED salt
    /\ mem'[Sender(i)].plain = mem[Sender(i)].plain + 1
    /\ mem'[Sender(i)].spent <=> mem[Sender(i)].spent

Waits(i) ==
    /\ salt[Sender(i)] = Plain /\ msg' = [msg EXCEPT ![i].st = "waiting"] /\ UNCHANGED salt
    /\ mem'[Sender(i)].plain = mem[Sender(i)].plain
    /\ mem'[Sender(i)].spent <=> mem[Sender(i)].spent

Sends(i) ==
    /\ msg[i].st = "new" /\ mem' \in [Side -> Mem]
    /\ \A q \in Side : /\ mem'[q].half = mem[q].half /\ mem'[q].ansHalf = mem[q].ansHalf
                       /\ mem'[q].ansPrint = mem[q].ansPrint
                       /\ q # Sender(i) => mem'[q] = mem[q]
    /\ Salts(i) \/ Erases(i) \/ Omits(i) \/ Waits(i)
    /\ UNCHANGED <<tree, minted, nodeVars, due, net, cut, evicted>>
    /\ events' \in 0..MaxEvents /\ events <= events' /\ spoilt' \in BOOLEAN

LEMMA SendSends ==
    ASSUME Inv, NEW i \in Msg, NEW arms \in BOOLEAN, NEW fails \in BOOLEAN, Send(i, arms, fails)
    PROVE  Sends(i)
  <1> DEFINE p == Sender(i)
             m == IF arms THEN Marked(mem[p]) ELSE mem[p]
             closed == Closed(p) \/ fails
             erased == m.susp /\ Unspent(m, closed)
  <1>1. p \in Side /\ mem \in [Side -> Mem] /\ mem[p] \in Mem /\ events \in Nat
    BY InvParts, Sides DEF Shaped
  <1>2. Same(mem[p], m)
    BY <1>1, MarkedMem DEF Same
  <1>3. m \in Mem /\ m.half = mem[p].half /\ m.plain = mem[p].plain /\ (m.spent <=> mem[p].spent)
        /\ m.ansHalf = mem[p].ansHalf /\ m.ansPrint = mem[p].ansPrint
    BY <1>2 DEF Same
  <1>4. /\ msg[i].st = "new" /\ Trouble(fails)
        /\ UNCHANGED <<tree, minted, nodeVars, due, net, cut, evicted>>
        /\ \/ /\ salt[p] # Plain /\ ~erased
              /\ msg' = Hashed({i}, salt[p])
              /\ mem' = [mem EXCEPT ![p] = [m EXCEPT !.spent = TRUE]]
              /\ UNCHANGED salt
           \/ /\ salt[p] # Plain /\ erased
              /\ msg' = Hashed({i}, Plain)
              /\ mem' = [mem EXCEPT ![p] = CountPlain([m EXCEPT !.susp = FALSE], 1)]
              /\ salt' = [salt EXCEPT ![p] = Plain]
           \/ /\ salt[p] = Plain
              /\ msg' = Hashed({i}, Plain)
              /\ mem' = [mem EXCEPT ![p] = CountPlain(m, 1)]
              /\ UNCHANGED salt
           \/ /\ salt[p] = Plain
              /\ msg' = [msg EXCEPT ![i].st = "waiting"]
              /\ mem' = [mem EXCEPT ![p] = m]
              /\ UNCHANGED salt
    BY DEF Send
  <1>5. events' \in 0..MaxEvents /\ events <= events' /\ spoilt' \in BOOLEAN
    <2>1. events' \in {events, events + 1} /\ events' \in 0..MaxEvents /\ spoilt' \in BOOLEAN
      BY <1>4, Troubled
    <2> QED BY <1>1, <2>1
  <1>6. erased => ~Closed(p) /\ ~mem[p].spent
    BY <1>3 DEF Unspent
  <1> HIDE DEF m, erased
  <1>7. ASSUME NEW n \in Mem, mem' = [mem EXCEPT ![p] = n], n.half = mem[p].half,
               n.ansHalf = mem[p].ansHalf, n.ansPrint = mem[p].ansPrint
        PROVE  /\ mem' \in [Side -> Mem] /\ mem'[p] = n
               /\ \A q \in Side : /\ mem'[q].half = mem[q].half /\ mem'[q].ansHalf = mem[q].ansHalf
                                  /\ mem'[q].ansPrint = mem[q].ansPrint
                                  /\ q # p => mem'[q] = mem[q]
    BY <1>1, <1>7
  <1>8. CASE /\ salt[p] # Plain /\ msg' = Hashed({i}, salt[p]) /\ UNCHANGED salt
             /\ mem' = [mem EXCEPT ![p] = [m EXCEPT !.spent = TRUE]]
    <2> DEFINE n == [m EXCEPT !.spent = TRUE]
    <2>1. n \in Mem /\ n.half = m.half /\ n.plain = m.plain /\ n.spent
          /\ n.ansHalf = m.ansHalf /\ n.ansPrint = m.ansPrint
      BY <1>3 DEF Mem
    <2>2. mem' = [mem EXCEPT ![p] = n]
      BY <1>8
    <2> HIDE DEF n
    <2> QED BY <1>3, <1>4, <1>5, <1>7, <1>8, <2>1, <2>2 DEF Sends, Salts
  <1>9. CASE /\ salt[p] # Plain /\ erased /\ msg' = Hashed({i}, Plain)
             /\ salt' = [salt EXCEPT ![p] = Plain]
             /\ mem' = [mem EXCEPT ![p] = CountPlain([m EXCEPT !.susp = FALSE], 1)]
    <2> DEFINE u == [m EXCEPT !.susp = FALSE]
               n == CountPlain(u, 1)
    <2>1. Same(m, u)
      BY <1>3 DEF Mem, Same
    <2> HIDE DEF u
    <2>2. n \in Mem /\ n.half = u.half /\ n.plain = u.plain + 1 /\ n.ansHalf = u.ansHalf
          /\ n.ansPrint = u.ansPrint
      <3>1. u \in Mem /\ 1 \in Nat
        BY <2>1 DEF Same
      <3> QED BY <3>1, CountedMem
    <2>3. mem' = [mem EXCEPT ![p] = n]
      BY <1>9 DEF u
    <2> HIDE DEF n
    <2>4. n.half = mem[p].half /\ n.plain = mem[p].plain + 1 /\ n.ansHalf = mem[p].ansHalf
          /\ n.ansPrint = mem[p].ansPrint
      BY <1>3, <2>1, <2>2 DEF Same
    <2> QED BY <1>4, <1>5, <1>6, <1>7, <1>9, <2>2, <2>3, <2>4 DEF Sends, Erases
  <1>10. CASE /\ salt[p] = Plain /\ msg' = Hashed({i}, Plain) /\ UNCHANGED salt
              /\ mem' = [mem EXCEPT ![p] = CountPlain(m, 1)]
    <2> DEFINE n == CountPlain(m, 1)
    <2>1. n \in Mem /\ n.half = m.half /\ n.plain = m.plain + 1 /\ (n.spent <=> m.spent)
          /\ n.ansHalf = m.ansHalf /\ n.ansPrint = m.ansPrint
      <3>1. m \in Mem /\ 1 \in Nat
        BY <1>3
      <3> QED BY <3>1, CountedMem
    <2>2. mem' = [mem EXCEPT ![p] = n]
      BY <1>10
    <2> HIDE DEF n
    <2>3. n.half = mem[p].half /\ n.plain = mem[p].plain + 1 /\ (n.spent <=> mem[p].spent)
          /\ n.ansHalf = mem[p].ansHalf /\ n.ansPrint = mem[p].ansPrint
      BY <1>3, <2>1
    <2> QED BY <1>4, <1>5, <1>7, <1>10, <2>1, <2>2, <2>3 DEF Sends, Omits
  <1>11. CASE /\ salt[p] = Plain /\ msg' = [msg EXCEPT ![i].st = "waiting"] /\ UNCHANGED salt
              /\ mem' = [mem EXCEPT ![p] = m]
    BY <1>3, <1>4, <1>5, <1>7, <1>11 DEF Sends, Waits
  <1> QED BY <1>4, <1>8, <1>9, <1>10, <1>11

LEMMA SentMsgs ==
    ASSUME Inv, NEW i \in Msg, Sends(i)
    PROVE  /\ salt' \in [Side -> Salt \cup {Plain}] /\ msg' \in [Msg -> Message]
           /\ \A j \in Msg : j # i => msg'[j] = msg[j]
           /\ \A q \in Side : q # Sender(i) => salt'[q] = salt[q]
           /\ ~Waits(i) => /\ msg'[i].st = "hashed" /\ msg'[i].seen = "no"
                           /\ msg'[i].rule = salt'[Sender(i)]
           /\ Waits(i) => msg'[i].st = "waiting" /\ msg'[i].seen = msg[i].seen
           /\ Erases(i) \/ Omits(i) => salt'[Sender(i)] = Plain
           /\ Waits(i) => ~Salts(i) /\ ~Erases(i) /\ ~Omits(i)
           /\ msg[i].seen # "yes"
  <1>1. /\ Shaped /\ salt \in [Side -> Salt \cup {Plain}] /\ msg \in [Msg -> Message]
        /\ Sender(i) \in Side /\ msg[i].st = "new"
    BY InvParts, Sides DEF Shaped, Sends
  <1>2. {i} \in SUBSET Msg /\ salt[Sender(i)] \in Salt \cup {Plain} /\ Plain \in Salt \cup {Plain}
    BY <1>1
  <1>3. \A rule \in Salt \cup {Plain} : msg' = Hashed({i}, rule) =>
            /\ msg' \in [Msg -> Message]
            /\ msg'[i].st = "hashed" /\ msg'[i].seen = "no" /\ msg'[i].rule = rule
            /\ \A j \in Msg : j # i => msg'[j] = msg[j]
    <2> SUFFICES ASSUME NEW rule \in Salt \cup {Plain}, msg' = Hashed({i}, rule)
                 PROVE  /\ msg' \in [Msg -> Message]
                        /\ msg'[i].st = "hashed" /\ msg'[i].seen = "no" /\ msg'[i].rule = rule
                        /\ \A j \in Msg : j # i => msg'[j] = msg[j]
      OBVIOUS
    <2>1. /\ msg' \in [Msg -> Message]
          /\ \A j \in {i} : msg'[j].st = "hashed" /\ msg'[j].rule = rule /\ msg'[j].seen = "no"
          /\ \A j \in Msg \ {i} : msg'[j] = msg[j]
      BY <1>1, <1>2, HashedMsg
    <2> QED BY <2>1
  <1>4. msg' = [msg EXCEPT ![i].st = "waiting"] =>
            /\ msg' \in [Msg -> Message]
            /\ msg'[i].st = "waiting" /\ msg'[i].seen = msg[i].seen
            /\ \A j \in Msg : j # i => msg'[j] = msg[j]
    <2> DEFINE w == [msg[i] EXCEPT !.st = "waiting"]
    <2>1. w \in Message /\ w.st = "waiting" /\ w.seen = msg[i].seen
      BY <1>1 DEF Message
    <2>2. [msg EXCEPT ![i].st = "waiting"] = [msg EXCEPT ![i] = w]
      BY <1>1
    <2> HIDE DEF w
    <2> QED BY <1>1, <2>1, <2>2
  <1>5. msg[i].seen # "yes"
    BY <1>1, InvParts DEF Seen
  <1>6. CASE Salts(i)
    <2>1. msg'[i].st = "hashed" /\ salt' = salt
      BY <1>2, <1>3, <1>6 DEF Salts
    <2>2. ~Waits(i) /\ ~Omits(i)
      BY <1>6 DEF Salts, Waits, Omits
    <2>3. ~Erases(i)
      <3>1. Erases(i) => salt'[Sender(i)] = Plain
        BY <1>1 DEF Erases
      <3> QED BY <1>6, <2>1, <3>1 DEF Salts
    <2> QED BY <1>1, <1>2, <1>3, <1>5, <1>6, <2>1, <2>2, <2>3 DEF Salts
  <1>7. CASE Erases(i)
    <2>1. ~Waits(i) /\ ~Omits(i)
      BY <1>7 DEF Erases, Waits, Omits
    <2>2. salt'[Sender(i)] = Plain /\ salt' \in [Side -> Salt \cup {Plain}]
          /\ \A q \in Side : q # Sender(i) => salt'[q] = salt[q]
      BY <1>1, <1>7 DEF Erases
    <2> QED BY <1>1, <1>2, <1>3, <1>5, <1>7, <2>1, <2>2 DEF Erases
  <1>8. CASE Omits(i)
    <2>1. msg'[i].st = "hashed"
      BY <1>2, <1>3, <1>8 DEF Omits
    <2>2. ~Waits(i)
      BY <1>4, <2>1 DEF Waits
    <2> QED BY <1>1, <1>2, <1>3, <1>5, <1>8, <2>1, <2>2 DEF Omits
  <1>9. CASE Waits(i)
    <2>1. msg'[i].st = "waiting"
      BY <1>4, <1>9 DEF Waits
    <2>2. ~Salts(i) /\ ~Erases(i) /\ ~Omits(i)
      BY <1>2, <1>3, <2>1 DEF Salts, Erases, Omits
    <2> QED BY <1>1, <1>4, <1>5, <1>9, <2>2 DEF Waits
  <1> QED BY <1>6, <1>7, <1>8, <1>9 DEF Sends

LEMMA SendsRuled ==
    ASSUME Inv, NEW i \in Msg, NEW p \in Side, p = Sender(i), Sends(i), NEW q \in Side
    PROVE  Ruled(q)'
  <1>1. /\ p \in Side /\ Shaped /\ Ruled(p) /\ tree' = tree /\ cut' = cut /\ mem[p].plain \in Nat
        /\ \A r \in Side : r # p => mem'[r] = mem[r]
        /\ msg[i].st = "new"
    BY InvParts, Sides DEF Shaped, Sends, Mem
  <1>2. /\ \A j \in Msg : j # i => msg'[j] = msg[j]
        /\ \A r \in Side : r # p => salt'[r] = salt[r]
        /\ ~Waits(i) => msg'[i].st = "hashed" /\ msg'[i].rule = salt'[p]
        /\ Waits(i) => msg'[i].st = "waiting"
    BY SentMsgs
  <1>3. CASE q # p
    <2>1. \A j \in Msg : Sender(j) = q => msg'[j] = msg[j]
      BY <1>2, <1>3
    <2> QED BY <1>1, <1>2, <1>3, <2>1, RuledKept
  <1>4. Cardinality(Loose(p)) <= mem[p].plain /\ Cardinality(Loose(p)) \in Nat
        /\ Cardinality(Loose(p)') \in Nat
    BY <1>1, SideSets, Cards DEF Ruled
  <1>5. CASE Salts(i)
    <2>1. salt' = salt /\ salt[p] # Plain /\ mem'[p].plain = mem[p].plain /\ mem'[p].spent /\ ~Waits(i)
      BY <1>5, SentMsgs DEF Salts
    <2>2. Loose(p)' \subseteq Loose(p)
      BY <1>1, <1>2, <2>1 DEF Loose
    <2>3. Cardinality(Loose(p)') <= mem'[p].plain
      <3>1. Cardinality(Loose(p)') <= Cardinality(Loose(p))
        BY <2>2, SideSets, Cards
      <3> QED BY <1>1, <1>4, <2>1, <3>1
    <2>4. \A j \in Msg : Sender(j) = p => msg'[j].st # "waiting"
      BY <1>1, <1>2, <2>1 DEF Ruled
    <2>5. \A j \in Msg : Sender(j) = p /\ msg'[j].st = "placed" => tree'[p] # {}
      BY <1>1, <1>2, <2>1 DEF Ruled
    <2>6. \A j \in Msg : Sender(j) = p /\ msg'[j].st \in {"hashed", "placed"} /\ j \notin cut' =>
            salt'[p] = msg'[j].rule
      BY <1>1, <1>2, <2>1 DEF Ruled
    <2>7. Ruled(p)'
      BY <2>1, <2>3, <2>4, <2>5, <2>6 DEF Ruled
    <2> QED BY <1>3, <2>7
  <1>6. CASE Erases(i)
    <2>1. /\ salt'[p] = Plain /\ ~Closed(p) /\ ~mem[p].spent /\ mem'[p].plain = mem[p].plain + 1
          /\ ~Waits(i)
      BY <1>6, SentMsgs DEF Erases
    <2>2. /\ mem[p].plain = 0 /\ Loose(p) = {}
          /\ \A j \in Msg : Sender(j) = p => msg[j].st # "placed" /\ (msg[j].st = "hashed" => j \in cut)
      BY <1>1, <2>1, Untouched
    <2>3. Loose(p)' \subseteq {i}
      BY <1>1, <1>2, <2>2 DEF Loose
    <2>4. Cardinality(Loose(p)') <= 1
      <3>1. IsFiniteSet({i}) /\ Cardinality({i}) = 1
        BY FS_Singleton
      <3> QED BY <2>3, <3>1, FS_Subset
    <2>5. Cardinality(Loose(p)') <= mem'[p].plain
      BY <2>1, <2>2, <2>4
    <2>6. \A j \in Msg : Sender(j) = p => /\ msg'[j].st # "placed"
                                          /\ msg'[j].st = "hashed" /\ j \notin cut => j = i
      BY <1>1, <1>2, <2>1, <2>2
    <2>7. Ruled(p)'
      BY <1>1, <1>2, <2>1, <2>5, <2>6 DEF Ruled
    <2> QED BY <1>3, <2>7
  <1>7. CASE Omits(i)
    <2>1. /\ salt' = salt /\ salt[p] = Plain /\ mem'[p].plain = mem[p].plain + 1
          /\ (mem'[p].spent <=> mem[p].spent) /\ ~Waits(i)
      BY <1>7, SentMsgs DEF Omits
    <2>2. Loose(p)' \subseteq Loose(p) \cup {i} /\ i \notin Loose(p)
      BY <1>1, <1>2, <2>1 DEF Loose
    <2>3. Cardinality(Loose(p)') <= mem'[p].plain
      <3>1. IsFiniteSet(Loose(p))
        BY SideSets, Bounded
      <3>2. IsFiniteSet(Loose(p) \cup {i}) /\ Cardinality(Loose(p) \cup {i}) = Cardinality(Loose(p)) + 1
        BY <2>2, <3>1, FS_AddElement
      <3>3. Cardinality(Loose(p)') <= Cardinality(Loose(p)) + 1
        BY <2>2, <3>2, FS_Subset
      <3> QED BY <1>1, <1>4, <2>1, <3>3
    <2>4. \A j \in Msg : Sender(j) = p /\ msg'[j].st = "placed" => tree'[p] # {}
      BY <1>1, <1>2, <2>1 DEF Ruled
    <2>5. \A j \in Msg : Sender(j) = p /\ msg'[j].st \in {"hashed", "placed"} /\ j \notin cut' =>
            salt'[p] = msg'[j].rule /\ msg'[j].rule = Plain
      BY <1>1, <1>2, <2>1 DEF Ruled
    <2>6. Ruled(p)'
      BY <2>1, <2>3, <2>4, <2>5 DEF Ruled
    <2> QED BY <1>3, <2>6
  <1>8. CASE Waits(i)
    <2>1. /\ salt' = salt /\ salt[p] = Plain /\ mem'[p].plain = mem[p].plain
          /\ (mem'[p].spent <=> mem[p].spent) /\ msg'[i].st = "waiting"
      BY <1>8, SentMsgs DEF Waits
    <2>2. Loose(p)' \subseteq Loose(p)
      BY <1>1, <1>2, <2>1 DEF Loose
    <2>3. Cardinality(Loose(p)') <= mem'[p].plain
      <3>1. Cardinality(Loose(p)') <= Cardinality(Loose(p))
        BY <2>2, SideSets, Cards
      <3> QED BY <1>1, <1>4, <2>1, <3>1
    <2>4. \A j \in Msg : Sender(j) = p /\ msg'[j].st = "placed" => tree'[p] # {}
      BY <1>1, <1>2, <2>1 DEF Ruled
    <2>5. \A j \in Msg : Sender(j) = p /\ msg'[j].st \in {"hashed", "placed"} /\ j \notin cut' =>
            salt'[p] = msg'[j].rule /\ msg'[j].rule = Plain
      BY <1>1, <1>2, <2>1 DEF Ruled
    <2>6. Ruled(p)'
      BY <2>1, <2>3, <2>4, <2>5 DEF Ruled
    <2> QED BY <1>3, <2>6
  <1> QED BY <1>5, <1>6, <1>7, <1>8 DEF Sends

LEMMA SendsSized == ASSUME Inv, NEW i \in Msg, Sends(i) PROVE Framed' /\ Down' /\ Fresh' /\ Sized'
  <1> DEFINE p == Sender(i)
  <1>1. p \in Side /\ Sized /\ mem \in [Side -> Mem] /\ msg[i].st = "new"
    BY InvParts, Sides DEF Shaped, Sends
  <1>2. /\ \A j \in Msg : j # i => msg'[j] = msg[j]
        /\ ~Waits(i) => msg'[i].st = "hashed"
    BY SentMsgs
  <1>3. \A q \in Side : salt'[q] \in {salt[q], Plain}
    <2>1. \A q \in Side : q # p => salt'[q] = salt[q]
      BY SentMsgs
    <2>2. Erases(i) \/ Omits(i) => salt'[p] = Plain
      BY SentMsgs
    <2> QED BY <2>1, <2>2 DEF Sends, Salts, Waits
  <1>4. ASSUME NEW q \in Side PROVE mem'[q].plain <= Cardinality(Gone(q)')
    <2>1. Gone(q) \subseteq Gone(q)'
      BY <1>1, <1>2 DEF Gone
    <2>2. /\ Cardinality(Gone(q)) \in Nat /\ Cardinality(Gone(q)') \in Nat
          /\ Cardinality(Gone(q)) <= Cardinality(Gone(q)')
          /\ mem[q].plain <= Cardinality(Gone(q)) /\ mem[q].plain \in Nat
      BY <1>1, <2>1, SideSets, Cards DEF Sized, Mem
    <2>3. CASE mem'[q].plain = mem[q].plain
      BY <2>2, <2>3
    <2>4. CASE q = p /\ (Erases(i) \/ Omits(i))
      <3>1. Gone(q) \cup {i} \subseteq Gone(q)' /\ i \notin Gone(q)
        <4>1. ~Waits(i)
          BY <2>4, SentMsgs
        <4> QED BY <1>1, <1>2, <2>1, <2>4, <4>1 DEF Gone
      <3>2. Cardinality(Gone(q) \cup {i}) = Cardinality(Gone(q)) + 1 /\ IsFiniteSet(Gone(q)')
        BY <3>1, SideSets, Cards, Bounded
      <3>3. Cardinality(Gone(q) \cup {i}) <= Cardinality(Gone(q)')
        BY <3>1, <3>2, FS_Subset
      <3>4. mem'[q].plain = mem[q].plain + 1
        BY <2>4 DEF Erases, Omits
      <3> QED BY <2>2, <3>2, <3>3, <3>4
    <2>5. mem'[q].plain = mem[q].plain \/ (q = p /\ (Erases(i) \/ Omits(i)))
      BY <1>1 DEF Sends, Salts, Waits
    <2> QED BY <2>3, <2>4, <2>5
  <1>5. /\ Framed' /\ Down' /\ Fresh'
        /\ \A q \in Side : /\ mem'[q].half <= minted'[q] /\ minted'[q] <= events' + 1
                           /\ mem'[q].half = 0 /\ ~frozen'[q] => minted'[q] <= events'
    BY <1>3, Steady DEF Sends
  <1> QED BY <1>4, <1>5 DEF Sized

LEMMA SendInv ==
    ASSUME Inv, NEW i \in Msg, NEW arms \in BOOLEAN, NEW fails \in BOOLEAN, Send(i, arms, fails)
    PROVE  Inv'
  <1>1. Sends(i)
    BY SendSends
  <1>2. Shaped'
    <2>1. Shaped /\ salt' \in [Side -> Salt \cup {Plain}] /\ msg' \in [Msg -> Message]
      BY <1>1, InvParts, SentMsgs
    <2> QED BY <1>1, <2>1 DEF Shaped, Sends, nodeVars
  <1>3. Seen'
    <2>1. \A q \in Side : tree[q] # {} => tree'[q] # {} /\ salt'[q] = salt[q]
      <3>1. \A q \in Side : q # Sender(i) => salt'[q] = salt[q]
        BY <1>1, SentMsgs
      <3>2. salt'[Sender(i)] = salt[Sender(i)] \/ tree[Sender(i)] = {}
        BY <1>1 DEF Sends, Salts, Erases, Omits, Waits, Closed
      <3> QED BY <1>1, <3>1, <3>2 DEF Sends
    <2>2. \A j \in Msg : msg'[j].seen = "yes" => msg'[j] = msg[j]
      BY <1>1, SentMsgs
    <2>3. \A j \in Msg : msg[j].seen = "yes" => msg[j].st \in {"hashed", "placed"}
      BY InvParts DEF Seen
    <2> QED BY <2>1, <2>2, <2>3, SeenKept
  <1>4. \A q \in Side : Ruled(q)'
    BY <1>1, Sides, SendsRuled
  <1> QED BY <1>1, <1>2, <1>3, <1>4, SendsSized DEF Inv

\* One message changes its place, and nothing else but what is counted and the trees.
LEMMA Moved ==
    ASSUME Inv, NEW i \in Msg, NEW m \in Message, msg' = [msg EXCEPT ![i] = m]
    PROVE  msg' \in [Msg -> Message] /\ msg'[i] = m /\ \A j \in Msg : j # i => msg'[j] = msg[j]
  BY InvParts DEF Shaped

LEMMA SteadyInv ==
    ASSUME Inv, UNCHANGED <<salt, minted, nodeVars, due, net, events, evicted, spoilt>>,
           mem' \in [Side -> Mem], tree' \in [Side -> SUBSET (Salt \cup {Plain})],
           msg' \in [Msg -> Message], cut' \subseteq Msg,
           \A q \in Side : /\ mem'[q].half = mem[q].half /\ mem'[q].ansHalf = mem[q].ansHalf
                           /\ mem'[q].ansPrint = mem[q].ansPrint /\ mem'[q].plain <= mem[q].plain
                           /\ Gone(q) \subseteq Gone(q)' /\ Ruled(q)',
           Seen'
    PROVE  Inv'
  <1>1. Shaped /\ Sized /\ events \in 0..MaxEvents /\ events <= events /\ \A q \in Side : mem[q] \in Mem
    BY InvParts, Sides DEF Shaped
  <1>2. /\ Framed' /\ Down' /\ Fresh'
        /\ \A q \in Side : /\ mem'[q].half <= minted'[q] /\ minted'[q] <= events' + 1
                           /\ mem'[q].half = 0 /\ ~frozen'[q] => minted'[q] <= events'
    <2>1. \A q \in Side : salt'[q] \in {salt[q], Plain}
      OBVIOUS
    <2> QED BY <1>1, <2>1, Steady
  <1>3. ASSUME NEW q \in Side PROVE mem'[q].plain <= Cardinality(Gone(q)')
    <2>1. Cardinality(Gone(q)) \in Nat /\ Cardinality(Gone(q)') \in Nat
          /\ Cardinality(Gone(q)) <= Cardinality(Gone(q)')
      BY SideSets, Cards
    <2>2. mem[q].plain <= Cardinality(Gone(q)) /\ mem[q].plain \in Nat /\ mem'[q].plain \in Nat
          /\ mem'[q].plain <= mem[q].plain
      BY <1>1 DEF Sized, Mem
    <2> QED BY <2>1, <2>2
  <1>4. Sized'
    BY <1>2, <1>3 DEF Sized
  <1>5. Shaped'
    BY <1>1 DEF Shaped, nodeVars
  <1> QED BY <1>2, <1>4, <1>5 DEF Inv

LEMMA AbandonInv == ASSUME Inv, NEW i \in Msg, Abandon(i) PROVE Inv'
  <1> SUFFICES ASSUME NEW p \in Side, p = Sender(i) PROVE Inv'
    BY Sides
  <1> DEFINE m == [msg[i] EXCEPT !.st = "void"]
             k == IF msg[i].rule = Plain /\ mem[p].plain > 0 THEN mem[p].plain - 1 ELSE mem[p].plain
             n == [mem[p] EXCEPT !.plain = k]
  <1>1. /\ Ruled(p) /\ msg \in [Msg -> Message] /\ mem \in [Side -> Mem] /\ cut \subseteq Msg
        /\ tree \in [Side -> SUBSET (Salt \cup {Plain})] /\ mem[p].plain \in Nat /\ mem[p] \in Mem
    BY InvParts DEF Shaped, Mem
  <1>2. m \in Message /\ m.st = "void" /\ m.rule = msg[i].rule /\ m.seen = msg[i].seen
    BY <1>1 DEF Message
  <1>3. k \in Nat /\ k <= mem[p].plain
    BY <1>1
  <1>4. n \in Mem /\ n.plain = k /\ n.half = mem[p].half /\ (n.spent <=> mem[p].spent)
        /\ n.ansHalf = mem[p].ansHalf /\ n.ansPrint = mem[p].ansPrint
    <2> HIDE DEF k
    <2> QED BY <1>1, <1>3 DEF Mem
  <1>5. /\ msg[i].st = "hashed" /\ msg[i].seen = "no"
        /\ msg' = [msg EXCEPT ![i] = m] /\ mem' = [mem EXCEPT ![p] = n]
        /\ cut' = (IF i \in cut THEN cut \cup Unplaced(p) ELSE cut)
        /\ UNCHANGED <<salt, tree, minted, nodeVars, due, net, events, evicted, spoilt>>
    BY <1>1 DEF Abandon
  <1>6. k = IF msg[i].rule = Plain /\ mem[p].plain > 0 THEN mem[p].plain - 1 ELSE mem[p].plain
    OBVIOUS
  <1> HIDE DEF m, k, n
  <1>7. msg' \in [Msg -> Message] /\ msg'[i] = m /\ \A j \in Msg : j # i => msg'[j] = msg[j]
    BY <1>2, <1>5, Moved
  <1>8. mem' \in [Side -> Mem] /\ mem'[p] = n /\ \A q \in Side : q # p => mem'[q] = mem[q]
    BY <1>1, <1>4, <1>5
  <1>9. \A q \in Side : Gone(q) \subseteq Gone(q)'
    BY <1>2, <1>5, <1>7 DEF Gone
  <1>10. Seen'
    <2>1. \A j \in Msg : msg'[j].seen = "yes" => msg'[j] = msg[j]
      BY <1>2, <1>5, <1>7
    <2>2. \A j \in Msg : msg[j].seen = "yes" => msg[j].st \in {"hashed", "placed"}
      BY InvParts DEF Seen
    <2> QED BY <1>5, <2>1, <2>2, SeenKept
  <1>11. ASSUME NEW q \in Side PROVE Ruled(q)'
    <2>1. CASE q # p
      <3>1. \A j \in Msg : Sender(j) = q => msg'[j] = msg[j]
        BY <1>7, <2>1
      <3>2. cut \subseteq cut'
        BY <1>5
      <3> QED BY <1>5, <1>8, <2>1, <3>1, <3>2, RuledKept
    <2>2. Cardinality(Loose(p)') <= mem'[p].plain
      <3>1. IsFiniteSet(Loose(p)) /\ Cardinality(Loose(p)) \in Nat /\ Cardinality(Loose(p)) <= mem[p].plain
        BY <1>1, SideSets, Bounded DEF Ruled
      <3>2. CASE i \in cut
        <4>1. Loose(p)' = {}
          BY <1>2, <1>5, <1>7, <3>2 DEF Loose, Unplaced
        <4>2. Cardinality(Loose(p)') = 0
          BY <4>1, FS_EmptySet
        <4> QED BY <1>3, <1>4, <1>8, <4>2
      <3>3. CASE i \notin cut /\ msg[i].rule = Plain
        <4>1. i \in Loose(p) /\ Loose(p)' \subseteq Loose(p) \ {i}
          BY <1>2, <1>5, <1>7, <3>3 DEF Loose
        <4>2. IsFiniteSet(Loose(p) \ {i}) /\ Cardinality(Loose(p) \ {i}) = Cardinality(Loose(p)) - 1
          BY <3>1, <4>1, FS_RemoveElement
        <4>3. Cardinality(Loose(p)') <= Cardinality(Loose(p)) - 1 /\ Cardinality(Loose(p)') \in Nat
          BY <4>1, <4>2, FS_Subset, FS_CardinalityType
        <4>4. mem[p].plain > 0
          BY <1>1, <3>1, <4>3
        <4>5. k = mem[p].plain - 1
          BY <1>6, <3>3, <4>4
        <4> QED BY <1>1, <1>4, <1>8, <3>1, <4>3, <4>5
      <3>4. CASE i \notin cut /\ msg[i].rule # Plain
        <4>1. Loose(p)' \subseteq Loose(p)
          BY <1>2, <1>5, <1>7, <3>4 DEF Loose
        <4>2. Cardinality(Loose(p)') <= Cardinality(Loose(p)) /\ Cardinality(Loose(p)') \in Nat
          BY <3>1, <4>1, FS_Subset, FS_CardinalityType
        <4>3. k = mem[p].plain
          BY <1>6, <3>4
        <4> QED BY <1>1, <1>4, <1>8, <3>1, <4>2, <4>3
      <3> QED BY <3>2, <3>3, <3>4
    <2>3. \A j \in Msg : j # i \/ msg'[j].st = "void"
      BY <1>2, <1>7
    <2>4. Ruled(p)'
      BY <1>1, <1>4, <1>5, <1>7, <1>8, <2>2, <2>3 DEF Ruled
    <2> QED BY <2>1, <2>4
  <1>12. cut' \subseteq Msg
    BY <1>1, <1>5 DEF Unplaced
  <1>13. \A q \in Side : /\ mem'[q].half = mem[q].half /\ mem'[q].ansHalf = mem[q].ansHalf
                         /\ mem'[q].ansPrint = mem[q].ansPrint /\ mem'[q].plain <= mem[q].plain
    <2>1. \A q \in Side : mem[q].plain \in Nat
      BY <1>1 DEF Mem
    <2> QED BY <1>3, <1>4, <1>8, <2>1
  <1> QED BY <1>1, <1>5, <1>7, <1>8, <1>9, <1>10, <1>11, <1>12, <1>13, SteadyInv

LEMMA PlaceInv == ASSUME Inv, NEW i \in Msg, Place(i) PROVE Inv'
  <1> SUFFICES ASSUME NEW p \in Side, p = Sender(i) PROVE Inv'
    BY Sides
  <1> DEFINE m == [msg[i] EXCEPT !.st = "placed"]
  <1>1. /\ Ruled(p) /\ msg \in [Msg -> Message] /\ mem \in [Side -> Mem] /\ cut \subseteq Msg
        /\ tree \in [Side -> SUBSET (Salt \cup {Plain})]
    BY InvParts DEF Shaped
  <1>2. m \in Message /\ m.st = "placed" /\ m.rule = msg[i].rule /\ m.seen = msg[i].seen
        /\ msg[i].rule \in Salt \cup {Plain}
    BY <1>1 DEF Message
  <1>3. /\ msg[i].st = "hashed" /\ msg' = [msg EXCEPT ![i] = m]
        /\ tree' = [tree EXCEPT ![p] = @ \cup {msg[i].rule}]
        /\ UNCHANGED <<salt, mem, minted, nodeVars, due, net, events, cut, evicted, spoilt>>
    BY <1>1 DEF Place
  <1> HIDE DEF m
  <1>4. msg' \in [Msg -> Message] /\ msg'[i] = m /\ \A j \in Msg : j # i => msg'[j] = msg[j]
    BY <1>2, <1>3, Moved
  <1>5. tree' \in [Side -> SUBSET (Salt \cup {Plain})] /\ tree'[p] # {}
        /\ \A q \in Side : tree[q] # {} => tree'[q] # {}
    BY <1>1, <1>2, <1>3
  <1>6. \A q \in Side : Gone(q) \subseteq Gone(q)'
    BY <1>2, <1>3, <1>4 DEF Gone
  <1>7. Seen'
    <2>1. \A j \in Msg : msg[j].seen = "yes" => msg[j].st \in {"hashed", "placed"}
      BY InvParts DEF Seen
    <2>2. \A j \in Msg : msg'[j].seen = msg[j].seen /\ msg'[j].rule = msg[j].rule
                         /\ (msg'[j].st = msg[j].st \/ msg'[j].st = "placed")
      BY <1>2, <1>4
    <2> QED BY <1>3, <1>5, <2>1, <2>2, SeenKept
  <1>8. ASSUME NEW q \in Side PROVE Ruled(q)'
    <2>1. CASE q # p
      <3>1. \A j \in Msg : Sender(j) = q => msg'[j] = msg[j]
        BY <1>4, <2>1
      <3> QED BY <1>3, <1>5, <3>1, RuledKept
    <2>2. Cardinality(Loose(p)') <= mem'[p].plain
      <3>1. IsFiniteSet(Loose(p)) /\ Cardinality(Loose(p)) \in Nat /\ Cardinality(Loose(p)) <= mem[p].plain
            /\ mem[p].plain \in Nat
        BY <1>1, SideSets, Bounded DEF Ruled, Mem
      <3>2. Loose(p)' \subseteq Loose(p)
        BY <1>2, <1>3, <1>4 DEF Loose
      <3>3. Cardinality(Loose(p)') <= Cardinality(Loose(p)) /\ Cardinality(Loose(p)') \in Nat
        BY <3>1, <3>2, FS_Subset, FS_CardinalityType
      <3> QED BY <1>3, <3>1, <3>3
    <2>3. \A j \in Msg : /\ msg'[j].rule = msg[j].rule /\ (j # i => msg'[j].st = msg[j].st)
                         /\ j = i => msg'[j].st = "placed" /\ msg[j].st = "hashed"
      BY <1>2, <1>3, <1>4
    <2>4. Ruled(p)'
      BY <1>1, <1>3, <1>5, <2>2, <2>3 DEF Ruled
    <2> QED BY <2>1, <2>4
  <1>9. \A q \in Side : mem'[q].plain <= mem[q].plain
    BY <1>1, <1>3 DEF Mem
  <1> QED BY <1>1, <1>3, <1>4, <1>5, <1>6, <1>7, <1>8, <1>9, SteadyInv

LEMMA DeliverInv == ASSUME Inv, NEW i \in Msg, Deliver(i) PROVE Inv'
  <1> DEFINE r == Peer(Sender(i))
             takes == msg[i].rule \in {Plain, salt[r]}
             m == [msg[i] EXCEPT !.seen = IF takes THEN "yes" ELSE "refused"]
  <1>1. /\ r \in Side /\ msg \in [Msg -> Message] /\ mem \in [Side -> Mem] /\ cut \subseteq Msg
        /\ tree \in [Side -> SUBSET (Salt \cup {Plain})]
    BY InvParts, Sides DEF Shaped
  <1>2. /\ m \in Message /\ m.st = msg[i].st /\ m.rule = msg[i].rule
        /\ m.seen = (IF takes THEN "yes" ELSE "refused") /\ msg[i].rule \in Salt \cup {Plain}
    BY <1>1 DEF Message
  <1>3. /\ msg[i].st \in {"hashed", "placed"} /\ msg' = [msg EXCEPT ![i] = m]
        /\ tree' = [tree EXCEPT ![r] = IF takes THEN @ \cup {msg[i].rule} ELSE @]
        /\ UNCHANGED <<salt, mem, minted, nodeVars, due, net, events, cut, evicted, spoilt>>
    BY <1>1 DEF Deliver
  <1> HIDE DEF m
  <1>4. msg' \in [Msg -> Message] /\ msg'[i] = m /\ \A j \in Msg : j # i => msg'[j] = msg[j]
    BY <1>2, <1>3, Moved
  <1>5. tree' \in [Side -> SUBSET (Salt \cup {Plain})] /\ (takes => tree'[r] # {})
        /\ \A q \in Side : tree[q] # {} => tree'[q] # {}
    BY <1>1, <1>2, <1>3
  <1>6. \A q \in Side : Gone(q) \subseteq Gone(q)'
    BY <1>2, <1>3, <1>4 DEF Gone
  <1>7. Seen'
    <2>1. Seen /\ \A j \in Msg : Peer(Sender(j)) \in Side
      BY InvParts, Sides
    <2>2. ASSUME NEW j \in Msg, msg'[j].seen = "yes"
          PROVE  /\ msg'[j].st \in {"hashed", "placed"} /\ tree'[Peer(Sender(j))] # {}
                 /\ msg'[j].rule # Plain => salt'[Peer(Sender(j))] = msg'[j].rule
      <3>1. CASE j = i
        BY <1>2, <1>3, <1>4, <1>5, <2>2, <3>1
      <3>2. CASE j # i
        BY <1>3, <1>4, <1>5, <2>1, <2>2, <3>2 DEF Seen
      <3> QED BY <3>1, <3>2
    <2> QED BY <2>2 DEF Seen
  <1>8. ASSUME NEW q \in Side PROVE Ruled(q)'
    <2>1. \A j \in Msg : msg'[j].st = msg[j].st /\ msg'[j].rule = msg[j].rule
      BY <1>2, <1>4
    <2> QED BY <1>3, <1>5, <2>1, RuledKept
  <1>9. \A q \in Side : mem'[q].plain <= mem[q].plain
    BY <1>1, <1>3 DEF Mem
  <1> QED BY <1>1, <1>3, <1>4, <1>5, <1>6, <1>7, <1>8, <1>9, SteadyInv

-----------------------------------------------------------------------------
(* Nodes and memory.                                                       *)

LEMMA Eventful == ASSUME Inv, Event PROVE events' = events + 1 /\ events' \in 0..MaxEvents /\ events \in Nat
  <1>1. events' = events + 1 /\ events \in Nat
    BY InvParts, Sides DEF Event, Shaped
  <1> DEFINE n == Sent
  <1>2. n \in Nat /\ n + events < MaxEvents
    BY SentNat DEF Event
  <1> HIDE DEF n
  <1>3. events' <= MaxEvents
    BY <1>1, <1>2, Sides
  <1> QED BY <1>1, <1>3, Sides

\* The agreement itself is as it was.
LEMMA NodesInv ==
    ASSUME Inv, UNCHANGED <<salt, tree, mem, minted, msg, cut, evicted>>,
           up' \in [Side -> BOOLEAN], frozen' \in [Side -> BOOLEAN], doomed' \in [Side -> BOOLEAN],
           due' \in [Side -> BOOLEAN], net' = [p \in Side |-> net'[p]], spoilt' \in BOOLEAN,
           \A p \in Side : DOMAIN net'[p] = {} \/ net'[p] = net[p],
           events' \in 0..MaxEvents, events <= events', Down',
           \A p \in Side : frozen[p] => frozen'[p],
           evicted \/ UNCHANGED <<frozen, doomed>>
    PROVE  Inv'
  <1>1. Shaped /\ Framed /\ Sized /\ Seen /\ Fresh /\ events \in Nat /\ \A p \in Side : minted[p] \in Nat
    BY InvParts DEF Shaped
  <1>2. Shaped'
    BY <1>1 DEF Shaped
  <1>3. Framed'
    <2>1. \A q \in Side : \A s : HalfOf(q, s)' <=> HalfOf(q, s)
      BY DEF HalfOf
    <2> QED BY <1>1, <2>1, Sides DEF Framed
  <1>4. Sized'
    <2> SUFFICES ASSUME NEW p \in Side
                 PROVE  /\ mem'[p].half <= minted'[p] /\ minted'[p] <= events' + 1
                        /\ mem'[p].half = 0 /\ ~frozen'[p] => minted'[p] <= events'
                        /\ mem'[p].plain <= Cardinality(Gone(p)')
      BY DEF Sized
    <2>1. Gone(p)' = Gone(p)
      BY DEF Gone
    <2>2. /\ mem[p].half <= minted[p] /\ minted[p] <= events + 1
          /\ mem[p].half = 0 /\ ~frozen[p] => minted[p] <= events
          /\ mem[p].plain <= Cardinality(Gone(p))
      BY <1>1 DEF Sized
    <2>3. events' \in Nat
      BY Sides
    <2> QED BY <1>1, <2>1, <2>2, <2>3
  <1>5. \A p \in Side : Ruled(p)'
    <2> TAKE p \in Side
    <2> QED BY RuledKept
  <1>6. Seen'
    BY <1>1, SeenKept DEF Seen
  <1>7. Fresh'
    BY <1>1 DEF Fresh
  <1> QED BY <1>2, <1>3, <1>4, <1>5, <1>6, <1>7 DEF Inv

LEMMA ConnectInv == ASSUME Inv, Connect PROVE Inv'
  <1>1. Shaped /\ Down /\ events' = events + 1 /\ events' \in 0..MaxEvents /\ events \in Nat
    BY InvParts, Eventful DEF Connect
  <1>2. \A p \in Side : up[p] /\ up'[p]
    BY DEF Side, Connect, nodeVars
  <1>3. Down'
    BY <1>1, <1>2 DEF Down, Connect, nodeVars
  <1>4. net' = [p \in Side |-> net'[p]] /\ \A p \in Side : DOMAIN net'[p] = {}
    BY SetDom DEF Connect
  <1>5. /\ due' \in [Side -> BOOLEAN] /\ spoilt' \in BOOLEAN /\ events <= events'
        /\ UNCHANGED <<salt, tree, mem, minted, up, frozen, doomed, msg, cut, evicted>>
    <2>1. events <= events'
      BY <1>1
    <2>2. due' \in [Side -> BOOLEAN] /\ spoilt' \in BOOLEAN
      BY DEF Connect
    <2>3. UNCHANGED <<salt, tree, mem, minted, up, frozen, doomed, msg, cut, evicted>>
      BY DEF Connect, nodeVars
    <2> QED BY <2>1, <2>2, <2>3
  <1>6. up' \in [Side -> BOOLEAN] /\ frozen' \in [Side -> BOOLEAN] /\ doomed' \in [Side -> BOOLEAN]
        /\ \A p \in Side : frozen[p] => frozen'[p]
    BY <1>1, <1>5 DEF Shaped
  <1> QED BY <1>1, <1>3, <1>4, <1>5, <1>6, NodesInv

LEMMA ReviveInv == ASSUME Inv, NEW p \in Side, Revive(p) PROVE Inv'
  <1>1. Shaped /\ Down /\ events \in Nat
    BY InvParts DEF Shaped
  <1>2. Down'
    BY <1>1 DEF Down, Revive, Shaped
  <1> QED BY <1>1, <1>2, NodesInv DEF Shaped, Revive

\* The node of p stops.
LEMMA Stopped ==
    ASSUME Inv, NEW p \in Side, NodeStops(p)
    PROVE  /\ up' \in [Side -> BOOLEAN] /\ ~up'[p] /\ \A q \in Side : up'[q] => up[q]
           /\ due' \in [Side -> BOOLEAN] /\ \A q \in Side : ~due'[q]
           /\ net' = [q \in Side |-> net'[q]] /\ \A q \in Side : DOMAIN net'[q] = {}
           /\ spoilt' \in BOOLEAN
  BY InvParts, SetDom DEF Shaped, NodeStops

LEMMA InterruptInv == ASSUME Inv, NEW p \in Side, Interrupt(p) PROVE Inv'
  <1>1. Shaped /\ Down /\ events' = events + 1 /\ events' \in 0..MaxEvents /\ events \in Nat
    BY InvParts, Eventful DEF Interrupt
  <1>2. /\ up' \in [Side -> BOOLEAN] /\ ~up'[p] /\ \A q \in Side : up'[q] => up[q]
        /\ due' \in [Side -> BOOLEAN] /\ \A q \in Side : ~due'[q]
        /\ net' = [q \in Side |-> net'[q]] /\ \A q \in Side : DOMAIN net'[q] = {}
        /\ spoilt' \in BOOLEAN
    BY Stopped DEF Interrupt
  <1>3. Down'
    BY <1>1, <1>2 DEF Down, Interrupt
  <1> QED BY <1>1, <1>2, <1>3, NodesInv DEF Shaped, Interrupt

\* The maps of p are dropped, by an eviction or a restart.
Drops(p) ==
    /\ mem' \in [Side -> Mem] /\ \A q \in Side : q # p => mem'[q] = mem[q]
    /\ mem'[p].half = 0 /\ mem'[p].plain = 0 /\ mem'[p].ansHalf = Plain /\ mem'[p].ansPrint = Plain
    /\ msg' = [i \in Msg |-> IF i \in Waiting(p) THEN [msg[i] EXCEPT !.st = "void"] ELSE msg[i]]
    /\ cut' = cut \cup Unplaced(p) /\ evicted'
    /\ UNCHANGED <<salt, tree, minted>>

LEMMA NoMemMem ==
    ASSUME NEW b \in BOOLEAN
    PROVE  LET n == [NoMem EXCEPT !.told = b]
           IN  n \in Mem /\ n.half = 0 /\ n.plain = 0 /\ n.ansHalf = Plain /\ n.ansPrint = Plain
  BY DEF NoMem, Mem, Plain

LEMMA Dropped ==
    ASSUME Inv, NEW p \in Side, Drops(p)
    PROVE  /\ msg' \in [Msg -> Message] /\ cut' \subseteq Msg
           /\ \A i \in Waiting(p) : msg'[i].st = "void" /\ msg'[i].seen = msg[i].seen
           /\ \A i \in Msg : i \notin Waiting(p) => msg'[i] = msg[i]
           /\ \A q \in Side : Ruled(q)' /\ mem'[q].plain <= Cardinality(Gone(q)')
           /\ Seen'
  <1>1. msg \in [Msg -> Message] /\ Ruled(p) /\ cut \subseteq Msg /\ Waiting(p) \subseteq Msg
        /\ Sized /\ \A q \in Side : mem[q] \in Mem
    BY InvParts DEF Shaped, Waiting
  <1>2. /\ msg' \in [Msg -> Message]
        /\ \A i \in Waiting(p) : msg'[i].st = "void" /\ msg'[i].seen = msg[i].seen
        /\ \A i \in Msg : i \notin Waiting(p) => msg'[i] = msg[i]
    <2>1. ASSUME NEW i \in Msg
          PROVE  LET m == [msg[i] EXCEPT !.st = "void"]
                 IN  m \in Message /\ m.st = "void" /\ m.seen = msg[i].seen
      BY <1>1 DEF Message
    <2> QED BY <1>1, <2>1 DEF Drops
  <1>3. cut' \subseteq Msg /\ cut \subseteq cut'
    BY <1>1 DEF Drops, Unplaced
  <1>4. Ruled(p)'
    <2>1. Loose(p)' = {}
      BY <1>2 DEF Loose, Drops, Unplaced, Waiting
    <2>2. Cardinality(Loose(p)') <= mem'[p].plain
      BY <2>1, FS_EmptySet DEF Drops
    <2>3. \A i \in Msg : Sender(i) = p => /\ msg'[i].st # "waiting"
                                          /\ msg'[i].st = "hashed" => i \in cut'
                                          /\ msg'[i].st = "placed" => msg'[i] = msg[i]
      BY <1>2 DEF Drops, Unplaced, Waiting
    <2> QED BY <1>1, <1>3, <2>2, <2>3 DEF Ruled, Drops
  <1>5. ASSUME NEW q \in Side, q # p PROVE Ruled(q)'
    <2>1. \A i \in Msg : Sender(i) = q => msg'[i] = msg[i]
      BY <1>2, <1>5 DEF Waiting
    <2> QED BY <1>3, <1>5, <2>1, RuledKept DEF Drops
  <1>6. ASSUME NEW q \in Side PROVE mem'[q].plain <= Cardinality(Gone(q)')
    <2>1. Gone(q) \subseteq Gone(q)'
      BY <1>1, <1>2 DEF Gone, Waiting
    <2>2. Cardinality(Gone(q)) \in Nat /\ Cardinality(Gone(q)') \in Nat
          /\ Cardinality(Gone(q)) <= Cardinality(Gone(q)')
      BY <2>1, SideSets, Cards
    <2>3. mem[q].plain <= Cardinality(Gone(q)) /\ mem[q].plain \in Nat
      BY <1>1 DEF Sized, Mem
    <2>4. mem'[q].plain = 0 \/ mem'[q] = mem[q]
      BY DEF Drops
    <2> QED BY <2>2, <2>3, <2>4
  <1>7. Seen'
    <2>1. \A i \in Msg : msg[i].seen = "yes" => msg[i].st \in {"hashed", "placed"}
      BY InvParts DEF Seen
    <2>2. \A i \in Msg : msg'[i].seen = "yes" => msg'[i] = msg[i]
      BY <1>2, <2>1 DEF Waiting
    <2> QED BY <2>1, <2>2, SeenKept DEF Drops
  <1> QED BY <1>2, <1>3, <1>4, <1>5, <1>6, <1>7

LEMMA DropsInv ==
    ASSUME Inv, NEW p \in Side, Drops(p), NodeStops(p),
           frozen' \in [Side -> BOOLEAN], doomed' \in [Side -> BOOLEAN],
           \A q \in Side : q # p => frozen'[q] = frozen[q],
           events' \in 0..MaxEvents, events <= events', frozen'[p] \/ events' = events + 1
    PROVE  Inv'
  <1>1. /\ Shaped /\ Framed /\ Down /\ Sized /\ events \in Nat
        /\ \A q \in Side : minted[q] \in Nat
    BY InvParts DEF Shaped
  <1>2. /\ up' \in [Side -> BOOLEAN] /\ ~up'[p] /\ \A q \in Side : up'[q] => up[q]
        /\ due' \in [Side -> BOOLEAN] /\ \A q \in Side : ~due'[q]
        /\ net' = [q \in Side |-> net'[q]] /\ \A q \in Side : DOMAIN net'[q] = {}
        /\ spoilt' \in BOOLEAN
    BY Stopped
  <1>3. /\ msg' \in [Msg -> Message] /\ cut' \subseteq Msg /\ Seen'
        /\ \A q \in Side : Ruled(q)' /\ mem'[q].plain <= Cardinality(Gone(q)')
    BY Dropped
  <1>4. Shaped'
    BY <1>1, <1>2, <1>3 DEF Shaped, Drops
  <1>5. Framed'
    BY <1>1, <1>2 DEF Framed, Drops
  <1>6. Down'
    BY <1>1, <1>2 DEF Down
  <1>7. Sized'
    <2> SUFFICES ASSUME NEW q \in Side
                 PROVE  /\ mem'[q].half <= minted'[q] /\ minted'[q] <= events' + 1
                        /\ mem'[q].half = 0 /\ ~frozen'[q] => minted'[q] <= events'
      BY <1>3 DEF Sized
    <2>1. events' \in Nat /\ minted' = minted
      BY Sides DEF Drops
    <2>2. /\ mem[q].half <= minted[q] /\ minted[q] <= events + 1
          /\ mem[q].half = 0 /\ ~frozen[q] => minted[q] <= events
      BY <1>1 DEF Sized
    <2>3. CASE q = p
      <3>1. mem'[q].half = 0
        BY <2>3 DEF Drops
      <3> QED BY <1>1, <2>1, <2>2, <2>3, <3>1
    <2>4. CASE q # p
      <3>1. mem'[q] = mem[q] /\ frozen'[q] = frozen[q]
        BY <2>4 DEF Drops
      <3> QED BY <1>1, <2>1, <2>2, <3>1
    <2> QED BY <2>3, <2>4
  <1>8. Fresh'
    BY DEF Fresh, Drops
  <1> QED BY <1>3, <1>4, <1>5, <1>6, <1>7, <1>8 DEF Inv

LEMMA EvictsDrops ==
    ASSUME Inv, NEW p \in Side, Evicts(p), UNCHANGED <<salt, tree, minted>>
    PROVE  Drops(p)
  <1> DEFINE b == Waiting(p) # {}
             n == [NoMem EXCEPT !.told = b]
  <1>1. b \in BOOLEAN /\ mem \in [Side -> Mem]
    BY InvParts DEF Shaped
  <1>2. mem' = [mem EXCEPT ![p] = n]
    BY DEF Evicts
  <1> HIDE DEF b
  <1>3. n \in Mem /\ n.half = 0 /\ n.plain = 0 /\ n.ansHalf = Plain /\ n.ansPrint = Plain
    BY <1>1, NoMemMem
  <1> HIDE DEF n
  <1> QED BY <1>1, <1>2, <1>3 DEF Drops, Evicts

LEMMA TearDownInv == ASSUME Inv, NEW p \in Side, TearDown(p) PROVE Inv'
  <1>1. Shaped /\ events' = events + 1 /\ events' \in 0..MaxEvents /\ events \in Nat
    BY InvParts, Eventful DEF TearDown
  <1>2. Drops(p)
    BY EvictsDrops DEF TearDown
  <1>3. frozen' \in [Side -> BOOLEAN] /\ doomed' \in [Side -> BOOLEAN]
        /\ \A q \in Side : q # p => frozen'[q] = frozen[q]
    BY <1>1 DEF Shaped, TearDown
  <1> QED BY <1>1, <1>2, <1>3, DropsInv DEF TearDown

LEMMA RestartInv == ASSUME Inv, NEW p \in Side, Restart(p) PROVE Inv'
  <1>1. Shaped /\ events' = events + 1 /\ events' \in 0..MaxEvents /\ events \in Nat
    BY InvParts, Eventful DEF Restart
  <1>2. NoMem \in Mem /\ NoMem.half = 0 /\ NoMem.plain = 0 /\ NoMem.ansHalf = Plain /\ NoMem.ansPrint = Plain
    BY DEF NoMem, Mem, Plain
  <1>3. Drops(p)
    BY <1>1, <1>2 DEF Restart, Drops, Shaped
  <1>4. frozen' \in [Side -> BOOLEAN] /\ doomed' \in [Side -> BOOLEAN]
        /\ \A q \in Side : q # p => frozen'[q] = frozen[q]
    BY <1>1 DEF Shaped, Restart
  <1>5. NodeStops(p) /\ events <= events'
    BY <1>1 DEF Restart
  <1> QED BY <1>1, <1>3, <1>4, <1>5, DropsInv

LEMMA FreezeInv == ASSUME Inv, NEW p \in Side, Freeze(p) PROVE Inv'
  <1>1. Shaped /\ Down /\ events \in Nat /\ events \in 0..MaxEvents /\ events' = events
    BY InvParts DEF Shaped, Freeze
  <1>2. /\ frozen' \in [Side -> BOOLEAN] /\ doomed' \in [Side -> BOOLEAN] /\ frozen'[p]
        /\ \A q \in Side : q # p => frozen'[q] = frozen[q]
    BY <1>1 DEF Shaped, Freeze
  <1>3. CASE up[p]
    <2>1. Drops(p) /\ NodeStops(p)
      BY <1>3, EvictsDrops DEF Freeze
    <2> QED BY <1>1, <1>2, <2>1, DropsInv
  <1>4. CASE ~up[p]
    <2>1. evicted
      BY InvParts DEF Fresh, Freeze
    <2>2. UNCHANGED <<up, due, net, spoilt, mem, msg, cut, evicted, salt, tree, minted>>
      BY <1>4 DEF Freeze
    <2>3. Down'
      BY <1>1, <1>2, <1>4, <2>2 DEF Down
    <2>4. \A q \in Side : frozen[q] => frozen'[q]
      BY <1>2
    <2> QED BY <1>1, <1>2, <2>1, <2>2, <2>3, <2>4, NodesInv DEF Shaped
  <1> QED BY <1>3, <1>4

-----------------------------------------------------------------------------
(* The theorems.                                                           *)

LEMMA InitInv == ASSUME Init PROVE Inv
  <1>1. /\ \A p \in Side : /\ salt[p] = Plain /\ tree[p] = {} /\ mem[p] = NoMem /\ minted[p] = 0
                           /\ up[p] /\ ~frozen[p] /\ ~doomed[p] /\ due[p] /\ net[p] = EmptyBag
        /\ \A i \in Msg : msg[i] = [st |-> "new", rule |-> Plain, seen |-> "no"]
        /\ events = 0 /\ cut = {} /\ ~evicted /\ ~spoilt
    BY DEF Init
  <1>2. NoMem \in Mem /\ NoMem.half = 0 /\ NoMem.plain = 0 /\ NoMem.ansHalf = Plain /\ NoMem.ansPrint = Plain
    BY DEF NoMem, Mem, Plain
  <1>3. Shaped
    <2>1. [st |-> "new", rule |-> Plain, seen |-> "no"] \in Message
      BY DEF Message
    <2>2. salt \in [Side -> Salt \cup {Plain}] /\ tree \in [Side -> SUBSET (Salt \cup {Plain})]
      BY DEF Init
    <2>3. mem \in [Side -> Mem] /\ minted \in [Side -> Nat] /\ net = [p \in Side |-> net[p]]
      BY <1>2 DEF Init
    <2>4. /\ up \in [Side -> BOOLEAN] /\ frozen \in [Side -> BOOLEAN]
          /\ doomed \in [Side -> BOOLEAN] /\ due \in [Side -> BOOLEAN]
      BY DEF Init
    <2>5. msg \in [Msg -> Message]
      BY <2>1 DEF Init
    <2>6. cut \subseteq Msg /\ events \in 0..MaxEvents
      BY Sides DEF Init
    <2>7. evicted \in BOOLEAN /\ spoilt \in BOOLEAN
      BY Zenon DEF Init
    <2> QED BY <2>2, <2>3, <2>4, <2>5, <2>6, <2>7 DEF Shaped
  <1>4. DOMAIN EmptyBag = {}
    BY SetDom
  <1>5. Framed /\ Down /\ Seen /\ Fresh
    BY <1>1, <1>2, <1>4, Sides DEF Framed, Down, Seen, Fresh
  <1>6. ASSUME NEW p \in Side PROVE Ruled(p) /\ 0 <= Cardinality(Gone(p))
    <2>1. Loose(p) = {} /\ Gone(p) = {}
      BY <1>1 DEF Loose, Gone
    <2>2. Cardinality(Loose(p)) = 0 /\ Cardinality(Gone(p)) = 0
      BY <2>1, FS_EmptySet
    <2> QED BY <1>1, <1>2, <2>2 DEF Ruled
  <1>7. Sized
    BY <1>1, <1>2, <1>6 DEF Sized
  <1> QED BY <1>3, <1>5, <1>6, <1>7 DEF Inv

LEMMA NextInv == ASSUME Inv, [Next]_vars PROVE Inv'
  <1>1. CASE Connect
    BY <1>1, ConnectInv
  <1>2. ASSUME NEW p \in Side, Announce(p) \/ Receive(p) PROVE Inv'
    <2>1. Handles(p)
      BY <1>2, AnnounceHandles, ReceiveHandles
    <2>2. due[p] \/ DOMAIN net[p] # {}
      BY <1>2 DEF Announce, Receive, ClosedArrives
    <2>3. ~frozen[p]
      BY <2>2, BothUp
    <2> QED BY <2>1, <2>3, HandlesInv
  <1>3. ASSUME NEW p \in Side, Timeout(p) \/ \E f \in DOMAIN net[Peer(p)] : SendFails(p, f) PROVE Inv'
    <2>1. Handles(p)
      BY <1>3, TimeoutHandles, SendFailsHandles
    <2>2. UNCHANGED minted
      BY <1>3 DEF Timeout, SendFails
    <2> QED BY <2>1, <2>2, HandlesInv
  <1>4. ASSUME NEW p \in Side, \/ Freeze(p) \/ TearDown(p) \/ Interrupt(p) \/ Restart(p) \/ Revive(p)
        PROVE  Inv'
    BY <1>4, FreezeInv, TearDownInv, InterruptInv, RestartInv, ReviveInv
  <1>5. ASSUME NEW i \in Msg, NEW arms \in BOOLEAN, NEW fails \in BOOLEAN, Send(i, arms, fails) PROVE Inv'
    BY <1>5, SendInv
  <1>6. ASSUME NEW i \in Msg, Abandon(i) \/ Place(i) \/ Deliver(i) PROVE Inv'
    BY <1>6, AbandonInv, PlaceInv, DeliverInv
  <1>7. CASE UNCHANGED vars
    <2>1. Shaped /\ Down /\ events \in 0..MaxEvents /\ events \in Nat
      BY InvParts DEF Shaped
    <2>2. /\ UNCHANGED <<salt, tree, mem, minted, msg, cut, evicted, up, frozen, doomed, due, net, events>>
          /\ spoilt' = spoilt
      BY <1>7 DEF vars, nodeVars
    <2>3. Down'
      BY <2>1, <2>2 DEF Down
    <2> QED BY <2>1, <2>2, <2>3, NodesInv DEF Shaped
  <1> QED BY <1>1, <1>2, <1>3, <1>4, <1>5, <1>6, <1>7 DEF Next

\* Whatever the order of frames, timeouts, failures, evictions and restarts, the rule of a
\* side, what its counters and flags have recorded of it, and what the peer relies on agree.
THEOREM Invariance == Spec => []Inv
  BY InitInv, NextInv, PTL DEF Spec

LEMMA TypeFromInv == ASSUME Inv PROVE TypeOK
  <1>1. Shaped /\ Framed /\ Sized /\ events \in Nat /\ events <= MaxEvents /\ MaxEvents \in Nat
        /\ MaxMsgs \in Nat
    BY InvParts, Sides DEF Shaped
  <1>2. ASSUME NEW p \in Side
        PROVE  /\ mem[p].half \in 0..minted[p] /\ mem[p].plain \in 0..MaxMsgs
               /\ minted[p] \in 0..MaxEvents + 1
    <2>1. mem[p] \in Mem /\ mem[p].half \in Nat /\ mem[p].plain \in Nat /\ minted[p] \in Nat
      BY <1>1 DEF Shaped, Mem
    <2>2. /\ mem[p].half <= minted[p] /\ minted[p] <= events + 1
          /\ mem[p].plain <= Cardinality(Gone(p))
      BY <1>1 DEF Sized
    <2>3. Cardinality(Gone(p)) \in Nat /\ Cardinality(Gone(p)) <= MaxMsgs
      BY SideSets, Bounded
    <2> QED BY <1>1, <2>1, <2>2, <2>3
  <1>3. ASSUME NEW p \in Side
        PROVE  /\ {mem[p].susp, mem[p].spent, mem[p].told, mem[p].pending} \subseteq BOOLEAN
               /\ mem[p].ansHalf \in {Plain} \cup {{h} : h \in Half}
               /\ mem[p].ansPrint \in Salt \cup {Plain}
    <2>1. mem[p] \in Mem
      BY <1>1 DEF Shaped
    <2> QED BY <1>1, <2>1 DEF Framed, Mem
  <1>4. ASSUME NEW p \in Side, NEW f \in DOMAIN net[p]
        PROVE  f.kind \in {"half", "print", "closed"} /\ f.of \subseteq Half
    <2>1. CASE f.kind = "half" /\ HalfOf(Peer(p), f.of)
      <3>1. PICK k \in 1..minted[Peer(p)] : f.of = {<<Peer(p), k>>}
        BY <2>1 DEF HalfOf
      <3>2. Peer(p) \in Side /\ minted[Peer(p)] \in 0..MaxEvents + 1
        BY <1>2, Sides
      <3>3. k \in 1..MaxEvents + 1
        BY <1>1, <3>2
      <3> QED BY <2>1, <3>1, <3>2, <3>3 DEF Half
    <2>2. CASE f.kind = "print" /\ f.of \in Salt
      BY <2>2 DEF Salt
    <2>3. CASE f = ClosedFrame
      BY <2>3 DEF ClosedFrame, Frame
    <2> QED BY <1>1, <2>1, <2>2, <2>3 DEF Framed
  <1>5. minted \in [Side -> 0..MaxEvents + 1]
    BY <1>1, <1>2 DEF Shaped
  <1>6. {up, frozen, doomed, due} \subseteq [Side -> BOOLEAN]
    BY <1>1 DEF Shaped
  <1>7. msg \in [Msg -> [st   : {"new", "waiting", "hashed", "placed", "void"},
                         rule : Salt \cup {Plain}, seen : {"no", "yes", "refused"}]]
    BY <1>1 DEF Shaped, Message
  <1> QED BY <1>1, <1>2, <1>3, <1>4, <1>5, <1>6, <1>7 DEF TypeOK, Shaped

\* The maps of SessionSalts, the session's salt and the messages keep their types; a side
\* counts no more hashes without the salt than it made, and makes no half but once for each
\* time its maps were dropped.
THEOREM TypeCorrect == Spec => []TypeOK
  BY Invariance, TypeFromInv, PTL

LEMMA RuleFromInv == ASSUME Inv PROVE OneRule
  <1>1. (\A p \in Side : Ruled(p)) /\ Seen
    BY InvParts
  <1> SUFFICES ASSUME NEW i \in Leafed \ cut, NEW j \in Leafed \ cut, Sender(i) = Sender(j)
               PROVE  msg[i].rule = msg[j].rule
    BY DEF OneRule
  <1>2. \A k \in Leafed \ cut : salt[Sender(k)] = msg[k].rule
    BY <1>1, Sides DEF Leafed, Ruled, Seen
  <1> QED BY <1>2

\* No transcript is half salted and half unsalted: contentHashForSession, suspendSalt,
\* discardUnspentSalt and the release of a claim keep the messages of one side that got a leaf
\* under one rule, in every interleaving with the agreement, except for a message whose claim
\* was dropped with the maps.
THEOREM RuleIsOne == Spec => []OneRule
  BY Invariance, RuleFromInv, PTL

LEMMA LeafFromInv == ASSUME Inv PROVE LeafSaltKept
  <1>1. (\A p \in Side : Ruled(p)) /\ Seen
    BY InvParts
  <1> QED BY <1>1, Sides DEF Ruled, Seen, LeafSaltKept

\* discardUnspentSalt, whose guard is what is counted in memory and the tree, never erases the
\* salt of a leaf, neither for the sender nor for the peer that took the message.
THEOREM SaltKept == Spec => []LeafSaltKept
  BY Invariance, LeafFromInv, PTL

LEMMA FreezeFromInv == ASSUME Inv PROVE FrozenOnlyIfEvicted
  BY InvParts DEF Fresh, FrozenOnlyIfEvicted

\* salt_state_divergent and a fingerprint of another salt, the two reasons to freeze a session,
\* are met only after a side's maps were dropped: before that there is one salt to derive, since
\* saltState makes a half once and suspension does not drop it.
THEOREM FreezeNeedsEviction == Spec => []FrozenOnlyIfEvicted
  BY Invariance, FreezeFromInv, PTL

-----------------------------------------------------------------------------
(* The salt is shared: as long as nothing is spoilt, a side that would     *)
(* hash its first message with a salt its peer does not have, or has       *)
(* suspended, is owed a frame that ends this, and every frame that is      *)
(* heard on the way there is answered with another one.                    *)

\* Frames are there at least once.
Counted == \A p \in Side : \A f \in DOMAIN net[p] : net[p][f] \in Nat /\ net[p][f] > 0

\* Only a salt is suspended, and a salt is not adopted beside hashes without it.
Settled(p) == (mem[p].susp => salt[p] # Plain) /\ (salt[p] # Plain => mem[p].plain = 0)

\* A side that would hash its first message with its salt.
Usable(p) == salt[p] # Plain /\ ~mem[p].susp /\ ~mem[p].spent /\ tree[p] = {}

\* The peer will hear of the salt, or this side that the peer does without one.
Warned(p) ==
    due[p] \/ PrintFrame(p) \in DOMAIN net[Peer(p)] \/ ClosedFrame \in DOMAIN net[p]

\* Or the two exchange their halves again, or this side hears of another salt.
Asked(p) ==
    \/ Warned(p)
    \/ \E f \in DOMAIN net[Peer(p)] : f.kind = "half"
    \/ \E f \in DOMAIN net[p] : f.kind = "half" \/ (f.kind = "print" /\ f.of # salt[p])

Agreed(p) ==
    Usable(p) => /\ salt[Peer(p)] # salt[p] => Asked(p)
                 /\ salt[Peer(p)] = salt[p] /\ mem[Peer(p)].susp => Warned(p)

Calm == ~spoilt /\ \A p \in Side : ~doomed[p]

Sharing ==
    /\ Inv /\ Counted
    /\ \A p \in Side : Settled(p)
    /\ ~spoilt => \A p \in Side : up[p]
    /\ Calm => \A p \in Side : Agreed(p)

-----------------------------------------------------------------------------
(* Bags of frames.                                                         *)

IsCounted(b) == \A f \in DOMAIN b : b[f] \in Nat /\ b[f] > 0

LEMMA OneCounted == ASSUME NEW S PROVE IsCounted(SetToBag(S)) /\ IsCounted(EmptyBag)
  BY DEF IsCounted, SetToBag, EmptyBag

LEMMA AddCounted == ASSUME NEW b, NEW c, IsCounted(b), IsCounted(c) PROVE IsCounted(b (+) c)
  BY DEF IsCounted, (+)

\* One frame is taken, once.
LEMMA TakeCounted ==
    ASSUME NEW b, NEW f, IsCounted(b)
    PROVE  IsCounted(b (-) SetToBag({f})) /\ DOMAIN b \ {f} \subseteq DOMAIN (b (-) SetToBag({f}))
  BY DEF IsCounted, (-), SetToBag

\* What Exchange does to the frames.
Swapped(p, f, answers) ==
    /\ DOMAIN net[p] \ {f} \subseteq DOMAIN net'[p]
    /\ DOMAIN net'[Peer(p)] = DOMAIN net[Peer(p)] \cup answers

LEMMA CountedBags == Counted <=> \A p \in Side : IsCounted(net[p])
  BY DEF Counted, IsCounted

LEMMA CountedBagsNext == Counted' <=> \A p \in Side : IsCounted(net'[p])
  BY DEF Counted, IsCounted

LEMMA ExchangeSwaps ==
    ASSUME Sharing, NEW p \in Side, NEW f, NEW answers, Exchange(p, f, answers)
    PROVE  Swapped(p, f, answers) /\ Counted'
  <1>1. net = [q \in Side |-> net[q]] /\ Peer(p) \in Side /\ Peer(p) # p
        /\ \A q \in Side : IsCounted(net[q])
    BY InvParts, Sides, CountedBags DEF Shaped, Sharing
  <1>2. /\ net'[p] = net[p] (-) SetToBag({f})
        /\ net'[Peer(p)] = net[Peer(p)] (+) SetToBag(answers)
    BY <1>1 DEF Exchange
  <1>3. IsCounted(net'[p]) /\ DOMAIN net[p] \ {f} \subseteq DOMAIN net'[p]
    BY <1>1, <1>2, TakeCounted
  <1>4. IsCounted(net'[Peer(p)])
    BY <1>1, <1>2, AddCounted, OneCounted
  <1>5. DOMAIN net'[Peer(p)] = DOMAIN net[Peer(p)] \cup answers
    <2>1. DOMAIN SetToBag(answers) = answers
      BY SetDom
    <2> QED BY <1>2, <2>1, AddDom
  <1>6. \A q \in Side : IsCounted(net'[q])
    BY <1>3, <1>4, Sides
  <1> QED BY <1>3, <1>5, <1>6, CountedBagsNext DEF Swapped

-----------------------------------------------------------------------------
(* The flags of a salt.                                                    *)

Flags(m, n) == n \in Mem /\ (n.susp <=> m.susp) /\ (n.spent <=> m.spent)

LEMMA MarkedFlags == ASSUME NEW m \in Mem PROVE Flags(m, Marked(m))
  BY DEF Mem, Marked, Flags

LEMMA StateFlags == ASSUME Shaped, NEW p \in Side PROVE Flags(mem[p], State(p))
  <1>1. mem[p] \in Mem /\ OwnHalf(p) \in Nat
    BY StateMem DEF Shaped
  <1> QED BY <1>1 DEF State, Flags, Mem

LEMMA SettledFlags == ASSUME NEW m \in Mem, NEW p \in Side PROVE Flags(m, SettledPlain(p, m))
  <1> DEFINE n == Cardinality(Waiting(p))
             u == [m EXCEPT !.pending = FALSE]
  <1>1. n \in Nat
    BY Bounded DEF Waiting
  <1>2. Flags(m, u)
    BY DEF Flags, Mem
  <1>3. SettledPlain(p, m) = CountPlain(u, n)
    BY DEF SettledPlain
  <1> HIDE DEF u, n
  <1>4. u.plain + n \in Nat /\ (u.told \/ n > 0) \in BOOLEAN
    BY <1>1, <1>2 DEF Mem, Flags
  <1>5. \A k \in Nat : \A b \in BOOLEAN : Flags(u, [u EXCEPT !.plain = k, !.told = b])
    BY <1>2 DEF Flags, Mem
  <1>6. Flags(u, CountPlain(u, n))
    BY <1>4, <1>5 DEF CountPlain
  <1> QED BY <1>2, <1>3, <1>6 DEF Flags

\* The memory after a handler.
LEMMA Recalled ==
    ASSUME Inv, NEW p \in Side, NEW n \in Mem, mem' = [mem EXCEPT ![p] = n]
    PROVE  mem'[p] = n /\ mem'[Peer(p)] = mem[Peer(p)]
  BY InvParts, Sides DEF Shaped

-----------------------------------------------------------------------------
(* The handlers.                                                           *)

\* What is left to show of an action of p once Inv is known to be kept.
Agrees(p) ==
    /\ Counted' /\ (mem'[p].susp => salt'[p] # Plain)
    /\ Calm' => \A q \in Side : Agreed(q)'

LEMMA SharingParts ==
    ASSUME Sharing
    PROVE  /\ Inv /\ Shaped /\ (\A p \in Side : mem[p] \in Mem /\ Settled(p))
           /\ (Calm => \A p \in Side : Agreed(p)) /\ spoilt \in BOOLEAN
           /\ \A p \in Side : doomed[p] \in BOOLEAN /\ due[p] \in BOOLEAN
  BY InvParts DEF Sharing, Shaped

LEMMA ClosedAgrees ==
    ASSUME Sharing, NEW p \in Side, NEW fails \in BOOLEAN, ClosedArrives(p, fails)
    PROVE  Agrees(p)
  <1> DEFINE q == Peer(p)
             closed == Closed(p) \/ fails
             u == Suspended(p, State(p), closed)
             n == SettledPlain(p, u)
             answers == IF closed THEN {} ELSE {ClosedFrame}
  <1>1. Shaped /\ mem[p] \in Mem /\ Settled(p) /\ spoilt \in BOOLEAN
    BY SharingParts
  <1>2. Flags(mem[p], State(p))
    BY <1>1, StateFlags
  <1>3. u \in Mem /\ (u.spent <=> mem[p].spent)
        /\ (u.susp <=> mem[p].susp \/ (salt[p] # Plain /\ ~mem[p].spent /\ ~closed))
    BY <1>2 DEF Suspended, Unspent, Flags, Mem
  <1>4. mem' = [mem EXCEPT ![p] = n] /\ Exchange(p, ClosedFrame, answers)
        /\ tree' = tree /\ due' = due /\ salt' = salt /\ doomed' = doomed /\ Trouble(fails)
    BY DEF ClosedArrives, nodeVars
  <1> HIDE DEF u, answers
  <1>5. Flags(u, n)
    BY <1>3, SettledFlags
  <1> HIDE DEF n
  <1>6. n \in Mem /\ (n.spent <=> mem[p].spent)
        /\ (n.susp <=> mem[p].susp \/ (salt[p] # Plain /\ ~mem[p].spent /\ ~closed))
    BY <1>3, <1>5 DEF Flags
  <1>7. /\ q \in Side /\ q # p /\ Peer(q) = p /\ \A r \in Side : r \in {p, q}
        /\ Swapped(p, ClosedFrame, answers) /\ Counted'
        /\ mem'[p] = n /\ mem'[q] = mem[q] /\ tree' = tree /\ due' = due
    BY <1>4, <1>6, Sides, ExchangeSwaps, Recalled DEF Sharing
  <1>8. mem'[p].susp => salt'[p] # Plain
    BY <1>1, <1>4, <1>6, <1>7 DEF Settled
  <1>9. ASSUME Calm' PROVE Agreed(p)' /\ Agreed(q)'
    <2>1. ~fails /\ Calm
      BY <1>1, <1>4, <1>9 DEF Calm, Trouble
    <2>2. Agreed(q)
      BY <2>1, <1>7, SharingParts
    <2>3. closed <=> Closed(p)
      BY <2>1
    <2>4. ~Usable(p)'
      BY <1>1, <1>4, <1>6, <1>7, <2>3 DEF Usable, Settled, Closed
    <2>5. ClosedFrame.kind = "closed"
      BY DEF ClosedFrame, Frame
    <2>6. Usable(q)' <=> Usable(q)
      BY <1>4, <1>7 DEF Usable
    <2>7. Warned(q) => Warned(q)'
      <3>1. PrintFrame(q)' = PrintFrame(q) /\ PrintFrame(q) # ClosedFrame
        BY <1>4, <2>5 DEF PrintFrame, Frame
      <3> QED BY <1>7, <3>1 DEF Warned, Swapped
    <2>8. Asked(q) => Asked(q)'
      BY <1>4, <1>7, <2>5, <2>7 DEF Asked, Swapped
    <2>9. mem'[p].susp => mem[p].susp \/ Warned(q)'
      <3>1. ~closed => ClosedFrame \in DOMAIN net'[q]
        BY <1>7 DEF Swapped, answers
      <3> QED BY <1>6, <1>7, <3>1 DEF Warned
    <2> QED BY <1>4, <1>7, <2>2, <2>4, <2>6, <2>7, <2>8, <2>9 DEF Agreed
  <1> QED BY <1>7, <1>8, <1>9 DEF Agrees

\* A side that has no salt afterwards, and answers that the peer can not count on one.
LEMMA WithoutAgrees ==
    ASSUME Sharing, NEW p \in Side, NEW f, NEW answers, NEW n \in Mem,
           Exchange(p, f, answers), mem' = [mem EXCEPT ![p] = n], tree' = tree, due' = due,
           salt' = salt, doomed' = doomed, salt[p] = Plain, ~n.susp,
           spoilt' = spoilt => \E g \in answers : g = ClosedFrame \/ g.kind = "half",
           spoilt' \in {spoilt, TRUE}
    PROVE  Agrees(p)
  <1> DEFINE q == Peer(p)
  <1>1. /\ q \in Side /\ q # p /\ Peer(q) = p /\ \A r \in Side : r \in {p, q}
        /\ Swapped(p, f, answers) /\ Counted'
        /\ mem'[p] = n /\ mem'[q] = mem[q] /\ tree' = tree /\ due' = due
    BY Sides, ExchangeSwaps, Recalled DEF Sharing
  <1>2. ASSUME Calm' PROVE Agreed(p)' /\ Agreed(q)'
    <2>1. spoilt' = spoilt
      BY <1>2, SharingParts DEF Calm
    <2>2. Asked(q)'
      BY <1>1, <2>1 DEF Asked, Warned, Swapped
    <2> QED BY <1>1, <2>2 DEF Agreed, Usable
  <1> QED BY <1>1, <1>2 DEF Agrees

LEMMA DeclineAgrees ==
    ASSUME Sharing, NEW p \in Side, NEW f, NEW fails \in BOOLEAN, Declines(p, f, fails)
    PROVE  Agrees(p)
  <1>1. Shaped /\ mem[p] \in Mem /\ Settled(p) /\ spoilt \in BOOLEAN
    BY SharingParts
  <1>2. Flags(mem[p], State(p)) /\ State(p) \in Mem
    BY <1>1, StateFlags DEF Flags
  <1>3. Flags(State(p), SettledPlain(p, State(p)))
    BY <1>2, SettledFlags
  <1>4. ~SettledPlain(p, State(p)).susp /\ SettledPlain(p, State(p)) \in Mem
    BY <1>1, <1>2, <1>3 DEF Flags, Settled, Declines
  <1>5. spoilt' \in {spoilt, TRUE}
    BY <1>1 DEF Declines, Trouble
  <1> QED BY <1>4, <1>5, WithoutAgrees DEF Declines, nodeVars

LEMMA UnstoredAgrees ==
    ASSUME Sharing, NEW p \in Side, NEW f, DerivesUnstored(p, f)
    PROVE  Agrees(p)
  <1>1. Shaped /\ mem[p] \in Mem /\ Settled(p) /\ spoilt \in BOOLEAN
    BY SharingParts
  <1>2. Flags(mem[p], State(p)) /\ State(p) \in Mem
    BY <1>1, StateFlags DEF Flags
  <1>3. Flags(State(p), SettledPlain(p, State(p)))
    BY <1>2, SettledFlags
  <1>4. ~SettledPlain(p, State(p)).susp /\ SettledPlain(p, State(p)) \in Mem
    BY <1>1, <1>2, <1>3 DEF Flags, Settled, DerivesUnstored
  <1>5. spoilt'
    BY DEF DerivesUnstored, Trouble
  <1>6. Counted' /\ mem'[p] = SettledPlain(p, State(p))
    BY <1>4, ExchangeSwaps, Recalled DEF DerivesUnstored, Sharing
  <1> QED BY <1>4, <1>5, <1>6 DEF Agrees, Calm

LEMMA AskAgrees ==
    ASSUME Sharing, NEW p \in Side, NEW f \in DOMAIN net[p], Asks(p, f)
    PROVE  Agrees(p)
  <1>1. Shaped /\ mem[p] \in Mem /\ Settled(p) /\ spoilt \in BOOLEAN /\ salt[p] = Plain
    BY SharingParts DEF Asks
  <1>2. Flags(mem[p], State(p)) /\ State(p) \in Mem /\ ~State(p).susp
    BY <1>1, StateFlags DEF Flags, Settled
  <1>3. CASE mem[p].ansPrint = f.of
    <2> DEFINE n == SettledPlain(p, State(p))
    <2>1. Flags(State(p), n) /\ n \in Mem
      BY <1>2, SettledFlags DEF Flags
    <2>2. ~n.susp
      BY <1>2, <2>1 DEF Flags
    <2>3. mem' = [mem EXCEPT ![p] = n] /\ Exchange(p, f, {ClosedFrame})
          /\ tree' = tree /\ due' = due /\ salt' = salt /\ doomed' = doomed /\ spoilt'
      BY <1>3 DEF Asks, nodeVars
    <2> HIDE DEF n
    <2>4. Counted' /\ mem'[p] = n
      BY <2>1, <2>3, ExchangeSwaps, Recalled DEF Sharing
    <2> QED BY <2>2, <2>3, <2>4 DEF Agrees, Calm
  <1>4. CASE mem[p].ansPrint # f.of
    <2> DEFINE n == [Marked(State(p)) EXCEPT !.ansPrint = f.of]
    <2>1. mem' = [mem EXCEPT ![p] = n] /\ Exchange(p, f, {HalfFrame(p)})
          /\ tree' = tree /\ due' = due /\ salt' = salt /\ doomed' = doomed /\ spoilt' = spoilt
      BY <1>1, <1>4 DEF Asks, nodeVars
    <2>2. f.of \in SUBSET Half
      <3>1. f.kind = "print" /\ ClosedFrame.kind = "closed" /\ Framed
        BY InvParts DEF Asks, ClosedFrame, Frame, Sharing
      <3>2. f.of \in Salt
        BY <3>1 DEF Framed
      <3> QED BY <3>2 DEF Salt
    <2>3. Flags(State(p), Marked(State(p)))
      BY <1>2, MarkedFlags
    <2>4. n \in Mem /\ ~n.susp
      BY <1>2, <2>2, <2>3 DEF Flags, Mem
    <2>5. HalfFrame(p).kind = "half"
      BY DEF HalfFrame, Frame
    <2> HIDE DEF n
    <2> QED BY <1>1, <2>1, <2>4, <2>5, WithoutAgrees
  <1> QED BY <1>3, <1>4

LEMMA DeriveAgrees ==
    ASSUME Sharing, NEW p \in Side, NEW f \in DOMAIN net[p], Derives(p, f)
    PROVE  Agrees(p)
  <1> DEFINE q == Peer(p)
             s == {<<p, OwnHalf(p)>>} \cup f.of
             b == mem[p].spent \/ Waiting(p) # {}
             n == [Marked(State(p)) EXCEPT !.spent = b]
  <1>1. /\ Shaped /\ mem[p] \in Mem /\ Settled(p) /\ spoilt \in BOOLEAN /\ salt[p] = Plain
        /\ salt \in [Side -> Salt \cup {Plain}]
    BY SharingParts DEF Derives, Shaped
  <1>2. Flags(mem[p], State(p)) /\ State(p) \in Mem /\ ~State(p).susp /\ (State(p).spent <=> mem[p].spent)
    BY <1>1, StateFlags DEF Flags, Settled
  <1>3. Flags(State(p), Marked(State(p)))
    BY <1>2, MarkedFlags
  <1>4. Marked(State(p)).spent = State(p).spent
    BY <1>2 DEF Marked, Mem
  <1>5. /\ mem' = [mem EXCEPT ![p] = [Marked(State(p)) EXCEPT !.spent = @ \/ Waiting(p) # {}]]
        /\ Exchange(p, f, {Frame("print", s)})
        /\ salt' = [salt EXCEPT ![p] = s] /\ UNCHANGED <<tree, due, doomed, spoilt>>
    BY <1>1 DEF Derives, nodeVars, Trouble
  <1>6. [Marked(State(p)) EXCEPT !.spent = @ \/ Waiting(p) # {}] \in Mem
        /\ ~[Marked(State(p)) EXCEPT !.spent = @ \/ Waiting(p) # {}].susp
    BY <1>2, <1>3 DEF Flags, Mem
  <1>7. /\ q \in Side /\ q # p /\ Peer(q) = p /\ \A r \in Side : r \in {p, q}
        /\ Swapped(p, f, {Frame("print", s)}) /\ Counted'
        /\ ~mem'[p].susp /\ mem'[q] = mem[q] /\ tree' = tree /\ due' = due
        /\ salt'[p] = s /\ salt'[q] = salt[q]
    BY <1>1, <1>5, <1>6, Sides, ExchangeSwaps, Recalled DEF Sharing
  <1>8. Agreed(p)'
    <2>1. PrintFrame(p)' = Frame("print", s)
      BY <1>7 DEF PrintFrame
    <2>2. Warned(p)'
      BY <1>7, <2>1 DEF Warned, Swapped
    <2> QED BY <2>2 DEF Agreed, Asked
  <1>9. Agreed(q)'
    <2>1. Frame("print", s).kind = "print" /\ Frame("print", s).of = s
      BY DEF Frame
    <2> HIDE DEF s
    <2>2. s # salt[q] => Asked(q)'
      BY <1>7, <2>1 DEF Asked, Swapped
    <2> QED BY <1>7, <2>2 DEF Agreed
  <1> QED BY <1>7, <1>8, <1>9 DEF Agrees

LEMMA RepairAgrees ==
    ASSUME Sharing, NEW p \in Side, NEW f \in DOMAIN net[p], Repairs(p, f)
    PROVE  Agrees(p)
  <1> DEFINE q == Peer(p)
             g == Repair(p, f)
             n == [Marked(mem[p]) EXCEPT !.ansHalf = f.of]
  <1>1. Shaped /\ mem[p] \in Mem /\ Settled(p) /\ salt[p] # Plain
    BY SharingParts DEF Repairs
  <1>2. mem' = [mem EXCEPT ![p] = n] /\ Exchange(p, f, {g})
        /\ salt' = salt /\ tree' = tree /\ due' = due /\ doomed' = doomed /\ spoilt' = spoilt
        /\ f.kind = "half"
    BY DEF Repairs, nodeVars
  <1>3. f.of \in SUBSET Half
    <2>1. Framed /\ ClosedFrame.kind = "closed" /\ Shaped /\ Sized
          /\ events \in 0..MaxEvents /\ MaxEvents \in Nat
      BY InvParts, Sides DEF ClosedFrame, Frame, Sharing, Shaped
    <2>2. HalfOf(q, f.of) /\ q \in Side
      BY <1>2, <2>1, Sides DEF Framed
    <2>3. PICK k \in 1..minted[q] : f.of = {<<q, k>>}
      BY <2>2 DEF HalfOf
    <2>4. minted[q] \in Nat /\ minted[q] <= events + 1
      BY <2>1, <2>2 DEF Shaped, Sized
    <2>5. k \in 1..(MaxEvents + 1)
      BY <2>1, <2>4
    <2> QED BY <2>2, <2>3, <2>5 DEF Half
  <1>4. n \in Mem /\ (n.susp <=> mem[p].susp) /\ (n.spent <=> mem[p].spent)
    BY <1>1, <1>3 DEF Marked, Mem
  <1> HIDE DEF n
  <1>5. /\ q \in Side /\ q # p /\ Peer(q) = p /\ \A r \in Side : r \in {p, q}
        /\ Swapped(p, f, {g}) /\ Counted'
        /\ mem'[p] = n /\ mem'[q] = mem[q] /\ tree' = tree /\ due' = due
    BY <1>2, <1>4, Sides, ExchangeSwaps, Recalled DEF Sharing
  <1>6. g.kind = "half" \/ (g = PrintFrame(p) /\ g.kind = "print" /\ g.of = salt[p])
    BY DEF Repair, HalfFrame, PrintFrame, Frame
  <1>7. \A r \in Side : /\ PrintFrame(r)' = PrintFrame(r) /\ PrintFrame(r).kind = "print"
                        /\ Usable(r)' <=> Usable(r)
    BY <1>2, <1>4, <1>5 DEF PrintFrame, Usable, Frame
  <1>8. ASSUME NEW r \in Side PROVE Warned(r) => Warned(r)'
    <2>1. ClosedFrame.kind = "closed"
      BY DEF ClosedFrame, Frame
    <2> QED BY <1>2, <1>5, <1>7, <2>1 DEF Warned, Swapped
  <1>9. Agreed(p) => Agreed(p)'
    <2>1. Asked(p)'
      BY <1>5, <1>6, <1>7 DEF Asked, Warned, Swapped
    <2> QED BY <1>2, <1>5, <1>7, <1>8, <2>1 DEF Agreed
  <1>10. Agreed(q) => Agreed(q)'
    <2>1. salt[p] # salt[q] => Asked(q)'
      BY <1>2, <1>5, <1>6 DEF Asked, Swapped
    <2> QED BY <1>2, <1>4, <1>5, <1>7, <1>8, <2>1 DEF Agreed
  <1>11. Calm' => Calm
    BY <1>2 DEF Calm
  <1> QED BY <1>1, <1>2, <1>4, <1>5, <1>9, <1>10, <1>11, SharingParts DEF Agrees, Settled

LEMMA ConfirmAgrees ==
    ASSUME Sharing, NEW p \in Side, NEW f \in DOMAIN net[p], Confirms(p, f)
    PROVE  Agrees(p)
  <1> DEFINE q == Peer(p)
             n == [mem[p] EXCEPT !.susp = FALSE, !.pending = FALSE]
  <1>1. Shaped /\ mem[p] \in Mem /\ spoilt \in BOOLEAN /\ salt[p] # Plain /\ f = PrintFrame(p)
        /\ salt \in [Side -> Salt \cup {Plain}]
    BY SharingParts DEF Confirms, Shaped
  <1>2. mem' = [mem EXCEPT ![p] = n] /\ Exchange(p, f, {})
        /\ tree' = tree /\ due' = due /\ doomed' = doomed /\ spoilt' = (spoilt \/ mem[p].susp)
    BY DEF Confirms, nodeVars
  <1>3. n \in Mem /\ ~n.susp /\ (n.spent <=> mem[p].spent)
    BY <1>1 DEF Mem
  <1>4. /\ q \in Side /\ q # p /\ Peer(q) = p /\ \A r \in Side : r \in {p, q}
        /\ Swapped(p, f, {}) /\ Counted'
        /\ mem'[p] = n /\ mem'[q] = mem[q] /\ tree' = tree /\ due' = due
    BY <1>2, <1>3, Sides, ExchangeSwaps, Recalled DEF Sharing
  <1> HIDE DEF n
  <1>5. ASSUME Calm' PROVE \A r \in Side : Agreed(r)'
    <2>1. ~mem[p].susp /\ Calm
      BY <1>2, <1>5 DEF Calm
    <2>2. salt' = salt
      BY <1>1, <2>1 DEF Confirms
    <2>3. \A r \in Side : /\ PrintFrame(r)' = PrintFrame(r) /\ PrintFrame(r).kind = "print"
                          /\ PrintFrame(r).of = salt[r] /\ (Usable(r)' <=> Usable(r))
      BY <1>3, <1>4, <2>1, <2>2 DEF PrintFrame, Usable, Frame
    <2>4. ClosedFrame.kind = "closed"
      BY DEF ClosedFrame, Frame
    <2>5. /\ Warned(p) => Warned(p)'
          /\ Asked(p) => Asked(p)'
      BY <1>1, <1>4, <2>2, <2>3, <2>4 DEF Warned, Asked, Swapped
    <2>6. salt[q] # salt[p] /\ Asked(q) => Asked(q)'
      <3>1. salt[q] # salt[p] /\ PrintFrame(q) \in DOMAIN net[p] => PrintFrame(q) \in DOMAIN net'[p]
        BY <1>1, <1>4, <2>3 DEF Swapped
      <3>2. \A g \in DOMAIN net[p] : g.kind = "half" => g \in DOMAIN net'[p]
        BY <1>1, <1>4, <2>3 DEF Swapped
      <3>3. DOMAIN net'[q] = DOMAIN net[q]
        BY <1>4 DEF Swapped
      <3> QED BY <1>4, <2>2, <2>3, <3>1, <3>2, <3>3 DEF Warned, Asked
    <2>7. Agreed(p) /\ Agreed(q)
      BY <1>4, <2>1, SharingParts
    <2>8. Agreed(p)'
      BY <1>4, <2>2, <2>3, <2>5, <2>7 DEF Agreed
    <2>9. Agreed(q)'
      BY <1>3, <1>4, <2>2, <2>3, <2>6, <2>7 DEF Agreed
    <2> QED BY <1>4, <2>8, <2>9
  <1> QED BY <1>3, <1>4, <1>5 DEF Agrees

\* A session that is to be frozen is out of the game.
LEMMA DoomAgrees ==
    ASSUME Sharing, NEW p \in Side, NEW f \in DOMAIN net[p], Diverges(p, f) \/ Mismatches(p, f)
    PROVE  Agrees(p)
  <1>1. Shaped /\ mem[p] \in Mem /\ Settled(p) /\ doomed \in [Side -> BOOLEAN] /\ mem \in [Side -> Mem]
    BY SharingParts DEF Shaped
  <1>2. doomed'[p] /\ salt' = salt
    BY <1>1 DEF Diverges, Mismatches
  <1>3. ~Calm'
    BY <1>2 DEF Calm
  <1>4. mem'[p].susp <=> mem[p].susp
    <2>1. Flags(mem[p], Marked(mem[p]))
      BY <1>1, MarkedFlags
    <2> QED BY <1>1, <2>1 DEF Flags, Diverges, Mismatches
  <1>5. Counted'
    BY ExchangeSwaps DEF Diverges, Mismatches
  <1> QED BY <1>1, <1>2, <1>3, <1>4, <1>5 DEF Agrees, Settled

LEMMA ReceiveAgrees == ASSUME Sharing, NEW p \in Side, Receive(p) PROVE Agrees(p)
  BY ClosedAgrees, DeclineAgrees, DeriveAgrees, UnstoredAgrees, AskAgrees, RepairAgrees,
     ConfirmAgrees, DoomAgrees DEF Receive

LEMMA AnnounceAgrees == ASSUME Sharing, NEW p \in Side, Announce(p) PROVE Agrees(p)
  <1> DEFINE q == Peer(p)
             g == IF salt[p] = Plain THEN HalfFrame(p) ELSE PrintFrame(p)
             n == Marked(State(p))
  <1>1. /\ Inv /\ Shaped /\ mem[p] \in Mem /\ Settled(p) /\ net = [r \in Side |-> net[r]]
        /\ due \in [Side -> BOOLEAN] /\ \A r \in Side : IsCounted(net[r])
    BY SharingParts, CountedBags DEF Shaped, Sharing
  <1>2. mem' = [mem EXCEPT ![p] = n] /\ due' = [due EXCEPT ![p] = FALSE]
        /\ net' = [net EXCEPT ![q] = @ (+) SetToBag({g})]
        /\ salt' = salt /\ tree' = tree /\ doomed' = doomed /\ spoilt' = spoilt
    BY DEF Announce, nodeVars
  <1>3. Flags(mem[p], State(p)) /\ State(p) \in Mem
    BY <1>1, StateFlags DEF Flags
  <1>4. Flags(State(p), n)
    BY <1>3, MarkedFlags
  <1>5. n \in Mem /\ (n.susp <=> mem[p].susp) /\ (n.spent <=> mem[p].spent)
    BY <1>3, <1>4 DEF Flags
  <1> HIDE DEF n
  <1>6. /\ q \in Side /\ q # p /\ Peer(q) = p /\ \A r \in Side : r \in {p, q}
        /\ mem'[p] = n /\ mem'[q] = mem[q]
    BY <1>1, <1>2, <1>5, Sides, Recalled
  <1>7. DOMAIN SetToBag({g}) = {g} /\ IsCounted(SetToBag({g}))
    BY SetDom, OneCounted
  <1> HIDE DEF g
  <1>8. net'[p] = net[p] /\ net'[q] = net[q] (+) SetToBag({g}) /\ due'[q] = due[q]
    BY <1>1, <1>2, <1>6
  <1>9. DOMAIN net'[q] = DOMAIN net[q] \cup {g} /\ IsCounted(net'[q])
    <2>1. DOMAIN net'[q] = DOMAIN net[q] \cup {g}
      BY <1>7, <1>8, AddDom
    <2>2. IsCounted(net'[q])
      BY <1>1, <1>6, <1>7, <1>8, AddCounted
    <2> QED BY <2>1, <2>2
  <1>10. Counted'
    BY <1>1, <1>6, <1>8, <1>9, CountedBagsNext
  <1>11. \A r \in Side : /\ PrintFrame(r)' = PrintFrame(r)
                         /\ Usable(r)' <=> Usable(r)
    BY <1>2, <1>5, <1>6 DEF PrintFrame, Usable
  <1>12. Agreed(p)'
    <2>1. Usable(p) => Warned(p)'
      BY <1>9, <1>11 DEF Usable, Warned, g
    <2> QED BY <1>11, <2>1 DEF Agreed, Asked
  <1>13. Agreed(q) => Agreed(q)'
    <2>1. (Warned(q) => Warned(q)') /\ (Asked(q) => Asked(q)')
      BY <1>2, <1>6, <1>8, <1>9, <1>11 DEF Warned, Asked
    <2> QED BY <1>2, <1>5, <1>6, <1>11, <2>1 DEF Agreed
  <1>14. Calm' => Calm
    BY <1>2 DEF Calm
  <1> QED BY <1>1, <1>2, <1>5, <1>6, <1>10, <1>12, <1>13, <1>14, SharingParts DEF Agrees, Settled

LEMMA SendFailsAgrees ==
    ASSUME Sharing, NEW p \in Side, NEW f \in DOMAIN net[Peer(p)], SendFails(p, f)
    PROVE  Agrees(p)
  <1>1. /\ Inv /\ Shaped /\ mem[p] \in Mem /\ Settled(p) /\ net = [r \in Side |-> net[r]]
        /\ \A r \in Side : IsCounted(net[r])
    BY SharingParts, CountedBags DEF Shaped, Sharing
  <1>2. spoilt' /\ salt' = salt /\ mem' = [mem EXCEPT ![p] = SettledPlain(p, mem[p])]
        /\ net' = [net EXCEPT ![Peer(p)] = @ (-) SetToBag({f})]
    BY DEF SendFails, Trouble
  <1>3. Flags(mem[p], SettledPlain(p, mem[p]))
    BY <1>1, SettledFlags
  <1>4. mem'[p].susp <=> mem[p].susp
    BY <1>1, <1>2, <1>3, Recalled DEF Flags
  <1>5. net'[Peer(p)] = net[Peer(p)] (-) SetToBag({f}) /\ Peer(p) \in Side
        /\ \A r \in Side : r # Peer(p) => net'[r] = net[r]
    BY <1>1, <1>2, Sides
  <1>6. IsCounted(net'[Peer(p)])
    BY <1>1, <1>5, TakeCounted
  <1>7. Counted'
    BY <1>1, <1>5, <1>6, CountedBagsNext
  <1> QED BY <1>1, <1>2, <1>4, <1>7 DEF Agrees, Settled, Calm

\* No frame is sent or heard, and a side keeps its salt or drops a suspended one.
LEMMA StillAgrees ==
    ASSUME Sharing, net' = net, due' = due, doomed' = doomed, (spoilt => spoilt'),
           \A q \in Side : /\ tree[q] # {} => tree'[q] # {}
                           /\ mem[q].spent => mem'[q].spent
                           /\ \/ salt'[q] = salt[q] /\ (mem'[q].susp <=> mem[q].susp)
                              \/ mem[q].susp /\ salt'[q] = Plain /\ ~mem'[q].susp
                              \/ salt'[q] = Plain /\ salt[q] = Plain /\ ~mem'[q].susp
    PROVE  /\ Counted' /\ \A q \in Side : mem'[q].susp => salt'[q] # Plain
           /\ Calm' => \A q \in Side : Agreed(q)'
  <1>1. Counted' /\ \A q \in Side : mem'[q].susp => salt'[q] # Plain
    BY SharingParts DEF Counted, Sharing, Settled
  <1>2. ASSUME Calm', NEW p \in Side PROVE Agreed(p)'
    <2> DEFINE q == Peer(p)
    <2>1. Calm /\ Agreed(p) /\ q \in Side
      BY <1>2, SharingParts, Sides DEF Calm
    <2>2. Usable(p)' => Usable(p) /\ salt'[p] = salt[p]
      BY DEF Usable
    <2>3. salt'[p] = salt[p] => (Warned(p) => Warned(p)') /\ (Asked(p) => Asked(p)')
      BY DEF Warned, Asked, PrintFrame
    <2>4. \/ salt'[q] = salt[q] /\ (mem'[q].susp <=> mem[q].susp)
          \/ ((mem[q].susp \/ salt[q] = Plain) /\ salt'[q] = Plain /\ ~mem'[q].susp)
      BY <2>1
    <2>5. Warned(p) => Asked(p)
      BY DEF Asked
    <2> QED BY <2>1, <2>2, <2>3, <2>4, <2>5 DEF Agreed, Usable
  <1> QED BY <1>1, <1>2

LEMMA TimeoutAgrees == ASSUME Sharing, NEW p \in Side, Timeout(p) PROVE Agrees(p)
  <1>1. Inv /\ Shaped /\ mem[p] \in Mem
    BY SharingParts
  <1>2. Flags(mem[p], SettledPlain(p, mem[p]))
    BY <1>1, SettledFlags
  <1>3. \A q \in Side : (mem'[q].susp <=> mem[q].susp) /\ (mem'[q].spent <=> mem[q].spent)
    BY <1>1, <1>2, Recalled, Sides DEF Timeout, Flags
  <1>4. /\ net' = net /\ due' = due /\ doomed' = doomed /\ spoilt' = spoilt /\ salt' = salt
        /\ tree' = tree
    BY DEF Timeout, nodeVars
  <1> QED BY <1>3, <1>4, StillAgrees DEF Agrees

LEMMA SendAgrees ==
    ASSUME Sharing, NEW i \in Msg, NEW arms \in BOOLEAN, NEW fails \in BOOLEAN, Send(i, arms, fails)
    PROVE  Agrees(Sender(i))
  <1> DEFINE p == Sender(i)
             m == IF arms THEN Marked(mem[p]) ELSE mem[p]
             erased == m.susp /\ Unspent(m, Closed(p) \/ fails)
  <1>1. /\ Inv /\ Shaped /\ p \in Side /\ mem[p] \in Mem /\ spoilt \in BOOLEAN
        /\ salt \in [Side -> Salt \cup {Plain}] /\ mem \in [Side -> Mem] /\ Settled(p)
    BY SharingParts, Sides DEF Shaped
  <1>2. Flags(mem[p], m)
    <2>1. Flags(mem[p], Marked(mem[p])) /\ Flags(mem[p], mem[p])
      BY <1>1, MarkedFlags DEF Flags
    <2> QED BY <2>1
  <1>3. m \in Mem /\ (m.susp <=> mem[p].susp) /\ (m.spent <=> mem[p].spent)
    BY <1>2 DEF Flags
  <1>4. /\ net' = net /\ due' = due /\ doomed' = doomed /\ (spoilt => spoilt') /\ tree' = tree
    BY <1>1 DEF Send, Trouble, nodeVars
  <1>5. \/ mem' = [mem EXCEPT ![p] = [m EXCEPT !.spent = TRUE]] /\ salt' = salt
        \/ /\ erased /\ mem' = [mem EXCEPT ![p] = CountPlain([m EXCEPT !.susp = FALSE], 1)]
           /\ salt' = [salt EXCEPT ![p] = Plain]
        \/ mem' = [mem EXCEPT ![p] = CountPlain(m, 1)] /\ salt' = salt
        \/ mem' = [mem EXCEPT ![p] = m] /\ salt' = salt
    BY DEF Send
  <1> HIDE DEF m
  <1>6. /\ [m EXCEPT !.spent = TRUE] \in Mem /\ ([m EXCEPT !.spent = TRUE].susp <=> m.susp)
        /\ [m EXCEPT !.spent = TRUE].spent
        /\ [m EXCEPT !.susp = FALSE] \in Mem /\ ~[m EXCEPT !.susp = FALSE].susp
        /\ ([m EXCEPT !.susp = FALSE].spent <=> m.spent)
    BY <1>3 DEF Mem
  <1>7. ASSUME NEW n \in Mem PROVE Flags(n, CountPlain(n, 1))
    <2>1. n.plain + 1 \in Nat /\ (n.told \/ 1 > 0) \in BOOLEAN
      BY DEF Mem
    <2>2. \A k \in Nat : \A b \in BOOLEAN : Flags(n, [n EXCEPT !.plain = k, !.told = b])
      BY DEF Flags, Mem
    <2> QED BY <2>1, <2>2 DEF CountPlain
  <1>8. /\ Flags(m, CountPlain(m, 1))
        /\ Flags([m EXCEPT !.susp = FALSE], CountPlain([m EXCEPT !.susp = FALSE], 1))
    BY <1>3, <1>6, <1>7
  <1>9. /\ mem[p].spent => mem'[p].spent
        /\ \/ salt'[p] = salt[p] /\ (mem'[p].susp <=> mem[p].susp)
           \/ mem[p].susp /\ salt'[p] = Plain /\ ~mem'[p].susp
    BY <1>1, <1>3, <1>5, <1>6, <1>8 DEF Flags
  <1>10. \A q \in Side : q # p => mem'[q] = mem[q] /\ salt'[q] = salt[q]
    BY <1>1, <1>5
  <1> QED BY <1>1, <1>4, <1>9, <1>10, StillAgrees DEF Agrees

LEMMA MoveAgrees ==
    ASSUME Sharing, NEW i \in Msg, Abandon(i) \/ Place(i) \/ Deliver(i)
    PROVE  Agrees(Sender(i))
  <1>1. Inv /\ Shaped /\ Sender(i) \in Side /\ mem \in [Side -> Mem] /\ Peer(Sender(i)) \in Side
        /\ tree \in [Side -> SUBSET (Salt \cup {Plain})]
    BY SharingParts, Sides DEF Shaped
  <1>2. \A q \in Side : (mem'[q].susp <=> mem[q].susp) /\ (mem'[q].spent <=> mem[q].spent)
    BY <1>1 DEF Abandon, Place, Deliver, Mem
  <1>3. \A q \in Side : tree[q] # {} => tree'[q] # {}
    BY <1>1 DEF Abandon, Place, Deliver
  <1>4. net' = net /\ due' = due /\ doomed' = doomed /\ spoilt' = spoilt /\ salt' = salt
    BY DEF Abandon, Place, Deliver, nodeVars
  <1> QED BY <1>1, <1>2, <1>3, <1>4, StillAgrees DEF Agrees

LEMMA ConnectAgrees ==
    ASSUME Sharing, Connect
    PROVE  /\ Counted' /\ \A q \in Side : mem'[q].susp => salt'[q] # Plain
           /\ Calm' => \A q \in Side : Agreed(q)'
  <1>1. Counted'
    BY OneCounted, CountedBagsNext DEF Connect
  <1>2. \A q \in Side : due'[q]
    BY DEF Connect
  <1>3. \A q \in Side : Agreed(q)'
    BY <1>2 DEF Agreed, Asked, Warned
  <1>4. mem' = mem /\ salt' = salt
    BY DEF Connect
  <1> QED BY <1>1, <1>3, <1>4, SharingParts DEF Settled

-----------------------------------------------------------------------------
(* A salt beside which nothing was hashed without it.                      *)

\* What is not a step of p leaves the other side as it was.
LEMMA OtherSettled ==
    ASSUME Sharing, NEW p \in Side, Settled(p)',
           \A q \in Side : q # p => mem'[q] = mem[q] /\ salt'[q] = salt[q]
    PROVE  \A q \in Side : Settled(q)'
  BY SharingParts DEF Settled

LEMMA HandlesSettled ==
    ASSUME Sharing, NEW p \in Side, Handles(p), mem'[p].susp => salt'[p] # Plain
    PROVE  \A q \in Side : Settled(q)'
  <1>1. /\ Shaped /\ Settled(p) /\ Ruled(p) /\ mem[p].plain \in Nat
        /\ salt \in [Side -> Salt \cup {Plain}]
    BY SharingParts, InvParts DEF Shaped, Mem
  <1>2. \A q \in Side : q # p => mem'[q] = mem[q] /\ salt'[q] = salt[q]
    BY <1>1 DEF Handles, Remembers, Settling, Standing, Deriving, Erasing
  <1>3. ASSUME salt'[p] # Plain PROVE mem'[p].plain = 0
    <2>1. CASE Settling(p)
      <3>1. Waiting(p) = {}
        BY <1>1, <1>3, <2>1 DEF Settling, Ruled, Waiting
      <3>2. Cardinality(Waiting(p)) = 0
        BY <3>1, FS_EmptySet
      <3> QED BY <1>1, <1>3, <2>1, <3>2 DEF Settling, Settled
    <2>2. CASE Standing(p)
      BY <1>1, <1>3, <2>2 DEF Standing, Counting, Settled
    <2>3. CASE Deriving(p)
      BY <1>1, <2>3 DEF Deriving, Counting, Closed
    <2>4. CASE Erasing(p)
      BY <1>1, <1>3, <2>4 DEF Erasing
    <2> QED BY <2>1, <2>2, <2>3, <2>4 DEF Handles
  <1> QED BY <1>2, <1>3, OtherSettled DEF Settled

LEMMA SendsSettled ==
    ASSUME Sharing, NEW i \in Msg, Sends(i), mem'[Sender(i)].susp => salt'[Sender(i)] # Plain
    PROVE  \A q \in Side : Settled(q)'
  <1> DEFINE p == Sender(i)
  <1>1. Shaped /\ p \in Side /\ Settled(p) /\ salt \in [Side -> Salt \cup {Plain}]
    BY SharingParts, Sides DEF Shaped
  <1>2. \A q \in Side : q # p => mem'[q] = mem[q] /\ salt'[q] = salt[q]
    BY <1>1 DEF Sends, Salts, Erases, Omits, Waits
  <1>3. salt'[p] # Plain => mem'[p].plain = 0
    BY <1>1 DEF Sends, Salts, Erases, Omits, Waits, Settled
  <1> QED BY <1>1, <1>2, <1>3, OtherSettled DEF Settled

LEMMA MoveSettled ==
    ASSUME Sharing, NEW i \in Msg, Abandon(i) \/ Place(i) \/ Deliver(i)
    PROVE  \A q \in Side : Settled(q)'
  <1>1. /\ Shaped /\ Sender(i) \in Side /\ mem \in [Side -> Mem]
        /\ \A q \in Side : Settled(q) /\ mem[q].plain \in Nat
    BY SharingParts, Sides DEF Shaped, Mem
  <1>2. salt' = salt
    BY DEF Abandon, Place, Deliver
  <1>3. CASE Abandon(i)
    <2> DEFINE k == IF msg[i].rule = Plain /\ mem[Sender(i)].plain > 0
                      THEN mem[Sender(i)].plain - 1 ELSE mem[Sender(i)].plain
    <2>1. mem' = [mem EXCEPT ![Sender(i)].plain = k]
      BY <1>3 DEF Abandon
    <2>2. mem[Sender(i)].plain = 0 => k = 0
      BY <1>1
    <2> HIDE DEF k
    <2>3. \A q \in Side : /\ mem'[q].susp <=> mem[q].susp
                          /\ mem[q].plain = 0 => mem'[q].plain = 0
      BY <1>1, <2>1, <2>2 DEF Mem
    <2> QED BY <1>1, <1>2, <2>3 DEF Settled
  <1>4. CASE Place(i) \/ Deliver(i)
    BY <1>1, <1>2, <1>4 DEF Place, Deliver, Settled
  <1> QED BY <1>3, <1>4

-----------------------------------------------------------------------------
(* Nodes, and the theorem.                                                 *)

\* Once the session is spoilt there is less to show.
LEMMA SpoiltSharing ==
    ASSUME Sharing, Inv', spoilt',
           (\E p \in Side : NodeStops(p)) \/ net' = net,
           \A q \in Side : /\ salt'[q] = salt[q]
                           /\ mem'[q] = mem[q] \/ (~mem'[q].susp /\ mem'[q].plain = 0)
    PROVE  Sharing'
  <1>1. Counted'
    <2>1. CASE \E p \in Side : NodeStops(p)
      BY <2>1, OneCounted, CountedBagsNext DEF NodeStops
    <2>2. CASE net' = net
      BY <2>2 DEF Counted, Sharing
    <2> QED BY <2>1, <2>2
  <1>2. \A q \in Side : Settled(q)'
    BY SharingParts DEF Settled
  <1> QED BY <1>1, <1>2 DEF Sharing, Calm

LEMMA NodesShare ==
    ASSUME Sharing, Inv', NEW p \in Side,
           Freeze(p) \/ TearDown(p) \/ Interrupt(p) \/ Restart(p) \/ Revive(p)
    PROVE  Sharing'
  <1>1. Shaped /\ mem \in [Side -> Mem] /\ up \in [Side -> BOOLEAN]
    BY SharingParts DEF Shaped
  <1>2. ASSUME NEW b \in BOOLEAN
        PROVE  LET n == [NoMem EXCEPT !.told = b] IN ~n.susp /\ n.plain = 0
    BY DEF NoMem
  <1>3. \A q \in Side : mem'[q] = mem[q] \/ (~mem'[q].susp /\ mem'[q].plain = 0)
    <2>1. ~NoMem.susp /\ NoMem.plain = 0
      BY DEF NoMem
    <2>2. CASE Evicts(p)
      <3> DEFINE b == Waiting(p) # {}
      <3>1. mem' = [mem EXCEPT ![p] = [NoMem EXCEPT !.told = b]] /\ b \in BOOLEAN
        BY <2>2 DEF Evicts
      <3> HIDE DEF b
      <3> QED BY <1>1, <1>2, <3>1
    <2>3. CASE mem' = mem \/ mem' = [mem EXCEPT ![p] = NoMem]
      BY <1>1, <2>1, <2>3
    <2>4. Evicts(p) \/ mem' = mem \/ mem' = [mem EXCEPT ![p] = NoMem]
      BY DEF Freeze, TearDown, Interrupt, Restart, Revive
    <2> QED BY <2>2, <2>3, <2>4
  <1>4. NodeStops(p) \/ (net' = net /\ spoilt' = spoilt /\ ~up[p])
    BY DEF Freeze, TearDown, Interrupt, Restart, Revive
  <1>5. spoilt'
    BY <1>4 DEF NodeStops, Sharing
  <1>6. salt' = salt
    BY DEF Freeze, TearDown, Interrupt, Restart, Revive
  <1> QED BY <1>3, <1>4, <1>5, <1>6, SpoiltSharing

LEMMA SharingInit == ASSUME Init PROVE Sharing
  <1>1. Inv
    BY InitInv
  <1>2. net = [p \in Side |-> EmptyBag] /\ ~spoilt
        /\ \A p \in Side : salt[p] = Plain /\ mem[p] = NoMem /\ up[p]
    BY DEF Init
  <1>3. Counted
    BY <1>2, OneCounted, CountedBags
  <1>4. \A p \in Side : Settled(p) /\ Agreed(p)
    BY <1>2 DEF Settled, Agreed, Usable, NoMem
  <1> QED BY <1>1, <1>2, <1>3, <1>4 DEF Sharing

LEMMA SharingStep == ASSUME Sharing, [Next]_vars PROVE Sharing'
  <1>1. Inv /\ Inv' /\ Shaped /\ Down
    BY NextInv, InvParts DEF Sharing
  <1>2. ASSUME NEW p \in Side, Handles(p), Agrees(p), spoilt => spoilt' PROVE Sharing'
    <2>1. \A q \in Side : Settled(q)'
      BY <1>2, HandlesSettled DEF Agrees
    <2>2. ~spoilt' => \A q \in Side : up'[q]
      BY <1>2 DEF Handles, Sharing
    <2> QED BY <1>1, <1>2, <2>1, <2>2 DEF Agrees, Sharing
  <1>3. ASSUME NEW p \in Side, Announce(p) \/ Receive(p) \/ Timeout(p) PROVE Sharing'
    <2>1. Handles(p)
      BY <1>1, <1>3, AnnounceHandles, ReceiveHandles, TimeoutHandles
    <2>2. Agrees(p)
      BY <1>3, AnnounceAgrees, ReceiveAgrees, TimeoutAgrees
    <2>3. spoilt => spoilt'
      BY <1>3 DEF Announce, Receive, Timeout, ClosedArrives, Declines, Derives, DerivesUnstored,
                  Asks, Repairs, Diverges, Confirms, Mismatches, Trouble
    <2> QED BY <1>2, <2>1, <2>2, <2>3
  <1>4. ASSUME NEW p \in Side, NEW f \in DOMAIN net[Peer(p)], SendFails(p, f) PROVE Sharing'
    <2>1. Handles(p) /\ Agrees(p) /\ spoilt'
      BY <1>1, <1>4, SendFailsHandles, SendFailsAgrees DEF SendFails, Trouble
    <2> QED BY <1>2, <2>1
  <1>5. ASSUME NEW i \in Msg, NEW arms \in BOOLEAN, NEW fails \in BOOLEAN, Send(i, arms, fails)
        PROVE  Sharing'
    <2>1. Sends(i) /\ Agrees(Sender(i))
      BY <1>1, <1>5, SendSends, SendAgrees
    <2>2. \A q \in Side : Settled(q)'
      BY <2>1, SendsSettled DEF Agrees
    <2>3. up' = up /\ (spoilt => spoilt')
      BY <1>5 DEF Send, nodeVars, Trouble
    <2> QED BY <1>1, <2>1, <2>2, <2>3 DEF Agrees, Sharing
  <1>6. ASSUME NEW i \in Msg, Abandon(i) \/ Place(i) \/ Deliver(i) PROVE Sharing'
    <2>1. Agrees(Sender(i)) /\ \A q \in Side : Settled(q)'
      BY <1>6, MoveAgrees, MoveSettled
    <2>2. up' = up /\ spoilt' = spoilt
      BY <1>6 DEF Abandon, Place, Deliver, nodeVars
    <2> QED BY <1>1, <2>1, <2>2 DEF Agrees, Sharing
  <1>7. CASE Connect
    <2>1. mem' = mem /\ salt' = salt /\ up' = up /\ \A p \in Side : up[p]
      BY <1>7 DEF Connect, nodeVars, Side
    <2>2. \A q \in Side : Settled(q)'
      BY <2>1, SharingParts DEF Settled
    <2> QED BY <1>1, <1>7, <2>1, <2>2, ConnectAgrees DEF Sharing
  <1>8. ASSUME NEW p \in Side, \/ Freeze(p) \/ TearDown(p) \/ Interrupt(p) \/ Restart(p) \/ Revive(p)
        PROVE  Sharing'
    BY <1>1, <1>8, NodesShare
  <1>9. CASE UNCHANGED vars
    <2>1. /\ salt' = salt /\ tree' = tree /\ mem' = mem /\ up' = up /\ doomed' = doomed
          /\ due' = due /\ net' = net /\ spoilt' = spoilt
      BY <1>9 DEF vars, nodeVars
    <2>2. Calm' => \A q \in Side : Agreed(q)'
      BY <2>1, StillAgrees
    <2>3. Counted' /\ \A q \in Side : Settled(q)'
      BY <2>1, SharingParts DEF Counted, Settled, Sharing
    <2> QED BY <1>1, <2>1, <2>2, <2>3 DEF Sharing
  <1> QED BY <1>3, <1>4, <1>5, <1>6, <1>7, <1>8, <1>9 DEF Next

LEMMA SharedFromSharing == ASSUME Sharing PROVE SaltIsShared
  <1> SUFFICES ASSUME Quiet, ~spoilt, NEW p \in Side,
                      salt[p] # Plain, ~mem[p].susp, ~mem[p].spent, ~Closed(p)
               PROVE  salt[Peer(p)] = salt[p]
    BY DEF SaltIsShared
  <1>1. Usable(p) /\ Agreed(p) /\ Peer(p) \in Side
    BY SharingParts, Sides DEF Usable, Closed, Calm, Quiet
  <1>2. net = [q \in Side |-> EmptyBag] /\ ~due[p]
    BY DEF Quiet, NoFrames
  <1>3. DOMAIN net[p] = {} /\ DOMAIN net[Peer(p)] = {}
    BY <1>1, <1>2, SetDom
  <1>4. ~Asked(p)
    BY <1>2, <1>3 DEF Asked, Warned
  <1> QED BY <1>1, <1>4 DEF Agreed

\* Whatever the order in which announcements, halves, fingerprints, adoption_closed, timeouts
\* and hashes meet, and whatever a connection before has left in memory and on disk: when no
\* frame is left, and none was lost, a salt that the next message of a side would be hashed by
\* is the peer's salt too.
THEOREM SaltShared == Spec => []SaltIsShared
  <1>1. Spec => []Sharing
    BY SharingInit, SharingStep, PTL DEF Spec
  <1> QED BY <1>1, SharedFromSharing, PTL

=============================================================================
