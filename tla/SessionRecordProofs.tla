------------------------ MODULE SessionRecordProofs ------------------------
(***************************************************************************)
(* Proofs about SessionRecord for any two daemons, any contents and any    *)
(* number of sends, faults and crashes.                                    *)
(*                                                                         *)
(* The argument: every copy of a message, wherever it is (a send, a frame, *)
(* a mailbox entry, a row, a hold), carries either no position or the      *)
(* position at which the relay's log has exactly that leaf.  The log only  *)
(* grows, so this stays true.  A tree that is a prefix of the log is then  *)
(* extended only by leaves the log has next.                               *)
(***************************************************************************)
EXTENDS SessionRecord, TLAPS, WellFoundedInduction

-----------------------------------------------------------------------------
(* Facts about the operators.                                              *)

\* Every nonempty set of naturals has a least element (used for RunEnd).
LEMMA LeastNat ==
    ASSUME NEW S, S \subseteq Nat, S # {}
    PROVE  \E m \in S : \A k \in S : m <= k
  <1> DEFINE R == OpToRel(<, Nat)
  <1>1. \E x \in S : \A y \in S : ~(<<y, x>> \in R)
    BY WFMin, NatLessThanWellFounded, Zenon DEF R
  <1>2. \A x, y \in Nat : x < y => <<x, y>> \in R
    BY Zenon DEF OpToRel
  <1> HIDE DEF R
  <1>3. PICK m \in S : \A y \in S : ~(<<y, m>> \in R)
    BY <1>1
  <1>4. \A k \in S : ~(k < m)
    BY <1>2, <1>3, Zenon
  <1>5. \A k \in S : m <= k
    BY <1>4
  <1> QED BY <1>5

\* A party has one counterparty, whose counterparty it is.
LEMMA PeerFacts ==
    ASSUME NEW p \in Party
    PROVE  Peer(p) \in Party /\ Peer(p) # p /\ Peer(Peer(p)) = p
           /\ \A q \in Party : q # p => q = Peer(p)
  <1>1. PICK a \in Party : \E b \in Party \ {a} : Party = {a, b}
    BY PartyAssumption
  <1>2. PICK b \in Party \ {a} : Party = {a, b}
    BY <1>1
  <1>3. Peer(a) = b /\ Peer(b) = a
    BY <1>2 DEF Peer
  <1> QED BY <1>2, <1>3

\* x carries no position, or the one at which the log l has this leaf of party q.
At(l, x, q) ==
    x.pos # NoPos => x.pos \in 1..Len(l) /\ l[x.pos] = [from |-> q, c |-> x.c]

\* m is l, extended.
Grown(l, m) == Len(l) <= Len(m) /\ \A i \in 1..Len(l) : m[i] = l[i]

SideType == [t : Seq(Leaf), h : SUBSET HeldRec, r : SUBSET HeldRec,
             w : SUBSET Frame, a : SUBSET Content]

\* A side whose holds, in memory and on disk, are where the log l has them.
SideOK(l, s) ==
    /\ s \in SideType
    /\ \A x \in s.h \cup s.r : x.pos # NoPos /\ At(l, x, x.from)

\* k is neither in the tree nor held.
Fresh(k, s) == k > Len(s.t) /\ \A x \in s.h \cup s.r : x.pos # k

\* A position stays right when the log grows.
LEMMA AtGrown ==
    ASSUME NEW l \in Seq(Leaf), NEW m \in Seq(Leaf), Grown(l, m),
           NEW x, x.pos \in Nat, NEW q, At(l, x, q)
    PROVE  At(m, x, q)
  BY DEF At, Grown, NoPos

\* An appended leaf grows a sequence.
LEMMA AppendGrown ==
    ASSUME NEW S, NEW l \in Seq(S), NEW e \in S
    PROVE  Append(l, e) \in Seq(S) /\ Grown(l, Append(l, e))
  BY DEF Grown

\* The run of holds that follows the tree ends somewhere.
LEMMA RunEndFacts ==
    ASSUME NEW l \in Seq(Leaf), NEW s, SideOK(l, s)
    PROVE  /\ RunEnd(s) \in Nat /\ RunEnd(s) >= Len(s.t)
           /\ RunEnd(s) \in {Len(s.t)} \cup {x.pos : x \in s.h}
           /\ \A j \in (Len(s.t) + 1)..RunEnd(s) : \E x \in s.h : x.pos = j
  <1> DEFINE n == Len(s.t)
             S == {j \in Nat : j > n /\ \A x \in s.h : x.pos # j}
             C == {n} \cup {x.pos : x \in s.h}
             P(k) == /\ k >= n
                     /\ \A j \in (n + 1)..k : \E x \in s.h : x.pos = j
                     /\ \A x \in s.h : x.pos # k + 1
  <1>1. n \in Nat /\ Len(l) \in Nat /\ \A x \in s.h : x.pos \in Nat /\ x.pos <= Len(l)
    <2>1. s.t \in Seq(Leaf) /\ s.h \subseteq HeldRec
      BY DEF SideOK, SideType
    <2>2. \A x \in s.h : x.pos # NoPos /\ At(l, x, x.from)
      BY DEF SideOK
    <2>3. n \in Nat /\ Len(l) \in Nat
      BY <2>1
    <2>4. \A x \in s.h : x.pos \in 1..Len(l)
      BY <2>2 DEF At
    <2> QED BY <2>3, <2>4
  <1>2. n + Len(l) + 1 \in S
    BY <1>1
  <1>3. PICK m \in S : \A k \in S : m <= k
    BY <1>2, LeastNat
  <1>4. m - 1 \in Nat /\ m > n /\ P(m - 1)
    BY <1>1, <1>3
  <1>5. m - 1 \in C
    BY <1>1, <1>4
  <1>6. RunEnd(s) = CHOOSE k \in C : P(k)
    BY DEF RunEnd
  <1>7. RunEnd(s) \in C /\ P(RunEnd(s))
    BY <1>4, <1>5, <1>6
  <1> QED BY <1>1, <1>7

\* restoreHeldContent moves rows that are right, and no leaf.
LEMMA RestoreOK ==
    ASSUME NEW l, NEW s, SideOK(l, s)
    PROVE  /\ SideOK(l, RestoreHeld(s)) /\ RestoreHeld(s).t = s.t
           /\ RestoreHeld(s).w = s.w
           /\ \A k \in Nat : Fresh(k, s) => Fresh(k, RestoreHeld(s))
  <1> DEFINE passed == {x \in s.r : x.pos <= Len(s.t)}
             ann == {x.c : x \in {y \in passed : s.t[y.pos].c # y.c}}
             z == [s EXCEPT !.h = @ \cup (s.r \ passed), !.r = @ \ passed, !.a = @ \cup ann]
  <1>1. RestoreHeld(s) = z
    BY DEF RestoreHeld
  <1>2. s \in SideType
    BY DEF SideOK
  <1>3. passed \subseteq s.r /\ ann \subseteq Content
    BY <1>2 DEF SideType, HeldRec
  <1> HIDE DEF passed, ann
  <1>4. z \in SideType /\ z.t = s.t /\ z.w = s.w /\ z.h \cup z.r \subseteq s.h \cup s.r
    BY <1>2, <1>3 DEF SideType
  <1>5. SideOK(l, z)
    BY <1>4 DEF SideOK
  <1>6. \A k \in Nat : Fresh(k, s) => Fresh(k, z)
    BY <1>4 DEF Fresh
  <1> QED BY <1>1, <1>4, <1>5, <1>6

\* releaseHeld appends only leaves the log has at those positions.
LEMMA ReleaseOK ==
    ASSUME NEW l \in Seq(Leaf), NEW s, SideOK(l, s), NEW p
    PROVE  /\ SideOK(l, ReleaseHeld(p, s))
           /\ Grown(s.t, ReleaseHeld(p, s).t) /\ ReleaseHeld(p, s).w \subseteq s.w
           /\ Grown(s.t, l) => Grown(ReleaseHeld(p, s).t, l)
           /\ \A k \in Nat : Fresh(k, s) => Fresh(k, ReleaseHeld(p, s))
  <1> DEFINE end == RunEnd(s)
             n == Len(s.t)
             pick(i) == CHOOSE x \in s.h : x.pos = i
             run == {x \in s.h : n < x.pos /\ x.pos <= end}
             nt == [i \in 1..end |-> IF i <= n THEN s.t[i] ELSE LeafOf(pick(i))]
             nr == {x \in s.r : ~(n < x.pos /\ x.pos <= end)}
             nw == {x \in s.w : \A y \in run : y.from # p => y.c # x.c}
             z == [s EXCEPT !.t = nt, !.h = @ \ run, !.r = nr, !.w = nw]
  <1>1. ReleaseHeld(p, s) = z
    BY DEF ReleaseHeld
  <1>2. s \in SideType /\ s.t \in Seq(Leaf) /\ n \in Nat /\ Len(l) \in Nat
    BY DEF SideOK, SideType
  <1>3. end \in Nat /\ end >= n
    BY RunEndFacts
  <1>4. \A j \in (n + 1)..end : pick(j) \in s.h /\ pick(j).pos = j
    BY RunEndFacts
  <1>5. \A x \in s.h : x \in HeldRec /\ x.pos \in 1..Len(l) /\ l[x.pos] = LeafOf(x)
    <2>1. \A x \in s.h : x.pos # NoPos /\ At(l, x, x.from)
      BY DEF SideOK
    <2> QED BY <1>2, <2>1 DEF SideType, At, LeafOf
  <1>6. \A j \in (n + 1)..end : j \in 1..Len(l) /\ LeafOf(pick(j)) = l[j]
    BY <1>4, <1>5
  <1>7. \A j \in 1..Len(l) : l[j] \in Leaf
    OBVIOUS
  <1>8. \A i \in 1..end : i <= n \/ i \in (n + 1)..end
    BY <1>2, <1>3
  <1>9. \A i \in 1..end : nt[i] \in Leaf
    BY <1>2, <1>6, <1>7, <1>8
  <1>10. nt \in Seq(Leaf) /\ Len(nt) = end
    <2>1. nt \in [1..end -> Leaf]
      BY <1>9
    <2> HIDE DEF nt
    <2> QED BY <2>1, <1>3
  <1>11. run \subseteq s.h /\ nr \subseteq s.r /\ nw \subseteq s.w
    OBVIOUS
  <1> HIDE DEF run, nr, nw
  <1>12. Grown(s.t, nt)
    BY <1>2, <1>3, <1>10 DEF Grown
  <1>13. ASSUME Grown(s.t, l) PROVE Grown(nt, l)
    <2>1. \A i \in 1..end : l[i] = nt[i]
      BY <1>2, <1>6, <1>8, <1>13 DEF Grown
    <2>2. end <= Len(l)
      <3>1. CASE end = n
        BY <3>1, <1>13 DEF Grown
      <3>2. CASE end # n
        <4>1. end \in (n + 1)..end
          BY <3>2, <1>2, <1>3
        <4>2. PICK x \in s.h : x.pos = end
          BY <4>1, <1>4
        <4> QED BY <4>2, <1>5
      <3> QED BY <3>1, <3>2
    <2> QED BY <2>1, <2>2, <1>10 DEF Grown
  <1> HIDE DEF nt
  <1>14. z \in SideType /\ z.t = nt /\ z.w \subseteq s.w /\ z.h \cup z.r \subseteq s.h \cup s.r
    BY <1>2, <1>10, <1>11 DEF SideType
  <1>15. SideOK(l, z)
    BY <1>14 DEF SideOK
  <1>16. ASSUME NEW k \in Nat, Fresh(k, s) PROVE Fresh(k, z)
    <2>1. k > n /\ \A x \in s.h \cup s.r : x.pos # k
      BY <1>16 DEF Fresh
    <2>2. k \notin (n + 1)..end
      BY <2>1, <1>4
    <2>3. k > Len(nt)
      BY <2>1, <2>2, <1>2, <1>3, <1>10
    <2> QED BY <2>1, <2>3, <1>14 DEF Fresh
  <1> QED BY <1>1, <1>12, <1>13, <1>14, <1>15, <1>16

-----------------------------------------------------------------------------
(* The inductive invariant.                                                *)

\* Every copy of a message carries no position or its position in the log.
PositionsIn(l) ==
    /\ \A f \in wire : At(l, f, Peer(f.to))
    /\ \A p \in Party :
          /\ \A i \in 1..Len(leafq[p]) :
                leafq[p][i] \in 1..Len(l) /\ l[leafq[p][i]].from = Peer(p)
          /\ \A x \in mailbox[p] : At(l, x, Peer(p))
          /\ \A x \in screening[p] : At(l, x, Peer(p))
          /\ \A x \in witnessed[p] : At(l, x, Peer(p))
          /\ \A x \in rows[p] : At(l, x, p)
          /\ \A x \in awaiting[p] : At(l, x, p)
          /\ \A x \in out[p] : At(l, x, p)
          /\ \A x \in held[p] \cup heldRow[p] : x.pos # NoPos /\ At(l, x, x.from)

PositionsOK == PositionsIn(log)

\* Without a skewed send: no copy lacks its position, the trees are prefixes of the
\* log, and a send in progress has not been placed.
OrderOK ==
    ~skewed =>
        /\ \A f \in wire : f.pos # NoPos
        /\ \A p \in Party :
              /\ Grown(tree[p], log)
              /\ \A x \in mailbox[p] : x.pos # NoPos
              /\ \A x \in screening[p] : x.pos # NoPos
              /\ \A x \in rows[p] : x.pos # NoPos
              /\ \A x \in awaiting[p] : x.pos # NoPos
              /\ \A x \in out[p] : x.pos # NoPos /\ Fresh(x.pos, Side(p))
              /\ \A x, y \in out[p] : x.pos = y.pos => x = y

\* A frame reaches the screen only after the holds were restored and released.
DrainedOK == \A p \in Party : screening[p] # {} => hydrated[p] /\ drained[p]

\* An acknowledgement, on its way or recorded, is of a leaf in the tree.
AcksOK ==
    /\ \A a \in ackw : a.c \in Hashes(tree[Peer(a.to)])
    /\ AckedIsDurable

Inv == TypeOK /\ PositionsOK /\ OrderOK /\ DrainedOK /\ AcksOK

-----------------------------------------------------------------------------
(* What a side does with the log, in the state.                            *)

\* Growing twice is growing.
LEMMA GrownTrans ==
    ASSUME NEW S, NEW l \in Seq(S), NEW m \in Seq(S), NEW n \in Seq(S),
           Grown(l, m), Grown(m, n)
    PROVE  Grown(l, n)
  BY DEF Grown

\* A sequence is itself, extended by nothing.
LEMMA GrownRefl ==
    ASSUME NEW S, NEW l \in Seq(S)
    PROVE  Grown(l, l)
  BY DEF Grown

\* The side of a daemon is well-typed and its holds are right.
LEMMA SideFacts ==
    ASSUME TypeOK, PositionsOK, NEW p \in Party
    PROVE  SideOK(log, Side(p)) /\ Side(p).t = tree[p] /\ Side(p).h = held[p]
           /\ Side(p).r = heldRow[p] /\ Side(p).w = witnessed[p] /\ Side(p).a = annex[p]
  <1>1. tree[p] \in Seq(Leaf) /\ held[p] \in SUBSET HeldRec /\ heldRow[p] \in SUBSET HeldRec
        /\ witnessed[p] \in SUBSET Frame /\ annex[p] \in SUBSET Content
    BY DEF TypeOK
  <1>2. Side(p) \in SideType
    BY <1>1 DEF Side, SideType
  <1>3. \A x \in held[p] \cup heldRow[p] : x.pos # NoPos /\ At(log, x, x.from)
    BY DEF PositionsOK, PositionsIn
  <1> QED BY <1>2, <1>3 DEF Side, SideOK

\* ensureHeldRestored only adds leaves that are next in the log.
LEMMA EnsureFacts ==
    ASSUME TypeOK, PositionsOK, NEW p \in Party
    PROVE  /\ SideOK(log, EnsureHeldRestored(p))
           /\ Grown(tree[p], EnsureHeldRestored(p).t)
           /\ EnsureHeldRestored(p).w \subseteq witnessed[p]
           /\ Grown(tree[p], log) => Grown(EnsureHeldRestored(p).t, log)
           /\ \A k \in Nat : Fresh(k, Side(p)) => Fresh(k, EnsureHeldRestored(p))
           /\ hydrated[p] /\ drained[p] => EnsureHeldRestored(p) = Side(p)
  <1>1. SideOK(log, Hydrated(p)) /\ Hydrated(p).t = tree[p] /\ Hydrated(p).w = witnessed[p]
        /\ (\A k \in Nat : Fresh(k, Side(p)) => Fresh(k, Hydrated(p)))
        /\ (hydrated[p] => Hydrated(p) = Side(p))
    BY SideFacts, RestoreOK DEF Hydrated
  <1>2. log \in Seq(Leaf) /\ tree[p] \in Seq(Leaf)
    BY DEF TypeOK
  <1>3. CASE drained[p]
    BY <1>1, <1>2, <1>3, GrownRefl DEF EnsureHeldRestored
  <1>4. CASE ~drained[p]
    <2>1. EnsureHeldRestored(p) = ReleaseHeld(p, Hydrated(p))
      BY <1>4 DEF EnsureHeldRestored
    <2> QED BY <1>1, <1>2, <1>4, <2>1, ReleaseOK
  <1> QED BY <1>3, <1>4

\* Entering a hold into the map and its rows.
LEMMA PutFacts ==
    ASSUME NEW h \in SUBSET HeldRec, NEW e \in HeldRec
    PROVE  PutPos(h, e) \in SUBSET HeldRec /\ PutPos(h, e) \subseteq h \cup {e}
  BY DEF PutPos

\* placeOwnLeaf puts a leaf that was neither placed nor held where the log has it.
LEMMA PlaceFacts ==
    ASSUME NEW l \in Seq(Leaf), NEW s, SideOK(l, s), NEW p \in Party, NEW c \in Content,
           NEW pos \in Nat,
           pos # NoPos => pos \in 1..Len(l) /\ l[pos] = [from |-> p, c |-> c]
    PROVE  LET z == PlaceAt(p, s, c, pos)
           IN  /\ SideOK(l, z) /\ Grown(s.t, z.t) /\ z.w = s.w
               /\ pos # NoPos /\ Fresh(pos, s) /\ Grown(s.t, l) => Grown(z.t, l)
               /\ \A k \in Nat : Fresh(pos, s) /\ k # pos /\ Fresh(k, s) => Fresh(k, z)
  <1> DEFINE z == PlaceAt(p, s, c, pos)
             b == [from |-> p, c |-> c]
             e == [c |-> c, pos |-> pos, from |-> p]
  <1>1. s \in SideType /\ s.t \in Seq(Leaf) /\ Len(s.t) \in Nat /\ Len(l) \in Nat
    BY DEF SideOK, SideType
  <1>2. b \in Leaf /\ e \in HeldRec
    BY DEF Leaf, HeldRec
  <1>3. CASE pos <= Len(s.t) + 1
    <2>1. z = [s EXCEPT !.t = Append(@, b)]
      BY <1>3 DEF PlaceAt
    <2>2. z \in SideType /\ z.t = Append(s.t, b) /\ z.h = s.h /\ z.r = s.r /\ z.w = s.w
      <3>1. Append(s.t, b) \in Seq(Leaf)
        BY <1>1, <1>2, AppendGrown
      <3> HIDE DEF b
      <3> QED BY <1>1, <2>1, <3>1 DEF SideType
    <2>3. SideOK(l, z)
      BY <2>2 DEF SideOK
    <2>4. Grown(s.t, z.t)
      BY <1>1, <1>2, <2>2, AppendGrown
    <2>5. ASSUME pos # NoPos, Fresh(pos, s), Grown(s.t, l) PROVE Grown(z.t, l)
      <3>1. pos = Len(s.t) + 1
        BY <1>1, <1>3, <2>5 DEF Fresh
      <3> QED BY <1>1, <1>2, <2>2, <2>5, <3>1 DEF Grown
    <2>6. ASSUME NEW k \in Nat, Fresh(pos, s), k # pos, Fresh(k, s) PROVE Fresh(k, z)
      <3>1. pos = Len(s.t) + 1
        BY <1>1, <1>3, <2>6 DEF Fresh
      <3> QED BY <1>1, <1>2, <2>2, <2>6, <3>1 DEF Fresh
    <2> QED BY <2>2, <2>3, <2>4, <2>5, <2>6
  <1>4. CASE ~(pos <= Len(s.t) + 1)
    <2>1. z = [s EXCEPT !.h = PutPos(@, e), !.r = PutPos(@, e)]
      BY <1>4 DEF PlaceAt
    <2>2. z \in SideType /\ z.t = s.t /\ z.w = s.w /\ z.h \subseteq s.h \cup {e}
          /\ z.r \subseteq s.r \cup {e}
      <3>1. PutPos(s.h, e) \in SUBSET HeldRec /\ PutPos(s.h, e) \subseteq s.h \cup {e}
            /\ PutPos(s.r, e) \in SUBSET HeldRec /\ PutPos(s.r, e) \subseteq s.r \cup {e}
        BY <1>1, <1>2, PutFacts DEF SideType
      <3> HIDE DEF e
      <3> QED BY <1>1, <2>1, <3>1 DEF SideType
    <2>3. pos # NoPos /\ At(l, e, e.from)
      BY <1>1, <1>4 DEF At, NoPos
    <2>4. SideOK(l, z)
      BY <2>2, <2>3 DEF SideOK
    <2>5. \A k \in Nat : k # pos /\ Fresh(k, s) => Fresh(k, z)
      BY <2>2 DEF Fresh
    <2> QED BY <1>1, <2>2, <2>4, <2>5, GrownRefl
  <1> QED BY <1>3, <1>4

\* A received leaf that is next in the log keeps the tree a prefix of it.
LEMMA AppendFacts ==
    ASSUME NEW l \in Seq(Leaf), NEW s, SideOK(l, s), NEW p \in Party, NEW c \in Content
    PROVE  LET z == AppendReceived(p, s, c)
               n == Len(s.t) + 1
           IN  /\ SideOK(l, z) /\ Grown(s.t, z.t) /\ z.w \subseteq s.w /\ c \in Hashes(z.t)
               /\ n <= Len(l) /\ l[n] = [from |-> Peer(p), c |-> c] /\ Grown(s.t, l)
                     => Grown(z.t, l)
               /\ \A k \in Nat : k # n /\ Fresh(k, s) => Fresh(k, z)
  <1> DEFINE b == [from |-> Peer(p), c |-> c]
             y == [s EXCEPT !.t = Append(@, b), !.w = DropHash(@, c)]
             z == AppendReceived(p, s, c)
             n == Len(s.t) + 1
  <1>1. s \in SideType /\ s.t \in Seq(Leaf) /\ Len(s.t) \in Nat /\ Len(l) \in Nat
    BY DEF SideOK, SideType
  <1>2. b \in Leaf
    BY PeerFacts DEF Leaf
  <1>3. z = ReleaseHeld(p, y)
    BY DEF AppendReceived
  <1>4. y \in SideType /\ y.t = Append(s.t, b) /\ y.h = s.h /\ y.r = s.r /\ y.w \subseteq s.w
    <2>1. Append(s.t, b) \in Seq(Leaf)
      BY <1>1, <1>2, AppendGrown
    <2>2. DropHash(s.w, c) \subseteq s.w
      BY DEF DropHash
    <2> HIDE DEF b
    <2> QED BY <1>1, <2>1, <2>2 DEF SideType
  <1>5. y.t \in Seq(Leaf) /\ Len(y.t) = n /\ y.t[n] = b /\ Grown(s.t, y.t)
    BY <1>1, <1>2, <1>4, AppendGrown
  <1>6. SideOK(l, y)
    BY <1>4 DEF SideOK
  <1> HIDE DEF y
  <1>7. SideOK(l, z) /\ Grown(y.t, z.t) /\ z.w \subseteq y.w /\ z.t \in Seq(Leaf)
        /\ (Grown(y.t, l) => Grown(z.t, l))
        /\ (\A k \in Nat : Fresh(k, y) => Fresh(k, z))
    <2>1. SideOK(l, z) => z.t \in Seq(Leaf)
      BY DEF SideOK, SideType
    <2> QED BY <1>3, <1>6, <2>1, ReleaseOK
  <1> HIDE DEF z
  <1>8. Grown(s.t, z.t)
    BY <1>1, <1>5, <1>7, GrownTrans
  <1>9. c \in Hashes(z.t)
    <2>1. n \in 1..Len(z.t) /\ z.t[n] = b
      BY <1>1, <1>5, <1>7 DEF Grown
    <2> QED BY <2>1 DEF Hashes
  <1>10. ASSUME n <= Len(l), l[n] = b, Grown(s.t, l) PROVE Grown(z.t, l)
    <2>1. Grown(y.t, l)
      BY <1>1, <1>4, <1>5, <1>10 DEF Grown
    <2> QED BY <2>1, <1>7
  <1>11. \A k \in Nat : k # n /\ Fresh(k, s) => Fresh(k, z)
    <2>1. \A k \in Nat : k # n /\ Fresh(k, s) => Fresh(k, y)
      BY <1>1, <1>4, <1>5 DEF Fresh
    <2> QED BY <2>1, <1>7
  <1>12. z.w \subseteq s.w
    BY <1>4, <1>7
  <1> QED BY <1>7, <1>8, <1>9, <1>10, <1>11, <1>12 DEF z

\* Holding a received frame moves no leaf.
LEMMA HoldFacts ==
    ASSUME NEW l \in Seq(Leaf), NEW s, SideOK(l, s), NEW p \in Party, NEW c \in Content,
           NEW pos \in Nat, pos # NoPos,
           pos \in 1..Len(l) /\ l[pos] = [from |-> Peer(p), c |-> c]
    PROVE  LET z == HoldReceived(p, s, c, pos)
           IN  /\ SideOK(l, z) /\ z.t = s.t /\ z.w = s.w
               /\ \A k \in Nat : k # pos /\ Fresh(k, s) => Fresh(k, z)
  <1> DEFINE e == [c |-> c, pos |-> pos, from |-> Peer(p)]
             z == HoldReceived(p, s, c, pos)
  <1>1. s \in SideType /\ e \in HeldRec
    BY PeerFacts DEF SideOK, HeldRec
  <1>2. z = [s EXCEPT !.h = PutPos(@, e), !.r = PutPos(@, e)]
    BY DEF HoldReceived
  <1>3. z \in SideType /\ z.t = s.t /\ z.w = s.w /\ z.h \subseteq s.h \cup {e}
        /\ z.r \subseteq s.r \cup {e}
    <2>1. PutPos(s.h, e) \in SUBSET HeldRec /\ PutPos(s.h, e) \subseteq s.h \cup {e}
          /\ PutPos(s.r, e) \in SUBSET HeldRec /\ PutPos(s.r, e) \subseteq s.r \cup {e}
      BY <1>1, PutFacts DEF SideType
    <2> HIDE DEF e
    <2> QED BY <1>1, <1>2, <2>1 DEF SideType
  <1>4. At(l, e, e.from)
    BY DEF At
  <1>5. SideOK(l, z)
    BY <1>3, <1>4 DEF SideOK
  <1>6. \A k \in Nat : k # pos /\ Fresh(k, s) => Fresh(k, z)
    BY <1>3 DEF Fresh
  <1> QED BY <1>3, <1>5, <1>6

\* Leaves stay when a tree grows.
LEMMA HashesGrown ==
    ASSUME NEW t \in Seq(Leaf), NEW u \in Seq(Leaf), Grown(t, u)
    PROVE  Hashes(t) \subseteq Hashes(u)
  BY DEF Hashes, Grown

\* Writing a side back.
LEMMA CommitFacts ==
    ASSUME TypeOK, PositionsOK, NEW p \in Party, NEW z, SideOK(log, z),
           Grown(tree[p], z.t), z.w \subseteq witnessed[p], Commit(p, z), log' = log
    PROVE  /\ tree' \in [Party -> Seq(Leaf)]
           /\ heldRow' \in [Party -> SUBSET HeldRec] /\ held' \in [Party -> SUBSET HeldRec]
           /\ witnessed' \in [Party -> SUBSET Frame] /\ annex' \in [Party -> SUBSET Content]
           /\ hydrated' \in [Party -> BOOLEAN] /\ drained' \in [Party -> BOOLEAN]
           /\ hydrated'[p] /\ drained'[p] /\ tree'[p] = z.t /\ Side(p)' = z
           /\ \A q \in Party : q # p => /\ hydrated'[q] = hydrated[q] /\ drained'[q] = drained[q]
                                       /\ tree'[q] = tree[q] /\ Side(q)' = Side(q)
           /\ \A q \in Party : Hashes(tree[q]) \subseteq Hashes(tree'[q])
           /\ \A q \in Party : \A x \in witnessed'[q] : At(log', x, Peer(q))
           /\ \A q \in Party : \A x \in held'[q] \cup heldRow'[q] :
                 x.pos # NoPos /\ At(log', x, x.from)
  <1>1. z \in SideType /\ \A x \in z.h \cup z.r : x.pos # NoPos /\ At(log, x, x.from)
    BY DEF SideOK
  <1>2. /\ tree' = [tree EXCEPT ![p] = z.t] /\ held' = [held EXCEPT ![p] = z.h]
        /\ heldRow' = [heldRow EXCEPT ![p] = z.r] /\ witnessed' = [witnessed EXCEPT ![p] = z.w]
        /\ annex' = [annex EXCEPT ![p] = z.a] /\ hydrated' = [hydrated EXCEPT ![p] = TRUE]
        /\ drained' = [drained EXCEPT ![p] = TRUE]
    BY DEF Commit
  <1>3. z.t \in Seq(Leaf) /\ z.h \in SUBSET HeldRec /\ z.r \in SUBSET HeldRec
        /\ z.w \in SUBSET Frame /\ z.a \in SUBSET Content
    BY <1>1 DEF SideType
  <1>4. /\ tree \in [Party -> Seq(Leaf)]
        /\ heldRow \in [Party -> SUBSET HeldRec] /\ held \in [Party -> SUBSET HeldRec]
        /\ witnessed \in [Party -> SUBSET Frame] /\ annex \in [Party -> SUBSET Content]
        /\ hydrated \in [Party -> BOOLEAN] /\ drained \in [Party -> BOOLEAN]
    BY DEF TypeOK
  <1>5. /\ tree' \in [Party -> Seq(Leaf)]
        /\ heldRow' \in [Party -> SUBSET HeldRec] /\ held' \in [Party -> SUBSET HeldRec]
        /\ witnessed' \in [Party -> SUBSET Frame] /\ annex' \in [Party -> SUBSET Content]
        /\ hydrated' \in [Party -> BOOLEAN] /\ drained' \in [Party -> BOOLEAN]
    BY <1>2, <1>3, <1>4
  <1>6. hydrated'[p] /\ drained'[p] /\ tree'[p] = z.t /\ held'[p] = z.h /\ heldRow'[p] = z.r
        /\ witnessed'[p] = z.w /\ annex'[p] = z.a
    BY <1>2, <1>4
  <1>7. \A q \in Party : q # p =>
            /\ hydrated'[q] = hydrated[q] /\ drained'[q] = drained[q] /\ tree'[q] = tree[q]
            /\ held'[q] = held[q] /\ heldRow'[q] = heldRow[q] /\ witnessed'[q] = witnessed[q]
            /\ annex'[q] = annex[q]
    BY <1>2, <1>4
  <1>8. Side(p)' = z
    BY <1>1, <1>6 DEF Side, SideType
  <1>9. \A q \in Party : q # p => Side(q)' = Side(q)
    BY <1>7 DEF Side
  <1>10. \A q \in Party : Hashes(tree[q]) \subseteq Hashes(tree'[q])
    <2>1. Hashes(tree[p]) \subseteq Hashes(tree'[p])
      BY <1>3, <1>4, <1>6, HashesGrown
    <2> QED BY <1>7, <2>1
  <1>11. \A q \in Party : \A x \in witnessed'[q] : At(log', x, Peer(q))
    BY <1>6, <1>7 DEF PositionsOK, PositionsIn
  <1>12. \A q \in Party : \A x \in held'[q] \cup heldRow'[q] : x.pos # NoPos /\ At(log', x, x.from)
    BY <1>1, <1>6, <1>7 DEF PositionsOK, PositionsIn
  <1> QED BY <1>5, <1>6, <1>7, <1>8, <1>9, <1>10, <1>11, <1>12

\* All positions stay right when the log grows.
LEMMA PositionsGrown ==
    ASSUME TypeOK, PositionsOK, NEW m \in Seq(Leaf), Grown(log, m)
    PROVE  PositionsIn(m)
  <1>1. log \in Seq(Leaf) /\ Len(log) \in Nat /\ Len(m) \in Nat
    BY DEF TypeOK
  <1>2. \A x, q : x.pos \in Nat /\ At(log, x, q) => At(m, x, q)
    BY <1>1, AtGrown
  <1>3. \A f \in wire : At(m, f, Peer(f.to))
    BY <1>2 DEF PositionsOK, PositionsIn, TypeOK
  <1>4. ASSUME NEW p \in Party
        PROVE  /\ \A x \in mailbox[p] : At(m, x, Peer(p))
               /\ \A x \in screening[p] : At(m, x, Peer(p))
               /\ \A x \in witnessed[p] : At(m, x, Peer(p))
               /\ \A x \in rows[p] : At(m, x, p)
               /\ \A x \in awaiting[p] : At(m, x, p)
               /\ \A x \in out[p] : At(m, x, p)
               /\ \A x \in held[p] \cup heldRow[p] : x.pos # NoPos /\ At(m, x, x.from)
    <2>1. /\ \A x \in mailbox[p] : x.pos \in Nat
          /\ \A x \in screening[p] : x.pos \in Nat
          /\ \A x \in witnessed[p] : x.pos \in Nat
          /\ \A x \in rows[p] : x.pos \in Nat
          /\ \A x \in awaiting[p] : x.pos \in Nat
          /\ \A x \in out[p] : x.pos \in Nat
          /\ \A x \in held[p] \cup heldRow[p] : x.pos \in Nat
      BY DEF TypeOK, Frame, Ingress, Sending, HeldRec
    <2> QED BY <1>2, <2>1 DEF PositionsOK, PositionsIn
  <1>5. ASSUME NEW p \in Party, NEW i \in 1..Len(leafq[p])
        PROVE  leafq[p][i] \in 1..Len(m) /\ m[leafq[p][i]].from = Peer(p)
    <2>1. leafq[p][i] \in 1..Len(log) /\ log[leafq[p][i]].from = Peer(p)
      BY DEF PositionsOK, PositionsIn
    <2> QED BY <1>1, <2>1 DEF Grown
  <1> QED BY <1>3, <1>4, <1>5 DEF PositionsIn

\* Initially nothing is anywhere.
LEMMA InitInv == Init => Inv
  <1> SUFFICES ASSUME Init PROVE Inv
    OBVIOUS
  <1>1. TypeOK
    <2>1. << >> \in Seq(Leaf) /\ << >> \in Seq(Nat)
      OBVIOUS
    <2>2. leafq \in [Party -> Seq(Nat)] /\ tree \in [Party -> Seq(Leaf)]
      BY <2>1 DEF Init
    <2>3. log \in Seq(Leaf)
      BY DEF Init
    <2>4. diverged \in [Party -> BOOLEAN] /\ hydrated \in [Party -> BOOLEAN]
          /\ drained \in [Party -> BOOLEAN]
      BY DEF Init
    <2>5. skewed \in BOOLEAN
      BY DEF Init
    <2> QED BY <2>2, <2>3, <2>4, <2>5 DEF Init, TypeOK
  <1>2. PositionsOK
    BY DEF Init, PositionsOK, PositionsIn
  <1>3. OrderOK
    BY DEF Init, OrderOK, Grown
  <1>4. DrainedOK /\ AcksOK
    BY DEF Init, DrainedOK, AcksOK, AckedIsDurable
  <1> QED BY <1>1, <1>2, <1>3, <1>4 DEF Inv

\* Submit keeps the invariant.
LEMMA SubmitInv ==
    ASSUME Inv, NEW p \in Party, NEW c \in Content, Submit(p, c)
    PROVE  Inv'
  <1> DEFINE o == [c |-> c, pos |-> Len(log) + 1, st |-> "submitted"]
             b == [from |-> p, c |-> c]
  <1> USE DEF Inv
  <1>1. log \in Seq(Leaf) /\ b \in Leaf /\ o \in Sending /\ Len(log) \in Nat
    BY DEF TypeOK, Leaf, Sending
  <1>2. log' = Append(log, b) /\ log' \in Seq(Leaf) /\ Grown(log, log')
        /\ Len(log') = Len(log) + 1 /\ log'[Len(log) + 1] = b
    BY <1>1, AppendGrown DEF Submit
  <1>3. out' = [out EXCEPT ![p] = @ \cup {o}]
    BY DEF Submit
  <1>4. leafq' = [leafq EXCEPT ![Peer(p)] = Append(@, Len(log) + 1)]
    BY DEF Submit
  <1>5. sends' = [sends EXCEPT ![c] = @ + 1]
    BY DEF Submit, MaySend
  <1>6. UNCHANGED <<mailbox, wire, ackw, heldVars, rows, acked, diverged, ordered, awaiting,
                    screening, counter, faults, crashes, skewed, seen, told, orphaned>>
    BY DEF Submit
  <1> HIDE DEF o, b
  <1>7. TypeOK'
    <2>1. leafq' \in [Party -> Seq(Nat)]
      BY <1>1, <1>4, PeerFacts DEF TypeOK
    <2>2. out' \in [Party -> SUBSET Sending]
      BY <1>1, <1>3 DEF TypeOK
    <2>3. sends' \in [Content -> Nat]
      BY <1>5 DEF TypeOK
    <2> QED BY <1>2, <1>6, <2>1, <2>2, <2>3 DEF TypeOK, heldVars
  <1>8. PositionsOK'
    <2>1. PositionsIn(log')
      BY <1>2, PositionsGrown
    <2>2. At(log', o, p)
      BY <1>1, <1>2 DEF At, o, b
    <2>3. ASSUME NEW q \in Party, NEW i \in 1..Len(leafq'[q])
          PROVE  leafq'[q][i] \in 1..Len(log') /\ log'[leafq'[q][i]].from = Peer(q)
      <3>1. CASE q # Peer(p)
        BY <2>1, <2>3, <1>4, <3>1 DEF PositionsIn, TypeOK
      <3>2. CASE q = Peer(p)
        <4>1. leafq[q] \in Seq(Nat) /\ leafq'[q] = Append(leafq[q], Len(log) + 1)
          BY <1>4, <3>2, PeerFacts DEF TypeOK
        <4>2. CASE i \in 1..Len(leafq[q])
          BY <2>1, <4>1, <4>2 DEF PositionsIn
        <4>3. CASE i = Len(leafq[q]) + 1
          BY <1>1, <1>2, <3>2, <4>1, <4>3, PeerFacts DEF b
        <4> QED BY <2>3, <4>1, <4>2, <4>3
      <3> QED BY <3>1, <3>2
    <2>4. \A q \in Party : \A x \in out'[q] : At(log', x, q)
      BY <2>1, <2>2, <1>3 DEF PositionsIn, TypeOK
    <2> QED BY <2>1, <2>3, <2>4, <1>6 DEF PositionsOK, PositionsIn, heldVars
  <1>9. OrderOK'
    <2> SUFFICES ASSUME ~skewed' PROVE OrderOK'
      BY DEF OrderOK
    <2>1. ~skewed /\ OrderOK
      BY <1>6
    <2>2. \A q \in Party : Side(q)' = Side(q) /\ Side(q).t = tree[q]
      BY <1>6 DEF Side, heldVars
    <2>3. \A q \in Party : Grown(tree[q], log)
      BY <2>1 DEF OrderOK
    <2>4. \A q \in Party : Grown(tree'[q], log')
      BY <1>1, <1>2, <1>6, <2>3, GrownTrans DEF heldVars, TypeOK
    <2>5. Fresh(o.pos, Side(p)) /\ o.pos # NoPos
      <3>1. SideOK(log, Side(p))
        BY SideFacts
      <3>2. \A x \in Side(p).h \cup Side(p).r : x.pos \in 1..Len(log)
        BY <3>1 DEF SideOK, At
      <3>3. Len(tree[p]) <= Len(log) /\ Len(tree[p]) \in Nat
        BY <2>3 DEF Grown, TypeOK
      <3> QED BY <1>1, <2>2, <3>2, <3>3 DEF Fresh, NoPos, o
    <2>6. \A x \in out[p] : x.pos \in 1..Len(log)
      BY <2>1 DEF OrderOK, PositionsOK, PositionsIn, At
    <2>7. \A x \in out[p] : x.pos # o.pos
      BY <1>1, <2>6 DEF o
    <2>8. \A q \in Party : \A x \in out'[q] : x.pos # NoPos /\ Fresh(x.pos, Side(q)')
      BY <2>1, <2>2, <2>5, <1>3 DEF OrderOK, TypeOK
    <2>9. \A q \in Party : \A x, y \in out'[q] : x.pos = y.pos => x = y
      BY <2>1, <2>7, <1>3 DEF OrderOK, TypeOK
    <2> QED BY <1>6, <2>1, <2>4, <2>8, <2>9 DEF OrderOK
  <1>10. DrainedOK' /\ AcksOK'
    BY <1>6 DEF DrainedOK, AcksOK, AckedIsDurable, heldVars
  <1> QED BY <1>7, <1>8, <1>9, <1>10

-----------------------------------------------------------------------------
(* Steps that leave the log alone.                                         *)

\* A copy x of a message of q: its position is right, and there unless sk is set.
Good(l, sk, x, q) == At(l, x, q) /\ (~sk => x.pos # NoPos)

\* Every copy of every message is good.
GoodCopies(l, sk) ==
    /\ \A f \in wire : Good(l, sk, f, Peer(f.to))
    /\ \A q \in Party :
          /\ \A x \in mailbox[q] : Good(l, sk, x, Peer(q))
          /\ \A x \in screening[q] : Good(l, sk, x, Peer(q))
          /\ \A x \in rows[q] : Good(l, sk, x, q)
          /\ \A x \in awaiting[q] : Good(l, sk, x, q)
          /\ \A x \in out[q] : Good(l, sk, x, q)

\* Sends in progress of q are not placed yet, and have different positions.
FreshSends(sk) ==
    ~sk => \A q \in Party :
              /\ \A x \in out[q] : Fresh(x.pos, Side(q))
              /\ \A x, y \in out[q] : x.pos = y.pos => x = y

\* Forwarded leaves and witnesses are right.
WitnessesOK(l) ==
    \A q \in Party :
        /\ \A i \in 1..Len(leafq[q]) : leafq[q][i] \in 1..Len(l) /\ l[leafq[q][i]].from = Peer(q)
        /\ \A x \in witnessed[q] : At(l, x, Peer(q))

HoldsOK(l) ==
    \A q \in Party : \A x \in held[q] \cup heldRow[q] : x.pos # NoPos /\ At(l, x, x.from)

TreesOK(l, sk) == ~sk => \A q \in Party : Grown(tree[q], l)

\* The invariant, regrouped.
LEMMA Regroup ==
    Inv <=> /\ TypeOK /\ GoodCopies(log, skewed) /\ FreshSends(skewed) /\ WitnessesOK(log)
            /\ HoldsOK(log) /\ TreesOK(log, skewed) /\ DrainedOK /\ AcksOK
  BY DEF Inv, PositionsOK, PositionsIn, OrderOK, GoodCopies, Good, FreshSends, WitnessesOK,
         HoldsOK, TreesOK

\* What is good stays good when a send is skewed.
LEMMA Weaken ==
    ASSUME Inv, skewed => skewed'
    PROVE  /\ GoodCopies(log, skewed') /\ FreshSends(skewed') /\ TreesOK(log, skewed')
  BY Regroup DEF GoodCopies, Good, FreshSends, TreesOK

\* A step that touches neither the log, the trees nor the holds keeps the invariant
\* if the copies it leaves are good and the acknowledgements it adds are true.
LEMMA QuietInv ==
    ASSUME Inv, TypeOK', log' = log, skewed => skewed',
           UNCHANGED <<tree, held, heldRow, hydrated, drained>>,
           GoodCopies(log, skewed)', FreshSends(skewed)', WitnessesOK(log)',
           \A q \in Party : screening'[q] # {} => hydrated[q] /\ drained[q],
           \A a \in ackw' : a \in ackw \/ (a.to \in Party /\ a.c \in Hashes(tree[Peer(a.to)])),
           \A q \in Party : acked'[q] \subseteq Hashes(tree[Peer(q)])
    PROVE  Inv'
  <1>1. HoldsOK(log)'
    BY Regroup DEF HoldsOK
  <1>2. TreesOK(log, skewed)'
    BY Weaken DEF TreesOK
  <1>3. DrainedOK'
    BY DEF DrainedOK
  <1>4. AcksOK'
    BY DEF AcksOK, AckedIsDurable, Inv
  <1> QED BY <1>1, <1>2, <1>3, <1>4, Regroup, PTL

\* Nothing of the screen, the acknowledgements or the record changes.
LEMMA SameRecord ==
    ASSUME Inv, UNCHANGED <<screening, acked, tree, hydrated, drained>>
    PROVE  /\ \A q \in Party : screening'[q] # {} => hydrated[q] /\ drained[q]
           /\ \A q \in Party : acked'[q] \subseteq Hashes(tree[Peer(q)])
  BY DEF Inv, DrainedOK, AcksOK, AckedIsDurable

\* SubmitUnreachable keeps the invariant.
LEMMA SubmitUnreachableInv ==
    ASSUME Inv, NEW p \in Party, NEW c \in Content, SubmitUnreachable(p, c)
    PROVE  Inv'
  <1> DEFINE o == [c |-> c, pos |-> NoPos, st |-> "ready"]
  <1>1. out' = [out EXCEPT ![p] = @ \cup {o}] /\ sends' = [sends EXCEPT ![c] = @ + 1]
        /\ skewed' = TRUE /\ faults' = faults + 1
    BY DEF SubmitUnreachable, MaySend, Fault
  <1>2. UNCHANGED <<log, leafq, mailbox, wire, ackw, heldVars, rows, acked, diverged, ordered,
                    awaiting, screening, counter, crashes, seen, told, orphaned>>
    BY DEF SubmitUnreachable, relayVars
  <1>3. o \in Sending /\ At(log, o, p)
    BY DEF Sending, At, NoPos
  <1> HIDE DEF o
  <1>4. TypeOK'
    <2>1. out' \in [Party -> SUBSET Sending] /\ sends' \in [Content -> Nat] /\ faults' \in Nat
      BY <1>1, <1>3 DEF Inv, TypeOK
    <2> QED BY <1>1, <1>2, <2>1 DEF Inv, TypeOK, heldVars
  <1>5. GoodCopies(log, skewed)'
    <2>1. \A q \in Party : \A x \in out'[q] : At(log, x, q)
      BY <1>1, <1>3, Regroup DEF Inv, TypeOK, GoodCopies, Good
    <2> QED BY <1>1, <1>2, <2>1, Weaken DEF GoodCopies, Good
  <1>6. FreshSends(skewed)' /\ WitnessesOK(log)'
    BY <1>1, <1>2, Regroup DEF FreshSends, WitnessesOK, heldVars
  <1> QED BY <1>1, <1>2, <1>4, <1>5, <1>6, SameRecord, QuietInv DEF heldVars

\* A send in progress changes its stage.
LEMMA StageFacts ==
    ASSUME Inv, NEW p \in Party, NEW o \in out[p], NEW n \in Sending,
           n.c = o.c, n.pos = o.pos, out' = [out EXCEPT ![p] = (@ \ {o}) \cup {n}],
           UNCHANGED <<tree, held, heldRow, skewed>>
    PROVE  /\ out' \in [Party -> SUBSET Sending]
           /\ \A q \in Party : \A x \in out'[q] : Good(log, skewed, x, q)
           /\ FreshSends(skewed)'
  <1>1. out' \in [Party -> SUBSET Sending]
    BY DEF Inv, TypeOK
  <1>2. out'[p] = (out[p] \ {o}) \cup {n} /\ \A q \in Party : q # p => out'[q] = out[q]
    BY DEF Inv, TypeOK
  <1>3. Good(log, skewed, o, p) /\ \A q \in Party : \A x \in out[q] : Good(log, skewed, x, q)
    BY Regroup DEF GoodCopies
  <1>4. Good(log, skewed, n, p)
    BY <1>3 DEF Good, At
  <1>5. \A q \in Party : \A x \in out'[q] : Good(log, skewed, x, q)
    BY <1>2, <1>3, <1>4
  <1>6. FreshSends(skewed)'
    <2> SUFFICES ASSUME ~skewed, NEW q \in Party
                 PROVE  /\ \A x \in out'[q] : Fresh(x.pos, Side(q)')
                        /\ \A x, y \in out'[q] : x.pos = y.pos => x = y
      BY DEF FreshSends
    <2>1. (\A x \in out[q] : Fresh(x.pos, Side(q)))
          /\ (\A x, y \in out[q] : x.pos = y.pos => x = y)
      BY Regroup DEF FreshSends
    <2>2. \A x \in out[q] : Fresh(x.pos, Side(q)')
      BY <2>1 DEF Fresh, Side
    <2>3. CASE q = p
      BY <1>2, <2>1, <2>2, <2>3
    <2>4. CASE q # p
      BY <1>2, <2>1, <2>2, <2>4
    <2> QED BY <2>3, <2>4
  <1> QED BY <1>1, <1>5, <1>6

\* SubmitAck keeps the invariant.
LEMMA SubmitAckInv ==
    ASSUME Inv, NEW p \in Party, NEW o \in out[p], SubmitAck(p, o)
    PROVE  Inv'
  <1> DEFINE n == [o EXCEPT !.st = "ready"]
             f == [c |-> o.c, pos |-> o.pos]
  <1>1. o \in Sending /\ n \in Sending /\ n.c = o.c /\ n.pos = o.pos /\ f \in Frame
    <2>1. o \in Sending
      BY DEF Inv, TypeOK
    <2> QED BY <2>1 DEF Sending, Frame
  <1>2. out' = [out EXCEPT ![p] = (@ \ {o}) \cup {n}]
        /\ ordered' = [ordered EXCEPT ![p] = PutHash(@, f)]
        /\ seen' = [seen EXCEPT ![p] = @ \cup {o.pos}]
    BY DEF SubmitAck
  <1>3. UNCHANGED <<log, leafq, mailbox, wire, ackw, heldVars, rows, acked, diverged,
                    awaiting, screening, counter, sends, faults, crashes, skewed, told, orphaned>>
    BY DEF SubmitAck, relayVars
  <1> HIDE DEF n, f
  <1>4. /\ out' \in [Party -> SUBSET Sending]
        /\ \A q \in Party : \A x \in out'[q] : Good(log, skewed, x, q)
        /\ FreshSends(skewed)'
    BY <1>1, <1>2, <1>3, StageFacts DEF heldVars
  <1>5. TypeOK'
    <2>1. ordered' \in [Party -> SUBSET Frame]
      BY <1>1, <1>2 DEF Inv, TypeOK, PutHash
    <2>2. seen' \in [Party -> SUBSET Nat]
      BY <1>1, <1>2 DEF Inv, TypeOK, Sending
    <2> QED BY <1>3, <1>4, <2>1, <2>2 DEF Inv, TypeOK, heldVars
  <1>6. GoodCopies(log, skewed)' /\ WitnessesOK(log)'
    BY <1>3, <1>4, Regroup DEF GoodCopies, WitnessesOK, heldVars
  <1> QED BY <1>3, <1>4, <1>5, <1>6, SameRecord, QuietInv DEF heldVars

\* SubmitTimeout keeps the invariant.
LEMMA SubmitTimeoutInv ==
    ASSUME Inv, NEW p \in Party, NEW o \in out[p], SubmitTimeout(p, o)
    PROVE  Inv'
  <1> DEFINE n == [o EXCEPT !.st = "ready", !.pos = NoPos]
  <1>1. n \in Sending /\ n.pos = NoPos
    <2>1. o \in Sending
      BY DEF Inv, TypeOK
    <2> QED BY <2>1 DEF Sending, NoPos
  <1>2. out' = [out EXCEPT ![p] = (@ \ {o}) \cup {n}] /\ skewed' = TRUE /\ faults' = faults + 1
    BY DEF SubmitTimeout, Fault
  <1>3. UNCHANGED <<log, leafq, mailbox, wire, ackw, heldVars, rows, acked, diverged, ordered,
                    awaiting, screening, counter, sends, crashes, seen, told, orphaned>>
    BY DEF SubmitTimeout, relayVars
  <1> HIDE DEF n
  <1>4. TypeOK'
    <2>1. out' \in [Party -> SUBSET Sending] /\ faults' \in Nat
      BY <1>1, <1>2 DEF Inv, TypeOK
    <2> QED BY <1>2, <1>3, <2>1 DEF Inv, TypeOK, heldVars
  <1>5. GoodCopies(log, skewed)'
    <2>1. \A q \in Party : \A x \in out'[q] : At(log, x, q)
      BY <1>1, <1>2, Regroup DEF Inv, TypeOK, GoodCopies, Good, At
    <2> QED BY <1>2, <1>3, <2>1, Weaken DEF GoodCopies, Good
  <1>6. FreshSends(skewed)' /\ WitnessesOK(log)'
    BY <1>2, <1>3, Regroup DEF FreshSends, WitnessesOK, heldVars
  <1> QED BY <1>2, <1>3, <1>4, <1>5, <1>6, SameRecord, QuietInv DEF heldVars

\* DirectSend keeps the invariant.
LEMMA DirectSendInv ==
    ASSUME Inv, NEW p \in Party, NEW o \in out[p], DirectSend(p, o)
    PROVE  Inv'
  <1> DEFINE n == [o EXCEPT !.st = "sent"]
             f == [to |-> Peer(p), c |-> o.c, pos |-> o.pos]
             g == [c |-> o.c, pos |-> o.pos]
  <1>1. o \in Sending /\ n \in Sending /\ n.c = o.c /\ n.pos = o.pos /\ g \in Frame
        /\ f \in [to : Party, c : Content, pos : Nat]
    <2>1. o \in Sending
      BY DEF Inv, TypeOK
    <2> QED BY <2>1, PeerFacts DEF Sending, Frame
  <1>2. out' = [out EXCEPT ![p] = (@ \ {o}) \cup {n}]
        /\ awaiting' = [awaiting EXCEPT ![p] = PutHash(@, g)]
        /\ wire' = wire \cup {f}
    BY DEF DirectSend
  <1>3. UNCHANGED <<log, leafq, mailbox, ackw, heldVars, rows, acked, diverged, ordered,
                    screening, counter, sends, faults, crashes, skewed, seen, orphaned, told>>
    BY DEF DirectSend, relayVars, histVars
  <1>4. Good(log, skewed, o, p)
    BY Regroup DEF GoodCopies
  <1>5. Good(log, skewed, f, Peer(f.to)) /\ Good(log, skewed, g, p)
    BY <1>4, PeerFacts DEF Good, At
  <1> HIDE DEF n, f, g
  <1>6. /\ out' \in [Party -> SUBSET Sending]
        /\ \A q \in Party : \A x \in out'[q] : Good(log, skewed, x, q)
        /\ FreshSends(skewed)'
    BY <1>1, <1>2, <1>3, StageFacts DEF heldVars
  <1>7. TypeOK'
    <2>1. awaiting' \in [Party -> SUBSET Frame]
      BY <1>1, <1>2 DEF Inv, TypeOK, PutHash
    <2>2. wire' \subseteq [to : Party, c : Content, pos : Nat]
      BY <1>1, <1>2 DEF Inv, TypeOK
    <2> QED BY <1>3, <1>6, <2>1, <2>2 DEF Inv, TypeOK, heldVars
  <1>8. GoodCopies(log, skewed)' /\ WitnessesOK(log)'
    <2>1. \A q \in Party : \A x \in awaiting'[q] : Good(log, skewed, x, q)
      BY <1>2, <1>5, Regroup DEF GoodCopies, PutHash, Inv, TypeOK
    <2> QED BY <1>2, <1>3, <1>5, <1>6, <2>1, Regroup DEF GoodCopies, WitnessesOK, heldVars
  <1> QED BY <1>3, <1>6, <1>7, <1>8, SameRecord, QuietInv DEF heldVars

\* ParkContent keeps the invariant.
LEMMA ParkContentInv ==
    ASSUME Inv, NEW p \in Party, NEW o \in out[p], ParkContent(p, o)
    PROVE  Inv'
  <1> DEFINE n == [o EXCEPT !.st = "sent"]
             f == [to |-> Peer(p), c |-> o.c, pos |-> o.pos]
             g == [c |-> o.c, pos |-> o.pos]
  <1>1. o \in Sending /\ n \in Sending /\ n.c = o.c /\ n.pos = o.pos /\ g \in Frame
        /\ f \in [to : Party, c : Content, pos : Nat]
    <2>1. o \in Sending
      BY DEF Inv, TypeOK
    <2> QED BY <2>1, PeerFacts DEF Sending, Frame
  <1>2. out' = [out EXCEPT ![p] = (@ \ {o}) \cup {n}]
        /\ awaiting' = [awaiting EXCEPT ![p] = DropHash(@, o.c)]
        /\ mailbox' = [mailbox EXCEPT ![Peer(p)] = @ \cup {g}]
        /\ wire' \subseteq wire \cup {f} /\ faults' \in {faults, faults + 1}
    BY DEF ParkContent, Fault
  <1>3. UNCHANGED <<log, leafq, ackw, heldVars, rows, acked, diverged, ordered,
                    screening, counter, sends, crashes, skewed, seen, orphaned, told>>
    BY DEF ParkContent, relayVars
  <1>4. Good(log, skewed, o, p)
    BY Regroup DEF GoodCopies
  <1>5. Good(log, skewed, f, Peer(f.to)) /\ Good(log, skewed, g, p)
    BY <1>4, PeerFacts DEF Good, At
  <1> HIDE DEF n, f, g
  <1>6. /\ out' \in [Party -> SUBSET Sending]
        /\ \A q \in Party : \A x \in out'[q] : Good(log, skewed, x, q)
        /\ FreshSends(skewed)'
    BY <1>1, <1>2, <1>3, StageFacts DEF heldVars
  <1>7. TypeOK'
    <2>1. awaiting' \in [Party -> SUBSET Frame] /\ faults' \in Nat
      BY <1>2 DEF Inv, TypeOK, DropHash
    <2>2. wire' \subseteq [to : Party, c : Content, pos : Nat]
      BY <1>1, <1>2 DEF Inv, TypeOK
    <2>3. mailbox' \in [Party -> SUBSET Frame]
      BY <1>1, <1>2, PeerFacts DEF Inv, TypeOK
    <2> QED BY <1>3, <1>6, <2>1, <2>2, <2>3 DEF Inv, TypeOK, heldVars
  <1>8. GoodCopies(log, skewed)' /\ WitnessesOK(log)'
    <2>1. \A q \in Party : \A x \in awaiting'[q] : Good(log, skewed, x, q)
      BY <1>2, Regroup DEF GoodCopies, DropHash, Inv, TypeOK
    <2>2. \A q \in Party : \A x \in mailbox'[q] : Good(log, skewed, x, Peer(q))
      BY <1>2, <1>5, PeerFacts, Regroup DEF GoodCopies, Inv, TypeOK
    <2> QED BY <1>2, <1>3, <1>5, <1>6, <2>1, <2>2, Regroup DEF GoodCopies, WitnessesOK, heldVars
  <1> QED BY <1>3, <1>6, <1>7, <1>8, SameRecord, QuietInv DEF heldVars

\* Nothing of a send in progress changes.
LEMMA SameSends ==
    ASSUME Inv, UNCHANGED <<out, tree, held, heldRow, skewed>>
    PROVE  FreshSends(skewed)'
  BY Regroup DEF FreshSends, Fresh, Side

\* Losing a frame, an acknowledgement or a forwarded leaf keeps the invariant.
LEMMA LossInv ==
    ASSUME Inv, \/ \E f \in wire : LoseFrame(f)
                \/ \E a \in ackw : LoseAck(a)
                \/ \E p \in Party : LoseLeaf(p)
    PROVE  Inv'
  <1>1. /\ wire' \subseteq wire /\ ackw' \subseteq ackw /\ faults' = faults + 1
        /\ leafq' = leafq \/ \E p \in Party : leafq[p] # << >> /\ leafq' = [leafq EXCEPT ![p] = Tail(@)]
    BY DEF LoseFrame, LoseAck, LoseLeaf, Fault, relayVars
  <1>2. UNCHANGED <<log, mailbox, heldVars, rows, acked, awaiting, screening, counter,
                    out, ordered, diverged, told, sends, crashes, skewed, seen, orphaned>>
    BY DEF LoseFrame, LoseAck, LoseLeaf, relayVars, sendVars
  <1>3. leafq' \in [Party -> Seq(Nat)] /\ WitnessesOK(log)'
    <2>1. WitnessesOK(log) /\ leafq \in [Party -> Seq(Nat)]
      BY Regroup DEF TypeOK
    <2>2. CASE leafq' = leafq
      BY <1>2, <2>1, <2>2 DEF WitnessesOK, heldVars
    <2>3. ASSUME NEW p \in Party, leafq[p] # << >>, leafq' = [leafq EXCEPT ![p] = Tail(@)]
          PROVE  leafq' \in [Party -> Seq(Nat)] /\ WitnessesOK(log)'
      <3>1. leafq[p] \in Seq(Nat) /\ Tail(leafq[p]) \in Seq(Nat)
            /\ \A i \in 1..Len(Tail(leafq[p])) :
                  i + 1 \in 1..Len(leafq[p]) /\ Tail(leafq[p])[i] = leafq[p][i + 1]
        BY <2>1, <2>3
      <3>2. leafq' \in [Party -> Seq(Nat)] /\ leafq'[p] = Tail(leafq[p])
            /\ \A q \in Party : q # p => leafq'[q] = leafq[q]
        BY <2>1, <2>3, <3>1
      <3>3. \A i \in 1..Len(leafq'[p]) :
                leafq'[p][i] \in 1..Len(log) /\ log[leafq'[p][i]].from = Peer(p)
        BY <2>1, <3>1, <3>2 DEF WitnessesOK
      <3> QED BY <1>2, <2>1, <3>2, <3>3 DEF WitnessesOK, heldVars
    <2> QED BY <1>1, <2>2, <2>3
  <1>4. TypeOK'
    BY <1>1, <1>2, <1>3 DEF Inv, TypeOK, heldVars
  <1>5. GoodCopies(log, skewed)'
    BY <1>1, <1>2, Regroup DEF GoodCopies
  <1>6. FreshSends(skewed)'
    BY <1>2, SameSends DEF heldVars
  <1> QED BY <1>1, <1>2, <1>3, <1>4, <1>5, <1>6, SameRecord, QuietInv DEF heldVars

\* TtfExpiry keeps the invariant.
LEMMA TtfExpiryInv ==
    ASSUME Inv, NEW p \in Party, NEW x \in awaiting[p], TtfExpiry(p, x)
    PROVE  Inv'
  <1>1. x \in Frame /\ Good(log, skewed, x, p)
    BY Regroup DEF TypeOK, GoodCopies
  <1>2. /\ awaiting' = [awaiting EXCEPT ![p] = @ \ {x}]
        /\ \E R \in SUBSET (rows[p] \cup {x}) : rows' = [rows EXCEPT ![p] = R]
        /\ mailbox' = mailbox \/ mailbox' = [mailbox EXCEPT ![Peer(p)] = @ \cup {x}]
        /\ faults' \in {faults, faults + 1}
    BY DEF TtfExpiry, Fault
  <1>3. UNCHANGED <<log, leafq, wire, ackw, heldVars, acked, screening, counter,
                    out, ordered, diverged, told, sends, crashes, skewed, seen, orphaned>>
    BY DEF TtfExpiry, relayVars, sendVars
  <1>4. TypeOK'
    <2>1. awaiting' \in [Party -> SUBSET Frame] /\ rows' \in [Party -> SUBSET Frame]
          /\ faults' \in Nat
      BY <1>1, <1>2 DEF Inv, TypeOK
    <2>2. mailbox' \in [Party -> SUBSET Frame]
      <3>1. CASE mailbox' = mailbox
        BY <3>1 DEF Inv, TypeOK
      <3>2. CASE mailbox' = [mailbox EXCEPT ![Peer(p)] = @ \cup {x}]
        BY <1>1, <3>2, PeerFacts DEF Inv, TypeOK
      <3> QED BY <1>2, <3>1, <3>2
    <2> QED BY <1>3, <2>1, <2>2 DEF Inv, TypeOK, heldVars
  <1>5. GoodCopies(log, skewed)'
    <2>1. \A q \in Party : \A y \in awaiting'[q] \cup rows'[q] : Good(log, skewed, y, q)
      BY <1>1, <1>2, Regroup DEF GoodCopies, TypeOK
    <2>2. \A q \in Party : \A y \in mailbox'[q] : Good(log, skewed, y, Peer(q))
      <3>1. CASE mailbox' = mailbox
        BY <3>1, Regroup DEF GoodCopies
      <3>2. CASE mailbox' = [mailbox EXCEPT ![Peer(p)] = @ \cup {x}]
        BY <1>1, <3>2, PeerFacts, Regroup DEF GoodCopies, TypeOK
      <3> QED BY <1>2, <3>1, <3>2
    <2> QED BY <1>3, <2>1, <2>2, Regroup DEF GoodCopies
  <1>6. FreshSends(skewed)' /\ WitnessesOK(log)'
    BY <1>3, SameSends, Regroup DEF heldVars, WitnessesOK
  <1> QED BY <1>3, <1>4, <1>5, <1>6, SameRecord, QuietInv DEF heldVars

\* FlushAwaiting keeps the invariant.
LEMMA FlushAwaitingInv ==
    ASSUME Inv, NEW p \in Party, NEW x \in rows[p], FlushAwaiting(p, x)
    PROVE  Inv'
  <1>1. x \in Frame /\ Good(log, skewed, x, p)
    BY Regroup DEF TypeOK, GoodCopies
  <1>2. /\ rows' = [rows EXCEPT ![p] = DropHash(@, x.c)]
        /\ mailbox' = [mailbox EXCEPT ![Peer(p)] = @ \cup {x}]
    BY DEF FlushAwaiting
  <1>3. UNCHANGED <<log, leafq, wire, ackw, heldVars, acked, awaiting, screening, counter, out,
                    ordered, diverged, told, sends, faults, crashes, skewed, seen, orphaned>>
    BY DEF FlushAwaiting, relayVars, sendVars, histVars
  <1>4. TypeOK'
    <2>1. rows' \in [Party -> SUBSET Frame]
      BY <1>2 DEF Inv, TypeOK, DropHash
    <2>2. mailbox' \in [Party -> SUBSET Frame]
      BY <1>1, <1>2, PeerFacts DEF Inv, TypeOK
    <2> QED BY <1>3, <2>1, <2>2 DEF Inv, TypeOK, heldVars
  <1>5. GoodCopies(log, skewed)'
    <2>1. \A q \in Party : \A y \in rows'[q] : Good(log, skewed, y, q)
      BY <1>2, Regroup DEF GoodCopies, TypeOK, DropHash
    <2>2. \A q \in Party : \A y \in mailbox'[q] : Good(log, skewed, y, Peer(q))
      BY <1>1, <1>2, PeerFacts, Regroup DEF GoodCopies, TypeOK
    <2> QED BY <1>3, <2>1, <2>2, Regroup DEF GoodCopies
  <1>6. FreshSends(skewed)' /\ WitnessesOK(log)'
    BY <1>3, SameSends, Regroup DEF heldVars, WitnessesOK
  <1> QED BY <1>3, <1>4, <1>5, <1>6, SameRecord, QuietInv DEF heldVars

\* An acknowledgement that is recorded was true on the wire.
LEMMA DeliveryAckInv ==
    ASSUME Inv, NEW p \in Party, NEW a \in ackw, DeliveryAck(p, a)
    PROVE  Inv'
  <1>1. a.to = p /\ a.c \in Content /\ a.c \in Hashes(tree[Peer(p)])
    BY DEF DeliveryAck, Inv, TypeOK, AcksOK
  <1>2. /\ ackw' \subseteq ackw
        /\ \E A \in SUBSET (acked[p] \cup {a.c}) : acked' = [acked EXCEPT ![p] = A]
        /\ \E W \in SUBSET awaiting[p] : awaiting' = [awaiting EXCEPT ![p] = W]
        /\ \E R \in SUBSET rows[p] : rows' = [rows EXCEPT ![p] = R]
    BY DEF DeliveryAck, DropHash
  <1>3. UNCHANGED <<log, leafq, mailbox, wire, heldVars, screening, counter, out, ordered,
                    diverged, told, sends, faults, crashes, skewed, seen, orphaned>>
    BY DEF DeliveryAck, relayVars, sendVars, histVars
  <1>4. TypeOK'
    <2>1. rows' \in [Party -> SUBSET Frame] /\ awaiting' \in [Party -> SUBSET Frame]
      BY <1>2 DEF Inv, TypeOK
    <2>2. acked' \in [Party -> SUBSET Content]
      BY <1>1, <1>2 DEF Inv, TypeOK
    <2> QED BY <1>2, <1>3, <2>1, <2>2 DEF Inv, TypeOK, heldVars
  <1>5. GoodCopies(log, skewed)'
    <2>1. \A q \in Party : \A y \in awaiting'[q] \cup rows'[q] : Good(log, skewed, y, q)
      BY <1>2, Regroup DEF GoodCopies, TypeOK
    <2> QED BY <1>3, <2>1, Regroup DEF GoodCopies
  <1>6. FreshSends(skewed)' /\ WitnessesOK(log)'
    BY <1>3, SameSends, Regroup DEF heldVars, WitnessesOK
  <1>7. \A q \in Party : acked'[q] \subseteq Hashes(tree[Peer(q)])
    BY <1>1, <1>2 DEF Inv, AcksOK, AckedIsDurable, TypeOK
  <1>8. \A q \in Party : screening'[q] # {} => hydrated[q] /\ drained[q]
    BY <1>3 DEF Inv, DrainedOK
  <1> QED BY <1>2, <1>3, <1>4, <1>5, <1>6, <1>7, <1>8, QuietInv DEF heldVars

\* LeafDeliver keeps the invariant.
LEMMA LeafDeliverInv ==
    ASSUME Inv, NEW p \in Party, LeafDeliver(p)
    PROVE  Inv'
  <1> DEFINE k == Head(leafq[p])
             w == [c |-> log[k].c, pos |-> k]
  <1>1. leafq[p] \in Seq(Nat) /\ leafq[p] # << >> /\ leafq \in [Party -> Seq(Nat)]
        /\ log \in Seq(Leaf) /\ witnessed \in [Party -> SUBSET Frame]
    BY DEF LeafDeliver, Inv, TypeOK
  <1>2. k \in 1..Len(log) /\ log[k].from = Peer(p) /\ k \in Nat
    <2>1. 1 \in 1..Len(leafq[p]) /\ k = leafq[p][1]
      BY <1>1
    <2>2. leafq[p][1] \in 1..Len(log) /\ log[leafq[p][1]].from = Peer(p)
      BY <2>1, Regroup DEF WitnessesOK
    <2> QED BY <1>1, <2>1, <2>2
  <1>3. w \in Frame /\ At(log, w, Peer(p))
    <2>1. log[k] \in Leaf
      BY <1>1, <1>2
    <2> QED BY <1>2, <2>1 DEF Leaf, Frame, At
  <1>4. /\ leafq' = [leafq EXCEPT ![p] = Tail(@)]
        /\ seen' = [seen EXCEPT ![p] = @ \cup {k}]
        /\ witnessed' = witnessed \/ witnessed' = [witnessed EXCEPT ![p] = PutHash(@, w)]
    BY DEF LeafDeliver
  <1>5. UNCHANGED <<log, mailbox, wire, ackw, tree, heldRow, held, hydrated, drained, annex, rows,
                    acked, awaiting, screening, counter, out, ordered, diverged, told, sends,
                    faults, crashes, skewed, orphaned>>
    BY DEF LeafDeliver, sendVars
  <1> HIDE DEF w
  <1>6. witnessed' \in [Party -> SUBSET Frame]
        /\ \A q \in Party : \A x \in witnessed'[q] : At(log, x, Peer(q))
    <2>1. CASE witnessed' = witnessed
      BY <1>1, <2>1, Regroup DEF WitnessesOK
    <2>2. CASE witnessed' = [witnessed EXCEPT ![p] = PutHash(@, w)]
      BY <1>1, <1>3, <2>2, Regroup DEF WitnessesOK, PutHash
    <2> QED BY <1>4, <2>1, <2>2
  <1>7. leafq' \in [Party -> Seq(Nat)] /\ WitnessesOK(log)'
    <2>1. Tail(leafq[p]) \in Seq(Nat)
          /\ \A i \in 1..Len(Tail(leafq[p])) :
                i + 1 \in 1..Len(leafq[p]) /\ Tail(leafq[p])[i] = leafq[p][i + 1]
      BY <1>1
    <2>2. leafq' \in [Party -> Seq(Nat)] /\ leafq'[p] = Tail(leafq[p])
          /\ \A q \in Party : q # p => leafq'[q] = leafq[q]
      BY <1>1, <1>4, <2>1
    <2>3. \A i \in 1..Len(leafq'[p]) :
              leafq'[p][i] \in 1..Len(log) /\ log[leafq'[p][i]].from = Peer(p)
      BY <2>1, <2>2, Regroup DEF WitnessesOK
    <2> QED BY <1>5, <1>6, <2>2, <2>3, Regroup DEF WitnessesOK
  <1>8. TypeOK'
    <2>1. seen' \in [Party -> SUBSET Nat]
      BY <1>2, <1>4 DEF Inv, TypeOK
    <2> QED BY <1>5, <1>6, <1>7, <2>1 DEF Inv, TypeOK
  <1>9. GoodCopies(log, skewed)' /\ FreshSends(skewed)'
    BY <1>5, SameSends, Regroup DEF GoodCopies
  <1> QED BY <1>5, <1>7, <1>8, <1>9, SameRecord, QuietInv

\* The relay's log grows by a leaf of the counterparty.
LEMMA CounterSubmitInv ==
    ASSUME Inv, NEW p \in Party, NEW c \in counter[p], CounterSubmit(p, c)
    PROVE  Inv'
  <1> DEFINE b == [from |-> Peer(p), c |-> c]
  <1>1. log \in Seq(Leaf) /\ b \in Leaf
    BY PeerFacts DEF Inv, TypeOK, Leaf
  <1>2. log' = log \/ log' = Append(log, b)
    BY DEF CounterSubmit
  <1>3. counter' = [counter EXCEPT ![p] = @ \ {c}]
        /\ UNCHANGED <<leafq, mailbox, wire, ackw, heldVars, rows, acked, awaiting, screening, out,
                       ordered, diverged, told, sends, faults, crashes, skewed, seen, orphaned>>
    BY DEF CounterSubmit, sendVars, histVars
  <1> HIDE DEF b
  <1>4. log' \in Seq(Leaf) /\ Grown(log, log')
    <2>1. CASE log' = log
      BY <1>1, <2>1, GrownRefl
    <2>2. CASE log' = Append(log, b)
      BY <1>1, <2>2, AppendGrown
    <2> QED BY <1>2, <2>1, <2>2
  <1>5. TypeOK'
    <2>1. counter' \in [Party -> SUBSET Content]
      BY <1>3 DEF Inv, TypeOK
    <2> QED BY <1>3, <1>4, <2>1 DEF Inv, TypeOK, heldVars
  <1>6. PositionsOK'
    <2>1. PositionsIn(log')
      BY <1>4, PositionsGrown DEF Inv
    <2> QED BY <1>3, <2>1 DEF PositionsOK, PositionsIn, heldVars
  <1>7. OrderOK'
    <2>1. \A q \in Party : ~skewed => Grown(tree'[q], log')
      BY <1>1, <1>3, <1>4, GrownTrans DEF Inv, OrderOK, TypeOK, heldVars
    <2>2. \A q \in Party : Side(q)' = Side(q)
      BY <1>3 DEF Side, heldVars
    <2> QED BY <1>3, <2>1, <2>2 DEF Inv, OrderOK
  <1>8. DrainedOK' /\ AcksOK'
    BY <1>3 DEF Inv, DrainedOK, AcksOK, AckedIsDurable, heldVars
  <1> QED BY <1>5, <1>6, <1>7, <1>8 DEF Inv

-----------------------------------------------------------------------------
(* Steps that change a record.                                             *)

\* A side written back keeps the invariant if its tree is right, its sends in progress
\* are still unplaced and a new acknowledgement is of a leaf it has.
LEMMA RecordInv ==
    ASSUME Inv, TypeOK', UNCHANGED <<log, skewed, leafq, acked>>,
           NEW p \in Party, NEW z, SideOK(log, z), Grown(tree[p], z.t),
           z.w \subseteq witnessed[p], Commit(p, z),
           ~skewed => Grown(z.t, log),
           GoodCopies(log, skewed)',
           \A q \in Party : out'[q] \subseteq out[q],
           ~skewed => \A x \in out'[p] : Fresh(x.pos, z),
           \A a \in ackw' : a \in ackw \/ (a.to = Peer(p) /\ a.c \in Hashes(z.t)),
           \A q \in Party : q # p => screening'[q] = screening[q]
    PROVE  Inv'
  <1>1. TypeOK /\ PositionsOK
    BY DEF Inv
  <1>2. /\ hydrated'[p] /\ drained'[p] /\ tree'[p] = z.t /\ Side(p)' = z
        /\ \A q \in Party : q # p => /\ hydrated'[q] = hydrated[q] /\ drained'[q] = drained[q]
                                    /\ tree'[q] = tree[q] /\ Side(q)' = Side(q)
        /\ \A q \in Party : Hashes(tree[q]) \subseteq Hashes(tree'[q])
        /\ \A q \in Party : \A x \in witnessed'[q] : At(log', x, Peer(q))
        /\ \A q \in Party : \A x \in held'[q] \cup heldRow'[q] : x.pos # NoPos /\ At(log', x, x.from)
    BY <1>1, CommitFacts
  <1>3. WitnessesOK(log)' /\ HoldsOK(log)'
    BY <1>2, Regroup DEF WitnessesOK, HoldsOK
  <1>4. TreesOK(log, skewed)'
    BY <1>2, Regroup DEF TreesOK
  <1>5. FreshSends(skewed)'
    <2> SUFFICES ASSUME ~skewed, NEW q \in Party
                 PROVE  /\ \A x \in out'[q] : Fresh(x.pos, Side(q)')
                        /\ \A x, y \in out'[q] : x.pos = y.pos => x = y
      BY DEF FreshSends
    <2>1. (\A x \in out[q] : Fresh(x.pos, Side(q)))
          /\ (\A x, y \in out[q] : x.pos = y.pos => x = y)
      BY Regroup DEF FreshSends
    <2>2. CASE q = p
      BY <1>2, <2>1, <2>2
    <2>3. CASE q # p
      BY <1>2, <2>1, <2>3
    <2> QED BY <2>2, <2>3
  <1>6. DrainedOK'
    BY <1>2 DEF Inv, DrainedOK
  <1>7. AcksOK'
    <2>1. \A a \in ackw' : a.to \in Party
      BY DEF TypeOK
    <2>2. \A a \in ackw' : a.c \in Hashes(tree'[Peer(a.to)])
      <3>1. \A a \in ackw : a.c \in Hashes(tree[Peer(a.to)])
        BY DEF Inv, AcksOK
      <3> QED BY <1>2, <2>1, <3>1, PeerFacts
    <2>3. \A q \in Party : acked'[q] \subseteq Hashes(tree'[Peer(q)])
      BY <1>2, PeerFacts DEF Inv, AcksOK, AckedIsDurable
    <2> QED BY <2>2, <2>3 DEF AcksOK, AckedIsDurable
  <1> QED BY <1>3, <1>4, <1>5, <1>6, <1>7, Regroup, PTL

\* placeOwnLeaf for a send in progress.
LEMMA PlaceOwnFacts ==
    ASSUME Inv, NEW p \in Party, NEW o \in out[p], PlaceOwnLeaf(p, o.c, o.pos),
           out' = [out EXCEPT ![p] = @ \ {o}]
    PROVE  \E z : /\ SideOK(log, z) /\ Grown(tree[p], z.t) /\ z.w \subseteq witnessed[p]
                  /\ Commit(p, z) /\ (~skewed => Grown(z.t, log))
                  /\ (~skewed => \A x \in out'[p] : Fresh(x.pos, z))
  <1> DEFINE s == EnsureHeldRestored(p)
             z == PlaceAt(p, s, o.c, o.pos)
  <1>1. TypeOK /\ PositionsOK /\ log \in Seq(Leaf) /\ tree[p] \in Seq(Leaf)
    BY DEF Inv, TypeOK
  <1>2. /\ SideOK(log, s) /\ Grown(tree[p], s.t) /\ s.w \subseteq witnessed[p]
        /\ (Grown(tree[p], log) => Grown(s.t, log))
        /\ \A k \in Nat : Fresh(k, Side(p)) => Fresh(k, s)
    BY <1>1, EnsureFacts
  <1>3. Commit(p, z)
    BY DEF PlaceOwnLeaf
  <1>4. o.c \in Content /\ o.pos \in Nat /\ \A x \in out[p] : x.pos \in Nat
    BY DEF Inv, TypeOK, Sending
  <1>5. o.pos # NoPos => o.pos \in 1..Len(log) /\ log[o.pos] = [from |-> p, c |-> o.c]
    BY Regroup DEF GoodCopies, Good, At
  <1> HIDE DEF s
  <1>6. /\ SideOK(log, z) /\ Grown(s.t, z.t) /\ z.w = s.w
        /\ (o.pos # NoPos /\ Fresh(o.pos, s) /\ Grown(s.t, log) => Grown(z.t, log))
        /\ \A k \in Nat : Fresh(o.pos, s) /\ k # o.pos /\ Fresh(k, s) => Fresh(k, z)
    BY <1>1, <1>2, <1>4, <1>5, PlaceFacts
  <1> HIDE DEF z
  <1>7. Grown(tree[p], z.t) /\ z.w \subseteq witnessed[p]
    <2>1. s.t \in Seq(Leaf) /\ z.t \in Seq(Leaf)
      BY <1>2, <1>6 DEF SideOK, SideType
    <2> QED BY <1>1, <1>2, <1>6, <2>1, GrownTrans
  <1>8. ASSUME ~skewed PROVE Grown(z.t, log) /\ \A x \in out'[p] : Fresh(x.pos, z)
    <2>1. Grown(tree[p], log) /\ o.pos # NoPos /\ (\A x \in out[p] : Fresh(x.pos, Side(p)))
          /\ \A x, y \in out[p] : x.pos = y.pos => x = y
      BY <1>8, Regroup DEF TreesOK, GoodCopies, Good, FreshSends
    <2>2. \A x \in out[p] : Fresh(x.pos, s)
      BY <1>2, <1>4, <2>1
    <2>3. out'[p] = out[p] \ {o}
      BY DEF Inv, TypeOK
    <2> QED BY <1>2, <1>4, <1>6, <2>1, <2>2, <2>3
  <1> QED BY <1>3, <1>6, <1>7, <1>8

\* FinishSend keeps the invariant.
LEMMA FinishSendInv ==
    ASSUME Inv, NEW p \in Party, NEW o \in out[p], FinishSend(p, o)
    PROVE  Inv'
  <1>1. out' = [out EXCEPT ![p] = @ \ {o}] /\ PlaceOwnLeaf(p, o.c, o.pos)
    BY DEF FinishSend
  <1>2. /\ \E D \in BOOLEAN : diverged' = [diverged EXCEPT ![p] = D]
        /\ ordered' = [ordered EXCEPT ![p] = DropHash(@, o.c)]
        /\ told' = [told EXCEPT ![p] = @ \cup {o.c}]
    BY <1>1 DEF PlaceOwnLeaf, Inv, TypeOK
  <1>3. UNCHANGED <<log, leafq, mailbox, wire, ackw, rows, acked, awaiting, screening, counter,
                    sends, faults, crashes, skewed, seen, orphaned>>
    BY DEF FinishSend, relayVars, histVars
  <1>4. PICK z : /\ SideOK(log, z) /\ Grown(tree[p], z.t) /\ z.w \subseteq witnessed[p]
                 /\ Commit(p, z) /\ (~skewed => Grown(z.t, log))
                 /\ (~skewed => \A x \in out'[p] : Fresh(x.pos, z))
    BY <1>1, PlaceOwnFacts
  <1>5. /\ tree' \in [Party -> Seq(Leaf)]
        /\ heldRow' \in [Party -> SUBSET HeldRec] /\ held' \in [Party -> SUBSET HeldRec]
        /\ witnessed' \in [Party -> SUBSET Frame] /\ annex' \in [Party -> SUBSET Content]
        /\ hydrated' \in [Party -> BOOLEAN] /\ drained' \in [Party -> BOOLEAN]
    BY <1>3, <1>4, CommitFacts DEF Inv
  <1>6. (\A q \in Party : out'[q] \subseteq out[q]) /\ out' \in [Party -> SUBSET Sending]
    BY <1>1 DEF Inv, TypeOK
  <1>7. TypeOK'
    <2>1. diverged' \in [Party -> BOOLEAN]
      BY <1>2 DEF Inv, TypeOK
    <2>2. ordered' \in [Party -> SUBSET Frame]
      BY <1>2 DEF Inv, TypeOK, DropHash
    <2>3. told' \in [Party -> SUBSET Content]
      <3>1. o.c \in Content
        BY DEF Inv, TypeOK, Sending
      <3> QED BY <1>2, <3>1 DEF Inv, TypeOK
    <2> QED BY <1>3, <1>5, <1>6, <2>1, <2>2, <2>3 DEF Inv, TypeOK
  <1>8. GoodCopies(log, skewed)'
    BY <1>3, <1>6, Regroup DEF GoodCopies
  <1> QED BY <1>3, <1>4, <1>6, <1>7, <1>8, RecordInv

\* ParkRefused keeps the invariant.
LEMMA ParkRefusedInv ==
    ASSUME Inv, NEW p \in Party, NEW o \in out[p], ParkRefused(p, o)
    PROVE  Inv'
  <1> DEFINE f == [to |-> Peer(p), c |-> o.c, pos |-> o.pos]
             g == [c |-> o.c, pos |-> o.pos]
  <1>1. o.c \in Content /\ g \in Frame /\ f \in [to : Party, c : Content, pos : Nat]
    <2>1. o \in Sending
      BY DEF Inv, TypeOK
    <2> QED BY <2>1, PeerFacts DEF Sending, Frame
  <1>2. Good(log, skewed, o, p)
    BY Regroup DEF GoodCopies
  <1>3. Good(log, skewed, f, Peer(f.to)) /\ Good(log, skewed, g, p)
    BY <1>2, PeerFacts DEF Good, At
  <1>4. /\ wire' \subseteq wire \cup {f} /\ faults' = faults + 1
        /\ awaiting' = [awaiting EXCEPT ![p] = DropHash(@, o.c)]
        /\ \E R \in SUBSET (rows[p] \cup {g}) : rows' = [rows EXCEPT ![p] = R]
        /\ out' = [out EXCEPT ![p] = @ \ {o}]
    BY DEF ParkRefused, Fault
  <1>5. UNCHANGED <<log, leafq, mailbox, ackw, acked, screening, counter, sends, crashes, skewed,
                    seen, orphaned>>
    BY DEF ParkRefused, relayVars
  <1>6. ordered' = [ordered EXCEPT ![p] = DropHash(@, o.c)]
    BY DEF ParkRefused, PlaceOwnLeaf
  <1>7. PlaceOwnLeaf(p, o.c, o.pos) \/ UNCHANGED <<heldVars, diverged, told>>
    BY DEF ParkRefused
  <1> HIDE DEF f, g
  <1>8. /\ out' \in [Party -> SUBSET Sending] /\ \A q \in Party : out'[q] \subseteq out[q]
    BY <1>4 DEF Inv, TypeOK
  <1>9. /\ wire' \subseteq [to : Party, c : Content, pos : Nat] /\ faults' \in Nat
        /\ awaiting' \in [Party -> SUBSET Frame] /\ rows' \in [Party -> SUBSET Frame]
        /\ ordered' \in [Party -> SUBSET Frame]
    BY <1>1, <1>4, <1>6 DEF Inv, TypeOK, DropHash
  <1>10. GoodCopies(log, skewed)'
    <2>1. \A q \in Party : \A x \in awaiting'[q] : Good(log, skewed, x, q)
      BY <1>4, Regroup DEF GoodCopies, DropHash, TypeOK
    <2>2. \A q \in Party : \A x \in rows'[q] : Good(log, skewed, x, q)
      BY <1>3, <1>4, Regroup DEF GoodCopies, TypeOK
    <2> QED BY <1>3, <1>4, <1>5, <1>8, <2>1, <2>2, Regroup DEF GoodCopies
  <1>11. CASE PlaceOwnLeaf(p, o.c, o.pos)
    <2>1. PICK z : /\ SideOK(log, z) /\ Grown(tree[p], z.t) /\ z.w \subseteq witnessed[p]
                   /\ Commit(p, z) /\ (~skewed => Grown(z.t, log))
                   /\ (~skewed => \A x \in out'[p] : Fresh(x.pos, z))
      BY <1>4, <1>11, PlaceOwnFacts
    <2>2. /\ tree' \in [Party -> Seq(Leaf)]
          /\ heldRow' \in [Party -> SUBSET HeldRec] /\ held' \in [Party -> SUBSET HeldRec]
          /\ witnessed' \in [Party -> SUBSET Frame] /\ annex' \in [Party -> SUBSET Content]
          /\ hydrated' \in [Party -> BOOLEAN] /\ drained' \in [Party -> BOOLEAN]
      BY <1>5, <2>1, CommitFacts DEF Inv
    <2>3. diverged' \in [Party -> BOOLEAN]
      BY <1>11 DEF PlaceOwnLeaf, Inv, TypeOK
    <2>4. told' \in [Party -> SUBSET Content]
      BY <1>1, <1>11 DEF PlaceOwnLeaf, Inv, TypeOK
    <2>5. TypeOK'
      BY <1>5, <1>8, <1>9, <2>2, <2>3, <2>4 DEF Inv, TypeOK
    <2> QED BY <1>5, <1>8, <1>10, <2>1, <2>5, RecordInv
  <1>12. CASE UNCHANGED <<heldVars, diverged, told>>
    <2>1. TypeOK'
      BY <1>5, <1>8, <1>9, <1>12 DEF Inv, TypeOK, heldVars
    <2>2. FreshSends(skewed)' /\ WitnessesOK(log)'
      <3>1. \A q \in Party : Side(q)' = Side(q)
        BY <1>12 DEF Side, heldVars
      <3> QED BY <1>5, <1>8, <1>12, <3>1, Regroup DEF FreshSends, WitnessesOK, heldVars
    <2> QED BY <1>5, <1>10, <1>12, <2>1, <2>2, SameRecord, QuietInv DEF heldVars
  <1> QED BY <1>7, <1>11, <1>12

\* ensureHeldRestored, written back on arrival of a frame.
LEMMA ArrivalFacts ==
    ASSUME Inv, NEW p \in Party, Commit(p, EnsureHeldRestored(p)), out' = out
    PROVE  \E z : /\ SideOK(log, z) /\ Grown(tree[p], z.t) /\ z.w \subseteq witnessed[p]
                  /\ Commit(p, z) /\ (~skewed => Grown(z.t, log))
                  /\ (~skewed => \A x \in out'[p] : Fresh(x.pos, z))
  <1> DEFINE s == EnsureHeldRestored(p)
  <1>1. /\ SideOK(log, s) /\ Grown(tree[p], s.t) /\ s.w \subseteq witnessed[p]
        /\ (Grown(tree[p], log) => Grown(s.t, log))
        /\ \A k \in Nat : Fresh(k, Side(p)) => Fresh(k, s)
    BY EnsureFacts DEF Inv
  <1>2. \A x \in out[p] : x.pos \in Nat
    BY DEF Inv, TypeOK, Sending
  <1>3. ~skewed => Grown(tree[p], log) /\ \A x \in out[p] : Fresh(x.pos, Side(p))
    BY Regroup DEF TreesOK, FreshSends
  <1> HIDE DEF s
  <1> QED BY <1>1, <1>2, <1>3 DEF s

\* The hash of a frame found in the tree on arrival is in the tree.
LEMMA DupFacts ==
    ASSUME NEW t, NEW c, NEW pos \in Nat
    PROVE  /\ DupOnArrival(t, c, pos) => c \in Hashes(t)
           /\ t \in Seq(Leaf) /\ DupAfterScreen(t, c, pos) => c \in Hashes(t)
  BY DEF DupOnArrival, DupAfterScreen, Hashes, NoPos

\* ContentFrame keeps the invariant.
LEMMA ContentFrameInv ==
    ASSUME Inv, NEW p \in Party, NEW f \in wire, ContentFrame(p, f)
    PROVE  Inv'
  <1> DEFINE g == [c |-> f.c, pos |-> f.pos, via |-> "direct"]
             a == [to |-> Peer(p), c |-> f.c]
  <1>1. f.to = p /\ f.c \in Content /\ f.pos \in Nat
    BY DEF ContentFrame, Inv, TypeOK
  <1>2. g \in Ingress /\ a \in [to : Party, c : Content]
    BY <1>1, PeerFacts DEF Ingress
  <1>3. Good(log, skewed, f, Peer(p))
    BY <1>1, Regroup DEF GoodCopies
  <1>4. Good(log, skewed, g, Peer(p))
    BY <1>3 DEF Good, At
  <1>5. wire' = wire \ {f}
        /\ UNCHANGED <<log, leafq, mailbox, rows, acked, awaiting, counter, out, ordered, diverged,
                       told, sends, faults, crashes, skewed, seen, orphaned>>
    BY DEF ContentFrame, relayVars, sendVars, histVars
  <1>6. CASE DupOnArrival(tree[p], f.c, f.pos)
    <2>1. ackw' = ackw \cup {a} /\ UNCHANGED <<screening, heldVars>>
      BY <1>6 DEF ContentFrame, Ack
    <2>2. f.c \in Hashes(tree[p])
      BY <1>1, <1>6, DupFacts
    <2>3. a.to \in Party /\ a.c \in Hashes(tree[Peer(a.to)])
      BY <2>2, PeerFacts
    <2> HIDE DEF a
    <2>4. TypeOK'
      BY <1>2, <1>5, <2>1 DEF Inv, TypeOK, heldVars
    <2>5. GoodCopies(log, skewed)' /\ WitnessesOK(log)'
      BY <1>5, <2>1, Regroup DEF GoodCopies, WitnessesOK, heldVars
    <2>6. FreshSends(skewed)'
      BY <1>5, <2>1, SameSends DEF heldVars
    <2> QED BY <1>5, <2>1, <2>3, <2>4, <2>5, <2>6, SameRecord, QuietInv DEF heldVars
  <1>7. CASE ~DupOnArrival(tree[p], f.c, f.pos)
    <2>1. Commit(p, EnsureHeldRestored(p)) /\ ackw' = ackw
          /\ screening' = [screening EXCEPT ![p] = @ \cup {g}]
      BY <1>7 DEF ContentFrame
    <2> HIDE DEF g
    <2>2. PICK z : /\ SideOK(log, z) /\ Grown(tree[p], z.t) /\ z.w \subseteq witnessed[p]
                   /\ Commit(p, z) /\ (~skewed => Grown(z.t, log))
                   /\ (~skewed => \A x \in out'[p] : Fresh(x.pos, z))
      BY <1>5, <2>1, ArrivalFacts
    <2>3. /\ tree' \in [Party -> Seq(Leaf)]
          /\ heldRow' \in [Party -> SUBSET HeldRec] /\ held' \in [Party -> SUBSET HeldRec]
          /\ witnessed' \in [Party -> SUBSET Frame] /\ annex' \in [Party -> SUBSET Content]
          /\ hydrated' \in [Party -> BOOLEAN] /\ drained' \in [Party -> BOOLEAN]
      BY <1>5, <2>2, CommitFacts DEF Inv
    <2>4. screening' \in [Party -> SUBSET Ingress] /\ \A q \in Party : q # p => screening'[q] = screening[q]
      BY <1>2, <2>1 DEF Inv, TypeOK
    <2>5. TypeOK'
      BY <1>5, <2>1, <2>3, <2>4 DEF Inv, TypeOK
    <2>6. GoodCopies(log, skewed)'
      <3>1. \A q \in Party : \A x \in screening'[q] : Good(log, skewed, x, Peer(q))
        BY <1>4, <2>1, Regroup DEF GoodCopies, TypeOK
      <3> QED BY <1>5, <3>1, Regroup DEF GoodCopies
    <2> QED BY <1>5, <2>1, <2>2, <2>4, <2>5, <2>6, RecordInv
  <1> QED BY <1>6, <1>7

\* RecoverParked keeps the invariant.
LEMMA RecoverParkedInv ==
    ASSUME Inv, NEW p \in Party, NEW f \in mailbox[p], RecoverParked(p, f)
    PROVE  Inv'
  <1> DEFINE g == [c |-> f.c, pos |-> f.pos, via |-> "park"]
             a == [to |-> Peer(p), c |-> f.c]
  <1>1. f.c \in Content /\ f.pos \in Nat
    BY DEF Inv, TypeOK, Frame
  <1>2. g \in Ingress /\ a \in [to : Party, c : Content]
    BY <1>1, PeerFacts DEF Ingress
  <1>3. Good(log, skewed, f, Peer(p))
    BY Regroup DEF GoodCopies
  <1>4. Good(log, skewed, g, Peer(p))
    BY <1>3 DEF Good, At
  <1>5. UNCHANGED <<log, leafq, wire, rows, acked, awaiting, counter, out, ordered, diverged,
                    told, sends, faults, crashes, skewed, seen, orphaned>>
    BY DEF RecoverParked, relayVars, sendVars, histVars
  <1>6. CASE DupOnArrival(tree[p], f.c, f.pos)
    <2>1. ackw' = ackw \cup {a} /\ UNCHANGED <<screening, heldVars>>
          /\ mailbox' = [mailbox EXCEPT ![p] = DropHash(@, f.c)]
      BY <1>6 DEF RecoverParked, Ack
    <2>2. f.c \in Hashes(tree[p])
      BY <1>1, <1>6, DupFacts
    <2>3. a.to \in Party /\ a.c \in Hashes(tree[Peer(a.to)])
      BY <2>2, PeerFacts
    <2> HIDE DEF a
    <2>4. mailbox' \in [Party -> SUBSET Frame] /\ \A q \in Party : mailbox'[q] \subseteq mailbox[q]
      BY <2>1 DEF Inv, TypeOK, DropHash
    <2>5. TypeOK'
      BY <1>2, <1>5, <2>1, <2>4 DEF Inv, TypeOK, heldVars
    <2>6. GoodCopies(log, skewed)' /\ WitnessesOK(log)'
      BY <1>5, <2>1, <2>4, Regroup DEF GoodCopies, WitnessesOK, heldVars
    <2>7. FreshSends(skewed)'
      BY <1>5, <2>1, SameSends DEF heldVars
    <2> QED BY <1>5, <2>1, <2>3, <2>5, <2>6, <2>7, SameRecord, QuietInv DEF heldVars
  <1>7. CASE ~DupOnArrival(tree[p], f.c, f.pos)
    <2>1. Commit(p, EnsureHeldRestored(p)) /\ ackw' = ackw /\ mailbox' = mailbox
          /\ screening' = [screening EXCEPT ![p] = @ \cup {g}]
      BY <1>7 DEF RecoverParked
    <2> HIDE DEF g
    <2>2. PICK z : /\ SideOK(log, z) /\ Grown(tree[p], z.t) /\ z.w \subseteq witnessed[p]
                   /\ Commit(p, z) /\ (~skewed => Grown(z.t, log))
                   /\ (~skewed => \A x \in out'[p] : Fresh(x.pos, z))
      BY <1>5, <2>1, ArrivalFacts
    <2>3. /\ tree' \in [Party -> Seq(Leaf)]
          /\ heldRow' \in [Party -> SUBSET HeldRec] /\ held' \in [Party -> SUBSET HeldRec]
          /\ witnessed' \in [Party -> SUBSET Frame] /\ annex' \in [Party -> SUBSET Content]
          /\ hydrated' \in [Party -> BOOLEAN] /\ drained' \in [Party -> BOOLEAN]
      BY <1>5, <2>2, CommitFacts DEF Inv
    <2>4. screening' \in [Party -> SUBSET Ingress] /\ \A q \in Party : q # p => screening'[q] = screening[q]
      BY <1>2, <2>1 DEF Inv, TypeOK
    <2>5. TypeOK'
      BY <1>5, <2>1, <2>3, <2>4 DEF Inv, TypeOK
    <2>6. GoodCopies(log, skewed)'
      <3>1. \A q \in Party : \A x \in screening'[q] : Good(log, skewed, x, Peer(q))
        BY <1>4, <2>1, Regroup DEF GoodCopies, TypeOK
      <3> QED BY <1>5, <2>1, <3>1, Regroup DEF GoodCopies
    <2> QED BY <1>5, <2>1, <2>2, <2>4, <2>5, <2>6, RecordInv
  <1> QED BY <1>6, <1>7

\* The position ingest uses for a frame is no position or the frame's own in the log.
LEMMA CanonicalFacts ==
    ASSUME Inv, NEW p \in Party, NEW f \in screening[p]
    PROVE  /\ CanonicalPos(p, f) \in Nat
           /\ f.pos # NoPos => CanonicalPos(p, f) = f.pos
           /\ CanonicalPos(p, f) # NoPos =>
                 /\ CanonicalPos(p, f) \in 1..Len(log)
                 /\ log[CanonicalPos(p, f)] = [from |-> Peer(p), c |-> f.c]
  <1>1. f.pos \in Nat /\ At(log, f, Peer(p))
    <2>1. f \in Ingress
      BY DEF Inv, TypeOK
    <2> QED BY <2>1, Regroup DEF Ingress, GoodCopies, Good
  <1>2. CASE f.pos # NoPos
    BY <1>1, <1>2 DEF CanonicalPos, At
  <1>3. CASE f.pos = NoPos /\ \E x \in witnessed[p] : x.c = f.c
    <2> DEFINE w == CHOOSE x \in witnessed[p] : x.c = f.c
    <2>1. w \in witnessed[p] /\ w.c = f.c
      BY <1>3
    <2>2. CanonicalPos(p, f) = w.pos
      BY <1>3 DEF CanonicalPos
    <2> HIDE DEF w
    <2>3. w.pos \in Nat /\ At(log, w, Peer(p))
      BY <2>1, Regroup DEF TypeOK, Frame, WitnessesOK
    <2> QED BY <1>3, <2>1, <2>2, <2>3 DEF At
  <1>4. CASE f.pos = NoPos /\ ~\E x \in witnessed[p] : x.c = f.c
    BY <1>4 DEF CanonicalPos, NoPos
  <1> QED BY <1>2, <1>3, <1>4

\* Ingest's decision after the screen, as a side that is written back.
LEMMA VerdictFacts ==
    ASSUME Inv, NEW p \in Party, NEW f \in screening[p],
           ~DupAfterScreen(tree[p], f.c, f.pos), out' = out,
           NEW z,
           \/ /\ CanonicalPos(p, f) > Len(EnsureHeldRestored(p).t) + 1
              /\ z = HoldReceived(p, EnsureHeldRestored(p), f.c, CanonicalPos(p, f))
           \/ /\ CanonicalPos(p, f) <= Len(EnsureHeldRestored(p).t) + 1
              /\ z = AppendReceived(p, EnsureHeldRestored(p), f.c)
    PROVE  /\ SideOK(log, z) /\ Grown(tree[p], z.t) /\ z.w \subseteq witnessed[p]
           /\ ~skewed => Grown(z.t, log)
           /\ ~skewed => \A x \in out'[p] : Fresh(x.pos, z)
           /\ CanonicalPos(p, f) <= Len(EnsureHeldRestored(p).t) + 1 => f.c \in Hashes(z.t)
  <1> DEFINE s == Side(p)
             k == CanonicalPos(p, f)
             n == Len(s.t) + 1
  <1>1. TypeOK /\ PositionsOK /\ log \in Seq(Leaf) /\ tree[p] \in Seq(Leaf) /\ f.c \in Content
        /\ Len(tree[p]) \in Nat /\ Len(log) \in Nat
    BY DEF Inv, TypeOK, Ingress
  <1>2. EnsureHeldRestored(p) = s /\ s.t = tree[p] /\ SideOK(log, s) /\ s.w = witnessed[p]
    <2>1. hydrated[p] /\ drained[p]
      BY DEF Inv, DrainedOK
    <2> QED BY <1>1, <2>1, EnsureFacts, SideFacts
  <1>3. /\ k \in Nat /\ (f.pos # NoPos => k = f.pos)
        /\ (k # NoPos => k \in 1..Len(log) /\ log[k] = [from |-> Peer(p), c |-> f.c])
    BY CanonicalFacts
  <1> HIDE DEF s, k
  <1>4. ASSUME ~skewed
        PROVE  /\ f.pos # NoPos /\ Grown(tree[p], log)
               /\ \A x \in out[p] : /\ Fresh(x.pos, s) /\ x.pos \in 1..Len(log)
                                    /\ log[x.pos] = [from |-> p, c |-> x.c]
    BY <1>4, Regroup DEF GoodCopies, Good, At, TreesOK, FreshSends, s
  <1>5. ASSUME ~skewed, NEW x \in out[p]
        PROVE  x.pos # k /\ x.pos \in Nat
    <2>1. log[x.pos] = [from |-> p, c |-> x.c] /\ x.pos \in 1..Len(log)
      BY <1>4, <1>5
    <2>2. log[k].from = Peer(p)
      BY <1>3, <1>4, <1>5
    <2>3. p # Peer(p)
      BY PeerFacts
    <2>4. log[x.pos].from = p
      BY <2>1
    <2> QED BY <2>1, <2>2, <2>3, <2>4
  <1>6. CASE k > n
    <2>1. z = HoldReceived(p, s, f.c, k) /\ k # NoPos
      BY <1>1, <1>2, <1>3, <1>6 DEF k, NoPos
    <2>2. /\ SideOK(log, z) /\ z.t = s.t /\ z.w = s.w
          /\ \A i \in Nat : i # k /\ Fresh(i, s) => Fresh(i, z)
      BY <1>1, <1>2, <1>3, <2>1, HoldFacts
    <2>3. ~skewed => Grown(z.t, log) /\ \A x \in out'[p] : Fresh(x.pos, z)
      BY <1>2, <1>4, <1>5, <2>2
    <2>4. ~(k <= n)
      BY <1>1, <1>2, <1>3, <1>6
    <2> QED BY <1>1, <1>2, <2>2, <2>3, <2>4, GrownRefl DEF k
  <1>7. CASE ~(k > n)
    <2>1. z = AppendReceived(p, s, f.c)
      BY <1>1, <1>2, <1>3, <1>7 DEF k
    <2>2. /\ SideOK(log, z) /\ Grown(s.t, z.t) /\ z.w \subseteq s.w /\ f.c \in Hashes(z.t)
          /\ (n <= Len(log) /\ log[n] = [from |-> Peer(p), c |-> f.c] /\ Grown(s.t, log)
                 => Grown(z.t, log))
          /\ \A i \in Nat : i # n /\ Fresh(i, s) => Fresh(i, z)
      BY <1>1, <1>2, <2>1, AppendFacts
    <2>3. ASSUME ~skewed PROVE k = n
      <3>1. k = f.pos /\ k # NoPos /\ k \in 1..Len(log) /\ log[k].c = f.c
        BY <1>3, <1>4, <2>3
      <3>2. ~(k <= Len(tree[p]) /\ tree[p][k].c = f.c)
        BY <3>1 DEF DupAfterScreen
      <3>3. k <= Len(tree[p]) => tree[p][k] = log[k]
        BY <1>1, <1>4, <2>3, <3>1 DEF Grown
      <3> QED BY <1>1, <1>2, <1>3, <1>7, <3>1, <3>2, <3>3
    <2>4. ASSUME ~skewed PROVE Grown(z.t, log) /\ \A x \in out'[p] : Fresh(x.pos, z)
      <3>1. k = n /\ f.pos # NoPos /\ Grown(s.t, log)
        BY <1>2, <1>4, <2>3, <2>4
      <3>2. n <= Len(log) /\ log[n] = [from |-> Peer(p), c |-> f.c]
        BY <1>1, <1>2, <1>3, <3>1
      <3> QED BY <1>4, <1>5, <2>2, <2>4, <3>1, <3>2
    <2> QED BY <1>2, <2>2, <2>4
  <1> QED BY <1>6, <1>7

\* ScreenVerdict keeps the invariant.
LEMMA ScreenVerdictInv ==
    ASSUME Inv, NEW p \in Party, NEW f \in screening[p], NEW v, ScreenVerdict(p, f, v)
    PROVE  Inv'
  <1> DEFINE a == [to |-> Peer(p), c |-> f.c]
             s == EnsureHeldRestored(p)
             k == CanonicalPos(p, f)
             Z == AppendReceived(p, s, f.c)
             H == HoldReceived(p, s, f.c, k)
  <1>1. f.c \in Content /\ f.pos \in Nat /\ tree[p] \in Seq(Leaf)
    BY DEF Inv, TypeOK, Ingress
  <1>2. a \in [to : Party, c : Content]
    BY <1>1, PeerFacts
  <1>3. screening' = [screening EXCEPT ![p] = @ \ {f}]
        /\ UNCHANGED <<log, leafq, wire, rows, acked, awaiting, out, ordered, diverged, told,
                       sends, crashes, skewed, seen, orphaned>>
    BY DEF ScreenVerdict, relayVars, sendVars
  <1>4. screening' \in [Party -> SUBSET Ingress]
        /\ (\A q \in Party : screening'[q] \subseteq screening[q])
        /\ (\A q \in Party : q # p => screening'[q] = screening[q])
    BY <1>3 DEF Inv, TypeOK
  <1>5. \/ UNCHANGED <<heldVars, mailbox, ackw, counter>> /\ faults' \in Nat
        \/ /\ DupAfterScreen(tree[p], f.c, f.pos) /\ Settle(p, f, v)
           /\ UNCHANGED <<heldVars, counter, faults>>
        \/ /\ ~DupAfterScreen(tree[p], f.c, f.pos) /\ k > Len(s.t) + 1 /\ Commit(p, H)
           /\ UNCHANGED <<mailbox, ackw, counter, faults>>
        \/ /\ ~DupAfterScreen(tree[p], f.c, f.pos) /\ k <= Len(s.t) + 1 /\ Commit(p, Z)
           /\ Settle(p, f, v) /\ faults' = faults
           /\ counter' = IF f.pos = NoPos THEN [counter EXCEPT ![p] = @ \cup {f.c}]
                         ELSE counter
    BY DEF ScreenVerdict, Fault, Inv, TypeOK
  <1>6. ASSUME Settle(p, f, v)
        PROVE  /\ mailbox' \in [Party -> SUBSET Frame]
               /\ \A q \in Party : mailbox'[q] \subseteq mailbox[q]
               /\ ackw' \subseteq ackw \cup {a}
               /\ ackw' \subseteq [to : Party, c : Content]
    <2>1. \/ mailbox' = [mailbox EXCEPT ![p] = DropHash(@, f.c)]
          \/ mailbox' = mailbox
      BY <1>6 DEF Settle
    <2>2. ackw' \subseteq ackw \cup {a}
      BY <1>6 DEF Settle, Ack
    <2> HIDE DEF a
    <2>3. mailbox \in [Party -> SUBSET Frame] /\ ackw \subseteq [to : Party, c : Content]
      BY DEF Inv, TypeOK
    <2>4. mailbox' \in [Party -> SUBSET Frame] /\ \A q \in Party : mailbox'[q] \subseteq mailbox[q]
      <3>1. CASE mailbox' = mailbox
        BY <2>3, <3>1
      <3>2. CASE mailbox' = [mailbox EXCEPT ![p] = DropHash(@, f.c)]
        BY <2>3, <3>2 DEF DropHash
      <3> QED BY <2>1, <3>1, <3>2
    <2>5. ackw' \subseteq [to : Party, c : Content]
      BY <1>2, <2>2, <2>3
    <2> QED BY <2>2, <2>4, <2>5
  <1> HIDE DEF s, k, Z, H
  <1>7. CASE UNCHANGED heldVars
             /\ mailbox' \in [Party -> SUBSET Frame]
             /\ (\A q \in Party : mailbox'[q] \subseteq mailbox[q])
             /\ ackw' \subseteq [to : Party, c : Content]
             /\ (\A b \in ackw' : b \in ackw \/ (b.to \in Party /\ b.c \in Hashes(tree[Peer(b.to)])))
             /\ counter' = counter /\ faults' \in Nat
    <2>1. TypeOK'
      BY <1>3, <1>4, <1>7 DEF Inv, TypeOK, heldVars
    <2>2. GoodCopies(log, skewed)' /\ WitnessesOK(log)'
      BY <1>3, <1>4, <1>7, Regroup DEF GoodCopies, WitnessesOK, heldVars
    <2>3. FreshSends(skewed)'
      BY <1>3, <1>7, SameSends DEF heldVars
    <2>4. \A q \in Party : screening'[q] # {} => hydrated[q] /\ drained[q]
      BY <1>4 DEF Inv, DrainedOK
    <2>5. \A q \in Party : acked'[q] \subseteq Hashes(tree[Peer(q)])
      BY <1>3 DEF Inv, AcksOK, AckedIsDurable
    <2> QED BY <1>3, <1>7, <2>1, <2>2, <2>3, <2>4, <2>5, QuietInv DEF heldVars
  <1>8. ASSUME DupAfterScreen(tree[p], f.c, f.pos)
        PROVE  a.to \in Party /\ a.c \in Hashes(tree[Peer(a.to)])
    BY <1>1, <1>8, DupFacts, PeerFacts
  <1>9. ASSUME NEW z, SideOK(log, z), Grown(tree[p], z.t), z.w \subseteq witnessed[p],
               ~skewed => Grown(z.t, log), ~skewed => \A x \in out'[p] : Fresh(x.pos, z),
               Commit(p, z), mailbox' \in [Party -> SUBSET Frame],
               \A q \in Party : mailbox'[q] \subseteq mailbox[q],
               ackw' \subseteq [to : Party, c : Content],
               \A b \in ackw' : b \in ackw \/ (b.to = Peer(p) /\ b.c \in Hashes(z.t)),
               counter' \in [Party -> SUBSET Content], faults' = faults
        PROVE  Inv'
    <2>1. /\ tree' \in [Party -> Seq(Leaf)]
          /\ heldRow' \in [Party -> SUBSET HeldRec] /\ held' \in [Party -> SUBSET HeldRec]
          /\ witnessed' \in [Party -> SUBSET Frame] /\ annex' \in [Party -> SUBSET Content]
          /\ hydrated' \in [Party -> BOOLEAN] /\ drained' \in [Party -> BOOLEAN]
      BY <1>3, <1>9, CommitFacts DEF Inv
    <2>2. TypeOK'
      BY <1>3, <1>4, <1>9, <2>1 DEF Inv, TypeOK
    <2>3. GoodCopies(log, skewed)'
      BY <1>3, <1>4, <1>9, Regroup DEF GoodCopies
    <2> QED BY <1>3, <1>4, <1>9, <2>2, <2>3, RecordInv
  <1>10. CASE ~DupAfterScreen(tree[p], f.c, f.pos) /\ k > Len(s.t) + 1 /\ Commit(p, H)
              /\ UNCHANGED <<mailbox, ackw, counter, faults>>
    <2>1. /\ SideOK(log, H) /\ Grown(tree[p], H.t) /\ H.w \subseteq witnessed[p]
          /\ (~skewed => Grown(H.t, log)) /\ (~skewed => \A x \in out'[p] : Fresh(x.pos, H))
      BY <1>3, <1>10, VerdictFacts DEF H, s, k
    <2>2. counter' \in [Party -> SUBSET Content] /\ mailbox' \in [Party -> SUBSET Frame]
          /\ ackw' \subseteq [to : Party, c : Content]
      BY <1>10 DEF Inv, TypeOK
    <2> QED BY <1>9, <1>10, <2>1, <2>2
  <1>11. CASE ~DupAfterScreen(tree[p], f.c, f.pos) /\ k <= Len(s.t) + 1 /\ Commit(p, Z)
              /\ Settle(p, f, v) /\ faults' = faults
              /\ counter' = IF f.pos = NoPos THEN [counter EXCEPT ![p] = @ \cup {f.c}] ELSE counter
    <2>1. /\ SideOK(log, Z) /\ Grown(tree[p], Z.t) /\ Z.w \subseteq witnessed[p]
          /\ (~skewed => Grown(Z.t, log)) /\ (~skewed => \A x \in out'[p] : Fresh(x.pos, Z))
          /\ f.c \in Hashes(Z.t)
      BY <1>3, <1>11, VerdictFacts DEF Z, s, k
    <2>2. counter' \in [Party -> SUBSET Content]
      BY <1>1, <1>11 DEF Inv, TypeOK
    <2>3. \A b \in ackw' : b \in ackw \/ (b.to = Peer(p) /\ b.c \in Hashes(Z.t))
      BY <1>6, <1>11, <2>1
    <2> QED BY <1>6, <1>9, <1>11, <2>1, <2>2, <2>3
  <1>12. CASE UNCHANGED <<heldVars, mailbox, ackw, counter>> /\ faults' \in Nat
    <2>1. mailbox' \in [Party -> SUBSET Frame] /\ ackw' \subseteq [to : Party, c : Content]
      BY <1>12 DEF Inv, TypeOK
    <2> QED BY <1>7, <1>12, <2>1
  <1>13. CASE DupAfterScreen(tree[p], f.c, f.pos) /\ Settle(p, f, v)
              /\ UNCHANGED <<heldVars, counter, faults>>
    <2>1. faults' \in Nat
      BY <1>13 DEF Inv, TypeOK
    <2> HIDE DEF a
    <2> QED BY <1>6, <1>7, <1>8, <1>13, <2>1
  <1> QED BY <1>5, <1>10, <1>11, <1>12, <1>13

\* ReadSealReadiness keeps the invariant: hydrating moves no leaf.
LEMMA ReadSealReadinessInv ==
    ASSUME Inv, NEW p \in Party, ReadSealReadiness(p)
    PROVE  Inv'
  <1> DEFINE s == Hydrated(p)
  <1>1. SideOK(log, s) /\ s \in SideType /\ s.t = tree[p] /\ s.w = witnessed[p]
        /\ (\A k \in Nat : Fresh(k, Side(p)) => Fresh(k, s))
    <2>1. SideOK(log, s) => s \in SideType
      BY DEF SideOK
    <2> QED BY <2>1, SideFacts, RestoreOK DEF Hydrated, Inv
  <1>2. /\ held' = [held EXCEPT ![p] = s.h] /\ heldRow' = [heldRow EXCEPT ![p] = s.r]
        /\ annex' = [annex EXCEPT ![p] = s.a] /\ hydrated' = [hydrated EXCEPT ![p] = TRUE]
        /\ ordered' = [ordered EXCEPT ![p] = {x \in @ : x.pos > Len(tree[p])}]
    BY DEF ReadSealReadiness
  <1>3. UNCHANGED <<log, leafq, mailbox, wire, ackw, tree, witnessed, drained, rows, acked,
                    awaiting, screening, counter, out, diverged, told,
                    sends, faults, crashes, skewed, seen, orphaned>>
    BY DEF ReadSealReadiness, relayVars, histVars
  <1> HIDE DEF s
  <1>4. s.h \in SUBSET HeldRec /\ s.r \in SUBSET HeldRec /\ s.a \in SUBSET Content
    BY <1>1 DEF SideType
  <1>5. TypeOK'
    <2>1. held' \in [Party -> SUBSET HeldRec] /\ heldRow' \in [Party -> SUBSET HeldRec]
          /\ annex' \in [Party -> SUBSET Content] /\ ordered' \in [Party -> SUBSET Frame]
      BY <1>2, <1>4 DEF Inv, TypeOK
    <2>2. hydrated' \in [Party -> BOOLEAN]
      BY <1>2 DEF Inv, TypeOK
    <2> QED BY <1>3, <2>1, <2>2 DEF Inv, TypeOK
  <1>6. held'[p] = s.h /\ heldRow'[p] = s.r /\ annex'[p] = s.a
        /\ \A q \in Party : q # p => /\ held'[q] = held[q] /\ heldRow'[q] = heldRow[q]
                                     /\ annex'[q] = annex[q]
    BY <1>2 DEF Inv, TypeOK
  <1>7. Side(p)' = s /\ \A q \in Party : q # p => Side(q)' = Side(q)
    BY <1>1, <1>3, <1>6 DEF Side, SideType
  <1>8. HoldsOK(log)'
    BY <1>1, <1>3, <1>6, Regroup DEF HoldsOK, SideOK
  <1>9. FreshSends(skewed)'
    <2>1. \A x \in out[p] : x.pos \in Nat
      BY DEF Inv, TypeOK, Sending
    <2> QED BY <1>1, <1>3, <1>7, <2>1, Regroup DEF FreshSends
  <1>10. GoodCopies(log, skewed)' /\ WitnessesOK(log)' /\ TreesOK(log, skewed)' /\ AcksOK'
    BY <1>3, Regroup DEF GoodCopies, WitnessesOK, TreesOK, AcksOK, AckedIsDurable
  <1>11. DrainedOK'
    <2>1. \A q \in Party : hydrated[q] => hydrated'[q]
      BY <1>2 DEF Inv, TypeOK
    <2> QED BY <1>3, <2>1 DEF Inv, DrainedOK
  <1> QED BY <1>5, <1>8, <1>9, <1>10, <1>11, Regroup, PTL

\* Crash keeps the invariant: what is left is in the database, where it was right.
LEMMA CrashInv ==
    ASSUME Inv, NEW p \in Party, Crash(p)
    PROVE  Inv'
  <1>1. UNCHANGED <<log, mailbox, tree, heldRow, rows, acked, diverged, annex, told,
                    sends, faults, skewed>>
    BY DEF Crash
  <1>2. /\ leafq' = [leafq EXCEPT ![p] = << >>] /\ held' = [held EXCEPT ![p] = {}]
        /\ hydrated' = [hydrated EXCEPT ![p] = FALSE] /\ drained' = [drained EXCEPT ![p] = FALSE]
        /\ witnessed' = [witnessed EXCEPT ![p] = {}] /\ ordered' = [ordered EXCEPT ![p] = {}]
        /\ out' = [out EXCEPT ![p] = {}] /\ awaiting' = [awaiting EXCEPT ![p] = {}]
        /\ screening' = [screening EXCEPT ![p] = {}] /\ counter' = [counter EXCEPT ![p] = {}]
        /\ seen' = [seen EXCEPT ![p] = {}] /\ wire' \subseteq wire /\ ackw' \subseteq ackw
        /\ orphaned' = [orphaned EXCEPT ![p] = @ \cup {x.c : x \in awaiting[p]}]
        /\ crashes' = crashes + 1
    BY DEF Crash
  <1>3. TypeOK'
    <2>1. << >> \in Seq(Nat)
      OBVIOUS
    <2>2. leafq' \in [Party -> Seq(Nat)]
      BY <1>2, <2>1 DEF Inv, TypeOK
    <2>3. /\ held' \in [Party -> SUBSET HeldRec] /\ witnessed' \in [Party -> SUBSET Frame]
          /\ ordered' \in [Party -> SUBSET Frame] /\ out' \in [Party -> SUBSET Sending]
          /\ awaiting' \in [Party -> SUBSET Frame] /\ screening' \in [Party -> SUBSET Ingress]
          /\ counter' \in [Party -> SUBSET Content] /\ seen' \in [Party -> SUBSET Nat]
      BY <1>2 DEF Inv, TypeOK
    <2>4. hydrated' \in [Party -> BOOLEAN] /\ drained' \in [Party -> BOOLEAN]
      BY <1>2 DEF Inv, TypeOK
    <2>5. orphaned' \in [Party -> SUBSET Content]
      BY <1>2 DEF Inv, TypeOK, Frame
    <2>6. wire' \subseteq [to : Party, c : Content, pos : Nat]
          /\ ackw' \subseteq [to : Party, c : Content] /\ crashes' \in Nat
      BY <1>2 DEF Inv, TypeOK
    <2> QED BY <1>1, <2>2, <2>3, <2>4, <2>5, <2>6 DEF Inv, TypeOK
  <1>4. /\ leafq'[p] = << >> /\ held'[p] = {} /\ witnessed'[p] = {} /\ out'[p] = {}
        /\ awaiting'[p] = {} /\ screening'[p] = {}
        /\ \A q \in Party : q # p =>
              /\ leafq'[q] = leafq[q] /\ held'[q] = held[q] /\ witnessed'[q] = witnessed[q]
              /\ out'[q] = out[q] /\ awaiting'[q] = awaiting[q] /\ screening'[q] = screening[q]
              /\ hydrated'[q] = hydrated[q] /\ drained'[q] = drained[q]
    BY <1>2 DEF Inv, TypeOK
  <1>5. GoodCopies(log, skewed)'
    BY <1>1, <1>2, <1>4, Regroup DEF GoodCopies
  <1>6. FreshSends(skewed)'
    <2>1. \A q \in Party : q # p => Side(q)' = Side(q)
      BY <1>1, <1>4 DEF Side
    <2> QED BY <1>1, <1>4, <2>1, Regroup DEF FreshSends
  <1>7. WitnessesOK(log)' /\ HoldsOK(log)'
    BY <1>1, <1>4, Regroup DEF WitnessesOK, HoldsOK
  <1>8. TreesOK(log, skewed)' /\ AcksOK'
    BY <1>1, <1>2, Regroup DEF TreesOK, AcksOK, AckedIsDurable
  <1>9. DrainedOK'
    BY <1>4 DEF Inv, DrainedOK
  <1> QED BY <1>3, <1>5, <1>6, <1>7, <1>8, <1>9, Regroup, PTL

-----------------------------------------------------------------------------
(* The theorems.                                                           *)

\* Every step keeps the invariant.
LEMMA NextInv == Inv /\ [Next]_vars => Inv'
  <1> SUFFICES ASSUME Inv, [Next]_vars PROVE Inv'
    OBVIOUS
  <1>1. CASE UNCHANGED vars
    BY <1>1 DEF vars, Inv, TypeOK, PositionsOK, PositionsIn, OrderOK, DrainedOK, AcksOK,
                AckedIsDurable, Side
  <1>2. ASSUME NEW p \in Party, NEW c \in Content, Submit(p, c) \/ SubmitUnreachable(p, c)
        PROVE  Inv'
    BY <1>2, SubmitInv, SubmitUnreachableInv
  <1>3. ASSUME NEW p \in Party, NEW o \in out[p],
               \/ SubmitAck(p, o) \/ SubmitTimeout(p, o) \/ DirectSend(p, o)
               \/ ParkContent(p, o) \/ ParkRefused(p, o) \/ FinishSend(p, o)
        PROVE  Inv'
    BY <1>3, SubmitAckInv, SubmitTimeoutInv, DirectSendInv, ParkContentInv, ParkRefusedInv,
       FinishSendInv
  <1>4. ASSUME NEW p \in Party, LeafDeliver(p) \/ ReadSealReadiness(p) \/ Crash(p)
        PROVE  Inv'
    BY <1>4, LeafDeliverInv, ReadSealReadinessInv, CrashInv
  <1>5. ASSUME NEW p \in Party, NEW f \in wire, ContentFrame(p, f) PROVE Inv'
    BY <1>5, ContentFrameInv
  <1>6. ASSUME NEW p \in Party, NEW f \in mailbox[p], RecoverParked(p, f) PROVE Inv'
    BY <1>6, RecoverParkedInv
  <1>7. ASSUME NEW p \in Party, NEW v \in {"allow", "block", "defer"}, NEW f \in screening[p],
               ScreenVerdict(p, f, v)
        PROVE  Inv'
    BY <1>7, ScreenVerdictInv
  <1>8. ASSUME NEW p \in Party, NEW c \in counter[p], CounterSubmit(p, c) PROVE Inv'
    BY <1>8, CounterSubmitInv
  <1>9. ASSUME NEW p \in Party, NEW a \in ackw, DeliveryAck(p, a) PROVE Inv'
    BY <1>9, DeliveryAckInv
  <1>10. ASSUME \/ \E f \in wire : LoseFrame(f)
                \/ \E a \in ackw : LoseAck(a)
                \/ \E p \in Party : LoseLeaf(p)
         PROVE  Inv'
    BY <1>10, LossInv
  <1>11. ASSUME NEW p \in Party, NEW x \in awaiting[p], TtfExpiry(p, x) PROVE Inv'
    BY <1>11, TtfExpiryInv
  <1>12. ASSUME NEW p \in Party, NEW x \in rows[p], FlushAwaiting(p, x) PROVE Inv'
    BY <1>12, FlushAwaitingInv
  <1> QED BY <1>1, <1>2, <1>3, <1>4, <1>5, <1>6, <1>7, <1>8, <1>9, <1>10, <1>11, <1>12
          DEF Next

\* The invariant holds in every behaviour.
THEOREM Invariance == Spec => []Inv
  BY InitInv, NextInv, PTL DEF Spec

\* Every variable keeps its type, for any two daemons and any bounds.
THEOREM TypeCorrect == Spec => []TypeOK
  <1>1. Inv => TypeOK
    BY DEF Inv
  <1> QED BY <1>1, Invariance, PTL

\* Until a send goes on without its position, each daemon's tree is a prefix of the order
\* the relay gave: no loss, retry, hold, restart or interleaving of placeOwnLeaf and
\* ingestReceivedContent puts a leaf anywhere else.
THEOREM RecordSafe == Spec => []RecordMatchesRelay
  <1>1. Inv => RecordMatchesRelay
    BY DEF Inv, OrderOK, Grown, RecordMatchesRelay
  <1> QED BY <1>1, Invariance, PTL

\* A delivery acknowledgement a daemon has recorded is of a leaf the counterparty's
\* database holds: sendDeliveryAck follows the append, and no crash undoes an append.
THEOREM AckSafe == Spec => []AckedIsDurable
  <1>1. Inv => AckedIsDurable
    BY DEF Inv, AcksOK
  <1> QED BY <1>1, Invariance, PTL

-----------------------------------------------------------------------------
(* The promise of a session.                                               *)

\* A side that is written back with more leaves than before, in the relay's order.
LEMMA CommitExtends ==
    ASSUME Inv, NEW p \in Party,
           NEW z, SideOK(log, z), Grown(tree[p], z.t), z.w \subseteq witnessed[p], Commit(p, z),
           ~skewed => Grown(z.t, log), UNCHANGED <<log, skewed>>
    PROVE  Ordered!Extend(p)
  <1>1. tree'[p] = z.t
    BY CommitFacts DEF Inv
  <1>2. tree' = [tree EXCEPT ![p] = tree'[p]]
    BY <1>1 DEF Commit
  <1>3. Ordered!StartsWith(tree'[p], tree[p])
    BY <1>1 DEF Grown, Ordered!StartsWith
  <1>4. ~skewed => Ordered!StartsWith(log, tree'[p])
    BY <1>1 DEF Grown, Ordered!StartsWith
  <1> QED BY <1>2, <1>3, <1>4 DEF Ordered!Extend

\* Placing an own leaf extends the record.
LEMMA PlaceOwnExtends ==
    ASSUME Inv, NEW p \in Party, NEW o \in out[p], PlaceOwnLeaf(p, o.c, o.pos),
           out' = [out EXCEPT ![p] = @ \ {o}], UNCHANGED <<log, skewed>>
    PROVE  Ordered!Extend(p)
  BY PlaceOwnFacts, CommitExtends

\* So does restoring and releasing what was held.
LEMMA ArrivalExtends ==
    ASSUME Inv, NEW p \in Party, Commit(p, EnsureHeldRestored(p)), out' = out,
           UNCHANGED <<log, skewed>>
    PROVE  Ordered!Extend(p)
  BY ArrivalFacts, CommitExtends

\* So does a frame that was let in.
LEMMA VerdictExtends ==
    ASSUME Inv, NEW p \in Party, NEW f \in screening[p], NEW v, ScreenVerdict(p, f, v)
    PROVE  UNCHANGED <<log, tree, skewed>> \/ Ordered!Extend(p)
  <1>1. UNCHANGED <<log, skewed>> /\ out' = out
    BY DEF ScreenVerdict, relayVars, sendVars
  <1>2. \/ UNCHANGED heldVars
        \/ \E z : /\ ~DupAfterScreen(tree[p], f.c, f.pos) /\ Commit(p, z)
                  /\ \/ /\ CanonicalPos(p, f) > Len(EnsureHeldRestored(p).t) + 1
                        /\ z = HoldReceived(p, EnsureHeldRestored(p), f.c, CanonicalPos(p, f))
                     \/ /\ CanonicalPos(p, f) <= Len(EnsureHeldRestored(p).t) + 1
                        /\ z = AppendReceived(p, EnsureHeldRestored(p), f.c)
    BY DEF ScreenVerdict
  <1>3. CASE UNCHANGED heldVars
    BY <1>1, <1>3 DEF heldVars
  <1>4. ASSUME NEW z, ~DupAfterScreen(tree[p], f.c, f.pos), Commit(p, z),
               \/ /\ CanonicalPos(p, f) > Len(EnsureHeldRestored(p).t) + 1
                  /\ z = HoldReceived(p, EnsureHeldRestored(p), f.c, CanonicalPos(p, f))
               \/ /\ CanonicalPos(p, f) <= Len(EnsureHeldRestored(p).t) + 1
                  /\ z = AppendReceived(p, EnsureHeldRestored(p), f.c)
        PROVE  Ordered!Extend(p)
    <2>1. /\ SideOK(log, z) /\ Grown(tree[p], z.t) /\ z.w \subseteq witnessed[p]
          /\ ~skewed => Grown(z.t, log)
      BY <1>1, <1>4, VerdictFacts
    <2> QED BY <1>1, <1>4, <2>1, CommitExtends
  <1> QED BY <1>2, <1>3, <1>4

\* Each step orders a leaf, extends one record, goes astray, or does none of it.
LEMMA OrderedStep ==
    ASSUME Inv, [Next]_vars
    PROVE  UNCHANGED <<log, tree, skewed>> \/ Ordered!Next
  <1>1. CASE UNCHANGED vars
    BY <1>1 DEF vars
  <1>2. ASSUME NEW p \in Party, NEW c \in Content, Submit(p, c)
        PROVE  Ordered!Next
    <2>1. [from |-> p, c |-> c] \in Leaf
      BY DEF Leaf
    <2>2. log' = Append(log, [from |-> p, c |-> c]) /\ UNCHANGED <<tree, skewed>>
      BY <1>2 DEF Submit, heldVars
    <2> QED BY <2>1, <2>2 DEF Ordered!Next, Ordered!Order
  <1>3. ASSUME NEW p \in Party,
               \/ \E c \in Content : SubmitUnreachable(p, c)
               \/ \E o \in out[p] : SubmitTimeout(p, o)
        PROVE  Ordered!Next
    <2>1. skewed' = TRUE /\ UNCHANGED <<log, tree>>
      BY <1>3 DEF SubmitUnreachable, SubmitTimeout, relayVars, heldVars
    <2> QED BY <2>1 DEF Ordered!Next, Ordered!GoAstray
  <1>4. ASSUME NEW p \in Party, NEW o \in out[p], FinishSend(p, o) \/ ParkRefused(p, o)
        PROVE  UNCHANGED <<log, tree, skewed>> \/ Ordered!Next
    <2>1. out' = [out EXCEPT ![p] = @ \ {o}] /\ UNCHANGED <<log, skewed>>
      BY <1>4 DEF FinishSend, ParkRefused, relayVars, histVars
    <2>2. PlaceOwnLeaf(p, o.c, o.pos) \/ UNCHANGED tree
      BY <1>4 DEF FinishSend, ParkRefused, heldVars
    <2>3. PlaceOwnLeaf(p, o.c, o.pos) => Ordered!Extend(p)
      BY <2>1, PlaceOwnExtends
    <2> QED BY <2>1, <2>2, <2>3 DEF Ordered!Next
  <1>5. ASSUME NEW p \in Party,
               (\E f \in wire : ContentFrame(p, f)) \/ (\E f \in mailbox[p] : RecoverParked(p, f))
        PROVE  UNCHANGED <<log, tree, skewed>> \/ Ordered!Next
    <2>1. out' = out /\ UNCHANGED <<log, skewed>>
      BY <1>5 DEF ContentFrame, RecoverParked, relayVars, sendVars, histVars
    <2>2. Commit(p, EnsureHeldRestored(p)) \/ UNCHANGED tree
      BY <1>5 DEF ContentFrame, RecoverParked, heldVars
    <2>3. Commit(p, EnsureHeldRestored(p)) => Ordered!Extend(p)
      BY <2>1, ArrivalExtends
    <2> QED BY <2>1, <2>2, <2>3 DEF Ordered!Next
  <1>6. ASSUME NEW p \in Party, NEW v, NEW f \in screening[p], ScreenVerdict(p, f, v)
        PROVE  UNCHANGED <<log, tree, skewed>> \/ Ordered!Next
    BY <1>6, VerdictExtends DEF Ordered!Next
  <1>7. ASSUME NEW p \in Party, NEW c \in counter[p], CounterSubmit(p, c)
        PROVE  UNCHANGED <<log, tree, skewed>> \/ Ordered!Next
    <2>1. [from |-> Peer(p), c |-> c] \in Leaf
      <3>1. c \in Content
        BY DEF Inv, TypeOK
      <3> QED BY <3>1, PeerFacts DEF Leaf
    <2>2. UNCHANGED <<tree, skewed>> /\ (log' = log \/ log' = Append(log, [from |-> Peer(p), c |-> c]))
      BY <1>7 DEF CounterSubmit, heldVars, histVars
    <2> QED BY <2>1, <2>2 DEF Ordered!Next, Ordered!Order
  <1>8. ASSUME NEW p \in Party, NEW x,
               \/ SubmitAck(p, x) \/ DirectSend(p, x) \/ ParkContent(p, x)
               \/ LeafDeliver(p) \/ DeliveryAck(p, x) \/ TtfExpiry(p, x) \/ FlushAwaiting(p, x)
               \/ ReadSealReadiness(p) \/ Crash(p)
        PROVE  UNCHANGED <<log, tree, skewed>>
    BY <1>8 DEF SubmitAck, DirectSend, ParkContent, LeafDeliver, DeliveryAck, TtfExpiry,
       FlushAwaiting, ReadSealReadiness, Crash, relayVars, heldVars, histVars
  <1>9. ASSUME NEW f, LoseFrame(f) \/ LoseAck(f) \/ LoseLeaf(f)
        PROVE  UNCHANGED <<log, tree, skewed>>
    BY <1>9 DEF LoseFrame, LoseAck, LoseLeaf, relayVars, heldVars
  <1> QED BY <1>1, <1>2, <1>3, <1>4, <1>5, <1>6, <1>7, <1>8, <1>9 DEF Next

\* SessionRecord implements OrderedRecord: a leaf in a session's tree is never moved, dropped
\* or overtaken, and until a send goes on without its position both trees are one order.
THEOREM RecordFollows == Spec => FollowsOrder
  <1>1. Init => Ordered!Init
    BY DEF Init, Ordered!Init
  <1>2. Inv /\ [Next]_vars => [Ordered!Next]_(Ordered!vars)
    BY OrderedStep DEF Ordered!vars
  <1> QED BY <1>1, <1>2, Invariance, PTL DEF Spec, FollowsOrder, Ordered!Spec

=============================================================================
