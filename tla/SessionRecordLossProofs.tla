---------------------- MODULE SessionRecordLossProofs ----------------------
(***************************************************************************)
(* Proofs that SessionRecord loses nothing, for any two daemons, contents  *)
(* and numbers of sends, faults and crashes; and that a side ready to seal *)
(* is complete as long as no content was sent twice.                       *)
(*                                                                         *)
(* What a side has of a conversation, the leaves of its tree, its rows of  *)
(* held content and its annex, only grows, whichever function works on it  *)
(* (Keeps): a hold never hides another content, because both would be at   *)
(* the one position the log has for them, and the holds in memory are the  *)
(* rows (Mirrored).  So no step takes a content from the places where it   *)
(* is safe (Covered), and a send is reported only when it is in one.       *)
(*                                                                         *)
(* Readiness adds what the maps of outstanding leaves are for: a position  *)
(* a side learnt of is in its record or still noted (Accounted), which is  *)
(* kept because a note is dropped only with its leaf in place (Retires).   *)
(***************************************************************************)
EXTENDS SessionRecordProofs

-----------------------------------------------------------------------------
(* What a side has.                                                        *)

\* Contents a side has or will have: in its tree, its rows of holds, its annex.
Texts(s) == Hashes(s.t) \cup s.a \cup {x.c : x \in s.r}

\* Position k is in the tree, or held for content c.
Has(s, c, k) == k <= Len(s.t) \/ \E y \in s.r : y.c = c /\ y.pos = k

\* z has what s has.
Keeps(s, z) ==
    /\ Texts(s) \subseteq Texts(z)
    /\ \A c \in Content, k \in Nat : Has(s, c, k) => Has(z, c, k)

-----------------------------------------------------------------------------
(* The invariant.                                                          *)

\* The holds in memory are the rows, once they were restored.
Mirrored == \A p \in Party : held[p] = IF hydrated[p] THEN heldRow[p] ELSE {}

\* Contents of p that the counterparty has or will get, unless p crashed with the only copy.
Covered(p) ==
    Texts(Side(Peer(p))) \cup orphaned[p]
    \cup {x.c : x \in mailbox[Peer(p)] \cup rows[p] \cup awaiting[p]}

\* Contents of p that were reported as sent, or are about to be.
Promised(p) == told[p] \cup {o.c : o \in {x \in out[p] : x.st = "sent"}}

NothingUncovered == \A p \in Party : Promised(p) \subseteq Covered(p)

\* Copies that wait for an acknowledgement, in memory or durably.
Unconfirmed(p) == rows[p] \cup awaiting[p]

\* A position belongs to one send in progress, and before its content has left to nothing else.
OwnPositions ==
    \A p \in Party : \A o \in out[p] : o.pos # NoPos =>
        /\ \A x \in out[p] : x.pos = o.pos => x = o
        /\ o.st # "sent" => \A x \in Unconfirmed(p) : x.pos # o.pos

\* What waits for an acknowledgement keeps its position.
KeptAt(p, x) ==
    \/ x.c \in Docs \/ Has(Side(p), x.c, x.pos)
    \/ \E o \in out[p] : o.c = x.c /\ o.pos = x.pos

PositionsKept == crashes = 0 => \A p \in Party : \A x \in Unconfirmed(p) : KeptAt(p, x)

Kept == Inv /\ Mirrored /\ NothingUncovered /\ OwnPositions /\ PositionsKept

-----------------------------------------------------------------------------
(* The operators.                                                          *)

LEMMA KeepsRefl == \A s : Keeps(s, s)
  BY DEF Keeps

LEMMA KeepsTrans == \A s, u, z : Keeps(s, u) /\ Keeps(u, z) => Keeps(s, z)
  BY DEF Keeps

\* A row of a hold is for the leaf the log has at its position.
LEMMA RowFacts ==
    ASSUME NEW l \in Seq(Leaf), NEW s, SideOK(l, s)
    PROVE  /\ s.t \in Seq(Leaf) /\ Len(s.t) \in Nat /\ Len(l) \in Nat
           /\ \A x \in s.h \cup s.r : /\ x \in HeldRec /\ x.pos \in 1..Len(l)
                                      /\ l[x.pos] = LeafOf(x) /\ l[x.pos].c = x.c
  <1>1. s \in SideType /\ \A x \in s.h \cup s.r : x.pos # NoPos /\ At(l, x, x.from)
    BY DEF SideOK
  <1>2. s.t \in Seq(Leaf) /\ Len(s.t) \in Nat /\ Len(l) \in Nat
    BY <1>1 DEF SideType
  <1>3. \A x \in s.h \cup s.r : x \in HeldRec
    BY <1>1 DEF SideType
  <1> QED BY <1>1, <1>2, <1>3 DEF At, LeafOf

\* Rows that the tree has passed are in it, or go to the annex.
LEMMA RestoreKeeps ==
    ASSUME NEW l \in Seq(Leaf), NEW s, SideOK(l, s), s.h = {}
    PROVE  Keeps(s, RestoreHeld(s)) /\ RestoreHeld(s).h = RestoreHeld(s).r
  <1> DEFINE passed == {x \in s.r : x.pos <= Len(s.t)}
             ann == {x.c : x \in {y \in passed : s.t[y.pos].c # y.c}}
             z == [s EXCEPT !.h = @ \cup (s.r \ passed), !.r = @ \ passed, !.a = @ \cup ann]
  <1>1. RestoreHeld(s) = z
    BY DEF RestoreHeld
  <1>2. s \in SideType
    BY DEF SideOK
  <1>3. /\ z.h = z.r /\ z.r = {x \in s.r : ~(x.pos <= Len(s.t))}
        /\ z.t = s.t /\ z.a = s.a \cup ann
    BY <1>2 DEF SideType
  <1>4. \A x \in s.r : x.pos \in 1..Len(l)
    BY RowFacts
  <1>5. ASSUME NEW x \in s.r PROVE x.c \in Hashes(s.t) \cup ann \cup {y.c : y \in z.r}
    <2>1. CASE x.pos <= Len(s.t)
      <3>1. x.pos \in 1..Len(s.t) /\ x \in passed
        BY <1>4, <2>1, RowFacts
      <3>2. CASE s.t[x.pos].c = x.c
        BY <3>1, <3>2 DEF Hashes
      <3>3. CASE s.t[x.pos].c # x.c
        BY <3>1, <3>3
      <3> QED BY <3>2, <3>3
    <2>2. CASE ~(x.pos <= Len(s.t))
      BY <1>3, <2>2
    <2> QED BY <2>1, <2>2
  <1> HIDE DEF z, ann
  <1>6. Texts(s) \subseteq Texts(z)
    BY <1>3, <1>5 DEF Texts
  <1>7. \A c \in Content, k \in Nat : Has(s, c, k) => Has(z, c, k)
    BY <1>3 DEF Has
  <1> QED BY <1>1, <1>3, <1>6, <1>7 DEF Keeps

\* The holds of the run are in the tree after it was released.
LEMMA ReleaseKeeps ==
    ASSUME NEW l \in Seq(Leaf), NEW s, SideOK(l, s), s.h = s.r, NEW p
    PROVE  Keeps(s, ReleaseHeld(p, s)) /\ ReleaseHeld(p, s).h = ReleaseHeld(p, s).r
  <1> DEFINE end == RunEnd(s)
             n == Len(s.t)
             pick(i) == CHOOSE x \in s.h : x.pos = i
             run == {x \in s.h : n < x.pos /\ x.pos <= end}
             nt == [i \in 1..end |-> IF i <= n THEN s.t[i] ELSE LeafOf(pick(i))]
             nr == {x \in s.r : ~(n < x.pos /\ x.pos <= end)}
             nw == {x \in s.w : \A y \in run : y.from # p => y.c # x.c}
             z == [s EXCEPT !.t = nt, !.h = @ \ run, !.r = nr, !.w = nw]
  <1>1. ReleaseHeld(p, s) = z
    BY DEF ReleaseHeld
  <1>2. s \in SideType
    BY DEF SideOK
  <1>3. z.t = nt /\ z.h = s.h \ run /\ z.r = nr /\ z.a = s.a
    BY <1>2 DEF SideType
  <1>4. z.h = z.r
    BY <1>3
  <1>5. SideOK(l, z) /\ Grown(s.t, z.t) /\ nt \in Seq(Leaf)
    <2>1. SideOK(l, ReleaseHeld(p, s)) /\ Grown(s.t, ReleaseHeld(p, s).t)
      BY ReleaseOK
    <2>2. z.t \in Seq(Leaf)
      <3> HIDE DEF z
      <3> QED BY <1>1, <2>1 DEF SideOK, SideType
    <2>3. nt \in Seq(Leaf)
      <3> HIDE DEF nt
      <3> QED BY <1>3, <2>2
    <2> HIDE DEF z
    <2> QED BY <1>1, <2>1, <2>3
  <1>6. end \in Nat /\ end >= n /\ n \in Nat
    BY RunEndFacts, RowFacts
  <1>7. Len(nt) = end
    <2>1. DOMAIN nt = 1..end
      OBVIOUS
    <2> HIDE DEF nt
    <2> QED BY <1>5, <1>6, <2>1
  <1>8. ASSUME NEW x \in s.r, n < x.pos, x.pos <= end PROVE x.c \in Hashes(nt)
    <2>1. x.pos \in 1..Len(l) /\ l[x.pos].c = x.c
      BY RowFacts
    <2>2. pick(x.pos) \in s.h /\ pick(x.pos).pos = x.pos
      <3>1. \E y \in s.h : y.pos = x.pos
        OBVIOUS
      <3> QED BY <3>1
    <2>3. LeafOf(pick(x.pos)) = l[x.pos]
      BY <2>2, RowFacts
    <2>4. x.pos \in 1..end /\ nt[x.pos] = l[x.pos]
      BY <1>6, <1>8, <2>1, <2>3
    <2> HIDE DEF nt
    <2> QED BY <1>7, <2>1, <2>4 DEF Hashes
  <1>9. Hashes(s.t) \subseteq Hashes(z.t)
    <2> HIDE DEF nt, z
    <2> QED BY <1>3, <1>5, RowFacts, HashesGrown
  <1> HIDE DEF nt, z, run, nw
  <1>10. Texts(s) \subseteq Texts(z)
    <2>1. \A x \in s.r : x.c \in Hashes(nt) \/ x \in z.r
      BY <1>3, <1>8
    <2> QED BY <1>3, <1>9, <2>1 DEF Texts
  <1>11. ASSUME NEW c \in Content, NEW k \in Nat, Has(s, c, k) PROVE Has(z, c, k)
    <2>1. CASE k <= n
      BY <1>3, <1>6, <1>7, <2>1 DEF Has
    <2>2. CASE \E y \in s.r : y.c = c /\ y.pos = k
      <3>1. PICK y \in s.r : y.c = c /\ y.pos = k
        BY <2>2
      <3>2. y \in z.r \/ k <= end
        BY <1>3, <3>1
      <3> QED BY <1>3, <1>7, <3>1, <3>2 DEF Has
    <2> QED BY <1>11, <2>1, <2>2 DEF Has
  <1> QED BY <1>1, <1>4, <1>10, <1>11 DEF Keeps

\* A hold entered where the log has its leaf hides none.
LEMMA PutKeeps ==
    ASSUME NEW l \in Seq(Leaf), NEW s, SideOK(l, s), s.h = s.r,
           NEW e \in HeldRec, e.pos \in 1..Len(l), l[e.pos] = LeafOf(e)
    PROVE  LET z == [s EXCEPT !.h = PutPos(@, e), !.r = PutPos(@, e)]
           IN  Keeps(s, z) /\ z.h = z.r /\ Has(z, e.c, e.pos) /\ e.c \in Texts(z)
  <1> DEFINE z == [s EXCEPT !.h = PutPos(@, e), !.r = PutPos(@, e)]
  <1>1. s \in SideType
    BY DEF SideOK
  <1>2. z.h = z.r /\ z.r = {x \in s.r : x.pos # e.pos} \cup {e} /\ z.t = s.t /\ z.a = s.a
    BY <1>1 DEF SideType, PutPos
  <1>3. \A x \in s.r : x \in z.r \/ (x.pos = e.pos /\ x.c = e.c)
    <2>1. \A x \in s.r : x.pos = e.pos => x.c = e.c
      <3>1. \A x \in s.r : l[x.pos].c = x.c
        BY RowFacts
      <3>2. l[e.pos].c = e.c
        BY DEF LeafOf
      <3> QED BY <3>1, <3>2
    <2> QED BY <1>2, <2>1
  <1>4. e \in z.r
    BY <1>2
  <1> HIDE DEF z
  <1>5. Texts(s) \subseteq Texts(z) /\ e.c \in Texts(z)
    BY <1>2, <1>3, <1>4 DEF Texts
  <1>6. \A c \in Content, k \in Nat : Has(s, c, k) => Has(z, c, k)
    BY <1>2, <1>3, <1>4 DEF Has
  <1> QED BY <1>2, <1>4, <1>5, <1>6 DEF Keeps, Has, z

\* An appended leaf takes nothing.
LEMMA AppendKeeps ==
    ASSUME NEW l, NEW s, SideOK(l, s), NEW b \in Leaf, NEW z,
           z.t = Append(s.t, b), z.r = s.r, z.a = s.a
    PROVE  Keeps(s, z) /\ b.c \in Texts(z)
  <1>1. s.t \in Seq(Leaf) /\ Len(s.t) \in Nat
    BY DEF SideOK, SideType
  <1>2. z.t \in Seq(Leaf) /\ Grown(s.t, z.t) /\ Len(z.t) = Len(s.t) + 1 /\ z.t[Len(z.t)] = b
    BY <1>1, AppendGrown
  <1>3. Hashes(s.t) \subseteq Hashes(z.t)
    BY <1>1, <1>2, HashesGrown
  <1>4. b.c \in Hashes(z.t)
    BY <1>1, <1>2 DEF Hashes
  <1>5. Texts(s) \subseteq Texts(z)
    BY <1>3 DEF Texts
  <1>6. \A c \in Content, k \in Nat : Has(s, c, k) => Has(z, c, k)
    BY <1>1, <1>2 DEF Has
  <1> QED BY <1>4, <1>5, <1>6 DEF Keeps, Texts

\* placeOwnLeaf takes nothing, and its content has its position then.
LEMMA PlaceKeeps ==
    ASSUME NEW l \in Seq(Leaf), NEW s, SideOK(l, s), s.h = s.r, NEW p \in Party,
           NEW c \in Content, NEW pos \in Nat,
           pos # NoPos => pos \in 1..Len(l) /\ l[pos] = [from |-> p, c |-> c]
    PROVE  /\ Keeps(s, PlaceAt(p, s, c, pos))
           /\ PlaceAt(p, s, c, pos).h = PlaceAt(p, s, c, pos).r
           /\ Has(PlaceAt(p, s, c, pos), c, pos)
  <1> DEFINE b == [from |-> p, c |-> c]
             e == [c |-> c, pos |-> pos, from |-> p]
  <1>1. s \in SideType /\ s.t \in Seq(Leaf) /\ Len(s.t) \in Nat
    BY DEF SideOK, SideType
  <1>2. b \in Leaf /\ e \in HeldRec /\ LeafOf(e) = b /\ e.pos = pos /\ e.c = c
    BY DEF Leaf, HeldRec, LeafOf
  <1>3. CASE pos <= Len(s.t) + 1
    <2> DEFINE z == [s EXCEPT !.t = Append(@, b)]
    <2>1. PlaceAt(p, s, c, pos) = z
      BY <1>3 DEF PlaceAt
    <2>2. z.t = Append(s.t, b) /\ z.h = s.h /\ z.r = s.r /\ z.a = s.a
      <3> HIDE DEF b
      <3> QED BY <1>1 DEF SideType
    <2> HIDE DEF z, b
    <2>3. Keeps(s, z)
      BY <1>2, <2>2, AppendKeeps
    <2>4. Has(z, c, pos)
      BY <1>1, <1>3, <2>2 DEF Has
    <2> QED BY <2>1, <2>2, <2>3, <2>4
  <1>4. CASE ~(pos <= Len(s.t) + 1)
    <2>1. PlaceAt(p, s, c, pos) = [s EXCEPT !.h = PutPos(@, e), !.r = PutPos(@, e)]
      BY <1>4 DEF PlaceAt
    <2>2. pos # NoPos
      BY <1>1, <1>4 DEF NoPos
    <2>3. e.pos \in 1..Len(l) /\ l[e.pos] = LeafOf(e)
      BY <1>2, <2>2
    <2> HIDE DEF e, b
    <2> DEFINE z == [s EXCEPT !.h = PutPos(@, e), !.r = PutPos(@, e)]
    <2>4. Keeps(s, z) /\ z.h = z.r /\ Has(z, e.c, e.pos)
      BY <1>2, <2>3, PutKeeps
    <2>5. PlaceAt(p, s, c, pos) = z
      BY <2>1
    <2> HIDE DEF z
    <2> QED BY <1>2, <2>4, <2>5
  <1> QED BY <1>3, <1>4

\* An appended received leaf is there, with all that was.
LEMMA AppendReceivedKeeps ==
    ASSUME NEW l \in Seq(Leaf), NEW s, SideOK(l, s), s.h = s.r, NEW p \in Party,
           NEW c \in Content
    PROVE  /\ Keeps(s, AppendReceived(p, s, c))
           /\ AppendReceived(p, s, c).h = AppendReceived(p, s, c).r
           /\ c \in Texts(AppendReceived(p, s, c))
  <1> DEFINE b == [from |-> Peer(p), c |-> c]
             y == [s EXCEPT !.t = Append(@, b), !.w = DropHash(@, c)]
  <1>1. s \in SideType /\ s.t \in Seq(Leaf)
    BY DEF SideOK, SideType
  <1>2. b \in Leaf /\ b.c = c
    BY PeerFacts DEF Leaf
  <1>3. AppendReceived(p, s, c) = ReleaseHeld(p, y)
    BY DEF AppendReceived
  <1>4. y \in SideType /\ y.t = Append(s.t, b) /\ y.h = s.h /\ y.r = s.r /\ y.a = s.a
    <2>1. Append(s.t, b) \in Seq(Leaf)
      BY <1>1, <1>2, AppendGrown
    <2>2. DropHash(s.w, c) \subseteq s.w
      BY DEF DropHash
    <2> HIDE DEF b
    <2> QED BY <1>1, <2>1, <2>2 DEF SideType
  <1>5. SideOK(l, y)
    BY <1>4 DEF SideOK
  <1> HIDE DEF y, b
  <1>6. Keeps(s, y) /\ c \in Texts(y)
    BY <1>2, <1>4, AppendKeeps
  <1>7. Keeps(y, ReleaseHeld(p, y)) /\ ReleaseHeld(p, y).h = ReleaseHeld(p, y).r
    BY <1>4, <1>5, ReleaseKeeps
  <1>8. c \in Texts(ReleaseHeld(p, y))
    BY <1>6, <1>7 DEF Keeps
  <1> QED BY <1>3, <1>6, <1>7, <1>8, KeepsTrans

\* A received frame that is held has its row, and hides no other.
LEMMA HoldReceivedKeeps ==
    ASSUME NEW l \in Seq(Leaf), NEW s, SideOK(l, s), s.h = s.r, NEW p \in Party,
           NEW c \in Content, NEW pos \in Nat,
           pos \in 1..Len(l) /\ l[pos] = [from |-> Peer(p), c |-> c]
    PROVE  /\ Keeps(s, HoldReceived(p, s, c, pos))
           /\ HoldReceived(p, s, c, pos).h = HoldReceived(p, s, c, pos).r
           /\ c \in Texts(HoldReceived(p, s, c, pos))
  <1> DEFINE e == [c |-> c, pos |-> pos, from |-> Peer(p)]
  <1>1. e \in HeldRec /\ LeafOf(e) = l[pos] /\ e.pos = pos /\ e.c = c
    BY PeerFacts DEF HeldRec, LeafOf
  <1>2. HoldReceived(p, s, c, pos) = [s EXCEPT !.h = PutPos(@, e), !.r = PutPos(@, e)]
    BY DEF HoldReceived
  <1>3. e.pos \in 1..Len(l) /\ l[e.pos] = LeafOf(e)
    BY <1>1
  <1> HIDE DEF e
  <1> DEFINE z == [s EXCEPT !.h = PutPos(@, e), !.r = PutPos(@, e)]
  <1>4. Keeps(s, z) /\ z.h = z.r /\ e.c \in Texts(z)
    BY <1>1, <1>3, PutKeeps
  <1>5. HoldReceived(p, s, c, pos) = z
    BY <1>2
  <1> HIDE DEF z
  <1> QED BY <1>1, <1>4, <1>5

\* Restoring the holds takes nothing.
LEMMA HydratedKeeps ==
    ASSUME TypeOK, PositionsOK, Mirrored, NEW p \in Party
    PROVE  SideOK(log, Hydrated(p)) /\ Keeps(Side(p), Hydrated(p)) /\ Hydrated(p).h = Hydrated(p).r
           /\ Hydrated(p).t = tree[p] /\ Hydrated(p).w = witnessed[p]
  <1>1. SideOK(log, Side(p)) /\ Side(p).h = held[p] /\ Side(p).r = heldRow[p]
        /\ Side(p).t = tree[p] /\ Side(p).w = witnessed[p]
    BY SideFacts
  <1>2. log \in Seq(Leaf)
    BY DEF TypeOK
  <1>3. CASE hydrated[p]
    BY <1>1, <1>3, KeepsRefl DEF Hydrated, Mirrored
  <1>4. CASE ~hydrated[p]
    <2>1. Hydrated(p) = RestoreHeld(Side(p)) /\ Side(p).h = {}
      BY <1>1, <1>4 DEF Hydrated, Mirrored
    <2>2. SideOK(log, RestoreHeld(Side(p))) /\ RestoreHeld(Side(p)).t = Side(p).t
          /\ RestoreHeld(Side(p)).w = Side(p).w
      BY <1>1, RestoreOK
    <2>3. Keeps(Side(p), RestoreHeld(Side(p)))
          /\ RestoreHeld(Side(p)).h = RestoreHeld(Side(p)).r
      BY <1>1, <1>2, <2>1, RestoreKeeps
    <2> QED BY <1>1, <2>1, <2>2, <2>3
  <1> QED BY <1>3, <1>4

\* ensureHeldRestored takes nothing.
LEMMA EnsureKeeps ==
    ASSUME TypeOK, PositionsOK, Mirrored, NEW p \in Party
    PROVE  Keeps(Side(p), EnsureHeldRestored(p))
           /\ EnsureHeldRestored(p).h = EnsureHeldRestored(p).r
  <1>1. SideOK(log, Hydrated(p)) /\ Keeps(Side(p), Hydrated(p)) /\ Hydrated(p).h = Hydrated(p).r
    BY HydratedKeeps
  <1>2. CASE drained[p]
    BY <1>1, <1>2 DEF EnsureHeldRestored
  <1>3. CASE ~drained[p]
    <2>1. EnsureHeldRestored(p) = ReleaseHeld(p, Hydrated(p))
      BY <1>3 DEF EnsureHeldRestored
    <2>2. log \in Seq(Leaf)
      BY DEF TypeOK
    <2>3. Keeps(Hydrated(p), ReleaseHeld(p, Hydrated(p)))
          /\ ReleaseHeld(p, Hydrated(p)).h = ReleaseHeld(p, Hydrated(p)).r
      BY <1>1, <2>2, ReleaseKeeps
    <2> QED BY <1>1, <2>1, <2>3, KeepsTrans
  <1> QED BY <1>2, <1>3

-----------------------------------------------------------------------------
(* Steps.                                                                  *)

\* No side loses anything in a step.
SidesKept == \A q \in Party : Keeps(Side(q), Side(q)')

\* Writing back a side that has all that was there, with its holds mirrored.
LEMMA CommitKeeps ==
    ASSUME Kept, NEW p \in Party, NEW z, SideOK(log, z), Grown(tree[p], z.t),
           z.w \subseteq witnessed[p], Commit(p, z), log' = log, Keeps(Side(p), z), z.h = z.r
    PROVE  SidesKept /\ Mirrored' /\ Side(p)' = z
  <1>1. TypeOK /\ PositionsOK
    BY DEF Kept, Inv
  <1>2. /\ hydrated'[p] /\ Side(p)' = z
        /\ \A q \in Party : q # p => hydrated'[q] = hydrated[q] /\ Side(q)' = Side(q)
    BY <1>1, CommitFacts
  <1>3. \A q \in Party : Side(q).h = held[q] /\ Side(q).r = heldRow[q]
    BY DEF Side
  <1>4. \A q \in Party : Side(q)'.h = held'[q] /\ Side(q)'.r = heldRow'[q]
    BY DEF Side
  <1>5. SidesKept
    BY <1>2, KeepsRefl DEF SidesKept
  <1>6. Mirrored'
    <2>1. ASSUME NEW q \in Party PROVE held'[q] = IF hydrated'[q] THEN heldRow'[q] ELSE {}
      <3>1. CASE q = p
        BY <1>2, <1>4, <3>1
      <3>2. CASE q # p
        BY <1>2, <1>3, <1>4, <3>2 DEF Kept, Mirrored
      <3> QED BY <3>1, <3>2
    <2> QED BY <2>1 DEF Mirrored
  <1> QED BY <1>2, <1>5, <1>6

\* A step that leaves the records alone.
LEMMA SameSides ==
    ASSUME Kept, UNCHANGED <<tree, heldRow, held, annex, hydrated>>
    PROVE  SidesKept /\ Mirrored'
  <1>1. \A q \in Party : /\ Side(q)'.t = Side(q).t /\ Side(q)'.r = Side(q).r
                         /\ Side(q)'.a = Side(q).a
    BY DEF Side
  <1>2. SidesKept
    BY <1>1 DEF SidesKept, Keeps, Texts, Has
  <1> QED BY <1>2 DEF Kept, Mirrored

\* What was safe stays so if the copies a step drops are safe after it.
LEMMA CoveredKept ==
    ASSUME NEW p \in Party, SidesKept, orphaned[p] \subseteq orphaned'[p],
           \A x \in mailbox[Peer(p)] \cup rows[p] \cup awaiting[p] : x.c \in Covered(p)'
    PROVE  Covered(p) \subseteq Covered(p)'
  <1>1. Texts(Side(Peer(p))) \subseteq Texts(Side(Peer(p))')
    BY PeerFacts DEF SidesKept, Keeps
  <1>2. Texts(Side(Peer(p))') \cup orphaned'[p] \subseteq Covered(p)'
    BY DEF Covered
  <1>3. ASSUME NEW c \in Covered(p) PROVE c \in Covered(p)'
    <2>1. \/ c \in Texts(Side(Peer(p))) \cup orphaned[p]
          \/ \E x \in mailbox[Peer(p)] \cup rows[p] \cup awaiting[p] : x.c = c
      BY DEF Covered
    <2> QED BY <1>1, <1>2, <2>1
  <1> QED BY <1>3

\* A step that starts, stages and ends no send keeps all if what it drops is safe.
LEMMA QuietKept ==
    ASSUME Kept, Inv', SidesKept, Mirrored', UNCHANGED <<out, told, orphaned, crashes>>,
           \A p \in Party : rows'[p] \cup awaiting'[p] \subseteq rows[p] \cup awaiting[p],
           \A p \in Party : \A x \in mailbox[Peer(p)] \cup rows[p] \cup awaiting[p] :
              x.c \in Covered(p)'
    PROVE  Kept'
  <1>1. NothingUncovered'
    <2>1. ASSUME NEW p \in Party PROVE Promised(p)' \subseteq Covered(p)'
      <3>1. Covered(p) \subseteq Covered(p)'
        BY CoveredKept
      <3>2. Promised(p)' = Promised(p)
        BY DEF Promised
      <3> QED BY <3>1, <3>2 DEF Kept, NothingUncovered
    <2> QED BY <2>1 DEF NothingUncovered
  <1>2. OwnPositions'
    BY DEF Kept, OwnPositions, Unconfirmed
  <1>3. PositionsKept'
    <2>1. ASSUME crashes' = 0, NEW p \in Party, NEW x \in rows'[p] \cup awaiting'[p]
          PROVE  KeptAt(p, x)'
      <3>1. KeptAt(p, x)
        BY <2>1 DEF Kept, PositionsKept, Unconfirmed
      <3>2. x.c \in Content /\ x.pos \in Nat
        BY DEF Kept, Inv, TypeOK, Frame
      <3>3. Has(Side(p), x.c, x.pos) => Has(Side(p)', x.c, x.pos)
        BY <3>2 DEF SidesKept, Keeps
      <3> QED BY <3>1, <3>3 DEF KeptAt
    <2> QED BY <2>1 DEF PositionsKept, Unconfirmed
  <1> QED BY <1>1, <1>2, <1>3 DEF Kept

\* Copies that stay are safe.
LEMMA CopiesCovered ==
    ASSUME NEW p \in Party
    PROVE  /\ \A x \in mailbox'[Peer(p)] \cup rows'[p] \cup awaiting'[p] : x.c \in Covered(p)'
           /\ \A c \in Texts(Side(Peer(p))') : c \in Covered(p)'
  BY DEF Covered

\* A step that neither touches a record nor drops a copy.
LEMMA StillKept ==
    ASSUME Kept, Inv', UNCHANGED <<tree, heldRow, held, annex, hydrated, rows, awaiting, mailbox,
                                   out, told, orphaned, crashes>>
    PROVE  Kept'
  <1>1. SidesKept /\ Mirrored'
    BY SameSides
  <1>2. \A p \in Party : \A x \in mailbox[Peer(p)] \cup rows[p] \cup awaiting[p] : x.c \in Covered(p)'
    BY CopiesCovered
  <1> QED BY <1>1, <1>2, QuietKept

\* LeafDeliver keeps all.
LEMMA LeafDeliverKept ==
    ASSUME Kept, Inv', NEW p \in Party, LeafDeliver(p)
    PROVE  Kept'
  <1>1. UNCHANGED <<tree, heldRow, held, annex, hydrated, rows, awaiting, mailbox,
                    out, told, orphaned, crashes>>
    BY DEF LeafDeliver, sendVars
  <1> QED BY <1>1, StillKept

\* CounterSubmit keeps all.
LEMMA CounterSubmitKept ==
    ASSUME Kept, Inv', NEW p \in Party, NEW c \in counter[p], CounterSubmit(p, c)
    PROVE  Kept'
  <1>1. UNCHANGED <<tree, heldRow, held, annex, hydrated, rows, awaiting, mailbox,
                    out, told, orphaned, crashes>>
    BY DEF CounterSubmit, sendVars, heldVars, histVars
  <1> QED BY <1>1, StillKept

\* What is lost on a stream has another copy.
LEMMA LossKept ==
    ASSUME Kept, Inv', NEW f,
           \/ LoseFrame(f) \/ LoseAck(f) \/ (f \in Party /\ LoseLeaf(f))
    PROVE  Kept'
  <1>1. UNCHANGED <<tree, heldRow, held, annex, hydrated, rows, awaiting, mailbox,
                    out, told, orphaned, crashes>>
    BY DEF LoseFrame, LoseAck, LoseLeaf, sendVars, heldVars, relayVars
  <1> QED BY <1>1, StillKept

\* TtfExpiry moves a copy from the armed timer to the durable queue.
LEMMA TtfExpiryKept ==
    ASSUME Kept, Inv', NEW p \in Party, NEW x \in awaiting[p], TtfExpiry(p, x)
    PROVE  Kept'
  <1>1. /\ awaiting' = [awaiting EXCEPT ![p] = @ \ {x}]
        /\ rows' = [rows EXCEPT ![p] = IF \E y \in @ : y.c = x.c THEN @ ELSE @ \cup {x}]
        /\ \/ mailbox' = [mailbox EXCEPT ![Peer(p)] = @ \cup {x}]
           \/ mailbox' = mailbox
        /\ UNCHANGED <<tree, heldRow, held, annex, hydrated, out, told, orphaned, crashes>>
    BY DEF TtfExpiry, sendVars, heldVars
  <1>2. SidesKept /\ Mirrored'
    BY <1>1, SameSides
  <1>3. /\ \A q \in Party : q # p => rows'[q] = rows[q] /\ awaiting'[q] = awaiting[q]
        /\ \A q \in Party : mailbox[q] \subseteq mailbox'[q]
        /\ rows'[p] = IF \E y \in rows[p] : y.c = x.c THEN rows[p] ELSE rows[p] \cup {x}
        /\ awaiting'[p] = awaiting[p] \ {x}
    <2>1. awaiting \in [Party -> SUBSET Frame] /\ rows \in [Party -> SUBSET Frame]
          /\ mailbox \in [Party -> SUBSET Frame]
      BY DEF Kept, Inv, TypeOK
    <2>2. \A q \in Party : q # p => rows'[q] = rows[q] /\ awaiting'[q] = awaiting[q]
      BY <1>1, <2>1
    <2>3. \A q \in Party : mailbox[q] \subseteq mailbox'[q]
      BY <1>1, <2>1
    <2>4. rows'[p] = IF \E y \in rows[p] : y.c = x.c THEN rows[p] ELSE rows[p] \cup {x}
      BY <1>1, <2>1
    <2>5. awaiting'[p] = awaiting[p] \ {x}
      BY <1>1, <2>1
    <2> QED BY <2>2, <2>3, <2>4, <2>5
  <1>4. \A q \in Party : rows'[q] \cup awaiting'[q] \subseteq rows[q] \cup awaiting[q]
    BY <1>3
  <1>5. ASSUME NEW q \in Party, NEW y \in mailbox[Peer(q)] \cup rows[q] \cup awaiting[q]
        PROVE  y.c \in Covered(q)'
    <2>1. \E w \in mailbox'[Peer(q)] \cup rows'[q] \cup awaiting'[q] : w.c = y.c
      BY <1>3, PeerFacts
    <2> QED BY <2>1, CopiesCovered
  <1> QED BY <1>1, <1>2, <1>4, <1>5, QuietKept

\* FlushAwaiting moves a copy from the durable queue to the mailbox.
LEMMA FlushAwaitingKept ==
    ASSUME Kept, Inv', NEW p \in Party, NEW x \in rows[p], FlushAwaiting(p, x)
    PROVE  Kept'
  <1>1. /\ rows' = [rows EXCEPT ![p] = DropHash(@, x.c)]
        /\ mailbox' = [mailbox EXCEPT ![Peer(p)] = @ \cup {x}]
        /\ UNCHANGED <<tree, heldRow, held, annex, hydrated, awaiting, out, told, orphaned, crashes>>
    BY DEF FlushAwaiting, sendVars, heldVars, histVars
  <1>2. SidesKept /\ Mirrored'
    BY <1>1, SameSides
  <1>3. /\ \A q \in Party : q # p => rows'[q] = rows[q]
        /\ \A q \in Party : mailbox[q] \subseteq mailbox'[q]
        /\ rows'[p] = {y \in rows[p] : y.c # x.c} /\ x \in mailbox'[Peer(p)]
    BY <1>1, PeerFacts DEF Kept, Inv, TypeOK, DropHash
  <1>4. \A q \in Party : rows'[q] \cup awaiting'[q] \subseteq rows[q] \cup awaiting[q]
    BY <1>1, <1>3
  <1>5. ASSUME NEW q \in Party, NEW y \in mailbox[Peer(q)] \cup rows[q] \cup awaiting[q]
        PROVE  y.c \in Covered(q)'
    <2>1. \E w \in mailbox'[Peer(q)] \cup rows'[q] \cup awaiting'[q] : w.c = y.c
      BY <1>1, <1>3, PeerFacts
    <2> QED BY <2>1, CopiesCovered
  <1> QED BY <1>1, <1>2, <1>4, <1>5, QuietKept

\* DeliveryAck drops copies of what the counterparty has in its tree.
LEMMA DeliveryAckKept ==
    ASSUME Kept, Inv', NEW p \in Party, NEW a \in ackw, DeliveryAck(p, a)
    PROVE  Kept'
  <1>1. /\ a.to = p
        /\ awaiting' \in {awaiting, [awaiting EXCEPT ![p] = DropHash(@, a.c)]}
        /\ rows' \in {rows, [rows EXCEPT ![p] = DropHash(@, a.c)]}
        /\ UNCHANGED <<mailbox, tree, heldRow, held, annex, hydrated, out, told, orphaned, crashes>>
    <2>1. /\ a.to = p
          /\ UNCHANGED <<mailbox, tree, heldRow, held, annex, hydrated, out, told, orphaned, crashes>>
      BY DEF DeliveryAck, sendVars, heldVars, histVars
    <2>2. awaiting \in [Party -> SUBSET Frame] /\ rows \in [Party -> SUBSET Frame]
      BY DEF Kept, Inv, TypeOK
    <2>3. awaiting' \in {awaiting, [awaiting EXCEPT ![p] = DropHash(@, a.c)]}
      BY <2>2 DEF DeliveryAck
    <2>4. rows' \in {rows, [rows EXCEPT ![p] = DropHash(@, a.c)]}
      BY <2>2 DEF DeliveryAck
    <2> QED BY <2>1, <2>3, <2>4
  <1>2. SidesKept /\ Mirrored'
    BY <1>1, SameSides
  <1>3. /\ \A q \in Party : q # p => rows'[q] = rows[q] /\ awaiting'[q] = awaiting[q]
        /\ \A y \in rows[p] : y \in rows'[p] \/ y.c = a.c
        /\ \A y \in awaiting[p] : y \in awaiting'[p] \/ y.c = a.c
        /\ rows'[p] \subseteq rows[p] /\ awaiting'[p] \subseteq awaiting[p]
    BY <1>1 DEF Kept, Inv, TypeOK, DropHash
  <1>4. \A q \in Party : rows'[q] \cup awaiting'[q] \subseteq rows[q] \cup awaiting[q]
    BY <1>3
  <1>5. a.c \in Covered(p)'
    <2>1. a.c \in Hashes(tree[Peer(p)])
      BY <1>1 DEF Kept, Inv, AcksOK
    <2>2. a.c \in Texts(Side(Peer(p))')
      BY <1>1, <2>1 DEF Texts, Side
    <2> QED BY <2>2, CopiesCovered
  <1>6. ASSUME NEW q \in Party, NEW y \in mailbox[Peer(q)] \cup rows[q] \cup awaiting[q]
        PROVE  y.c \in Covered(q)'
    <2>1. y \in mailbox'[Peer(q)] \cup rows'[q] \cup awaiting'[q] \/ (q = p /\ y.c = a.c)
      BY <1>1, <1>3
    <2> QED BY <1>5, <2>1, CopiesCovered
  <1> QED BY <1>1, <1>2, <1>4, <1>6, QuietKept

\* Two sides with the same tree, rows and annex have the same.
LEMMA KeepsSame ==
    ASSUME NEW s, NEW u, NEW z, Keeps(s, u), z.t = u.t, z.r = u.r, z.a = u.a
    PROVE  Keeps(s, z)
  BY DEF Keeps, Texts, Has

\* ReadSealReadiness restores the holds, which takes nothing.
LEMMA ReadSealReadinessKeeps ==
    ASSUME Kept, NEW p \in Party, ReadSealReadiness(p)
    PROVE  SidesKept /\ Mirrored'
  <1> DEFINE s == Hydrated(p)
  <1>1. /\ held' = [held EXCEPT ![p] = s.h] /\ heldRow' = [heldRow EXCEPT ![p] = s.r]
        /\ annex' = [annex EXCEPT ![p] = s.a] /\ hydrated' = [hydrated EXCEPT ![p] = TRUE]
        /\ UNCHANGED <<tree, rows, awaiting, mailbox, out, told, orphaned, crashes>>
    BY DEF ReadSealReadiness, histVars
  <1>2. Keeps(Side(p), s) /\ s.h = s.r /\ s.t = tree[p]
    BY HydratedKeeps DEF Kept, Inv
  <1> HIDE DEF s
  <1>3. /\ held \in [Party -> SUBSET HeldRec] /\ heldRow \in [Party -> SUBSET HeldRec]
        /\ annex \in [Party -> SUBSET Content] /\ hydrated \in [Party -> BOOLEAN]
    BY DEF Kept, Inv, TypeOK
  <1>4. held'[p] = s.h /\ heldRow'[p] = s.r /\ annex'[p] = s.a /\ hydrated'[p]
    BY <1>1, <1>3
  <1>5. \A q \in Party : q # p => /\ held'[q] = held[q] /\ heldRow'[q] = heldRow[q]
                                  /\ annex'[q] = annex[q] /\ hydrated'[q] = hydrated[q]
    BY <1>1, <1>3
  <1>6. SidesKept
    <2>1. ASSUME NEW q \in Party PROVE Keeps(Side(q), Side(q)')
      <3>1. Side(q)'.t = tree[q] /\ Side(q)'.r = heldRow'[q] /\ Side(q)'.a = annex'[q]
            /\ Side(q).t = tree[q] /\ Side(q).r = heldRow[q] /\ Side(q).a = annex[q]
        BY <1>1 DEF Side
      <3>2. CASE q = p
        <4>1. Side(q)'.t = s.t /\ Side(q)'.r = s.r /\ Side(q)'.a = s.a
          BY <1>2, <1>4, <3>1, <3>2
        <4>2. Keeps(Side(q), s)
          BY <1>2, <3>2
        <4> QED BY <4>1, <4>2, KeepsSame
      <3>3. CASE q # p
        BY <1>5, <3>1, <3>3, KeepsRefl, KeepsSame
      <3> QED BY <3>2, <3>3
    <2> QED BY <2>1 DEF SidesKept
  <1>7. Mirrored'
    <2>1. ASSUME NEW q \in Party PROVE held'[q] = IF hydrated'[q] THEN heldRow'[q] ELSE {}
      <3>1. CASE q = p
        BY <1>2, <1>4, <3>1
      <3>2. CASE q # p
        BY <1>5, <3>2 DEF Kept, Mirrored
      <3> QED BY <3>1, <3>2
    <2> QED BY <2>1 DEF Mirrored
  <1> QED BY <1>6, <1>7

\* ReadSealReadiness keeps all.
LEMMA ReadSealReadinessKept ==
    ASSUME Kept, Inv', NEW p \in Party, ReadSealReadiness(p)
    PROVE  Kept'
  <1>1. UNCHANGED <<rows, awaiting, mailbox, out, told, orphaned, crashes>>
    BY DEF ReadSealReadiness, histVars
  <1>2. \A q \in Party : \A x \in mailbox[Peer(q)] \cup rows[q] \cup awaiting[q] : x.c \in Covered(q)'
    BY <1>1, CopiesCovered
  <1> QED BY <1>1, <1>2, ReadSealReadinessKeeps, QuietKept

\* A frame goes to the screen after the holds were restored and released.
LEMMA ArrivalKeeps ==
    ASSUME Kept, NEW p \in Party, Commit(p, EnsureHeldRestored(p)), log' = log
    PROVE  SidesKept /\ Mirrored'
  <1>1. /\ SideOK(log, EnsureHeldRestored(p)) /\ Grown(tree[p], EnsureHeldRestored(p).t)
        /\ EnsureHeldRestored(p).w \subseteq witnessed[p]
    BY EnsureFacts DEF Kept, Inv
  <1>2. Keeps(Side(p), EnsureHeldRestored(p)) /\ EnsureHeldRestored(p).h = EnsureHeldRestored(p).r
    BY EnsureKeeps DEF Kept, Inv
  <1> QED BY <1>1, <1>2, CommitKeeps

\* ContentFrame drops no copy but the frame.
LEMMA ContentFrameKept ==
    ASSUME Kept, Inv', NEW p \in Party, NEW f \in wire, ContentFrame(p, f)
    PROVE  Kept' /\ SidesKept
  <1>1. UNCHANGED <<log, rows, awaiting, mailbox, out, told, orphaned, crashes>>
    BY DEF ContentFrame, sendVars, relayVars, histVars
  <1>2. SidesKept /\ Mirrored'
    <2>1. CASE UNCHANGED heldVars
      BY <2>1, SameSides DEF heldVars
    <2>2. CASE Commit(p, EnsureHeldRestored(p))
      BY <1>1, <2>2, ArrivalKeeps
    <2> QED BY <2>1, <2>2 DEF ContentFrame
  <1>3. \A q \in Party : \A x \in mailbox[Peer(q)] \cup rows[q] \cup awaiting[q] : x.c \in Covered(q)'
    BY <1>1, CopiesCovered
  <1> QED BY <1>1, <1>2, <1>3, QuietKept

\* The relay's copies of a content for p go when p has it.
LEMMA MailboxDrop ==
    ASSUME Kept, NEW p \in Party, NEW c,
           mailbox' \in {mailbox, [mailbox EXCEPT ![p] = DropHash(@, c)]},
           mailbox' # mailbox => c \in Texts(Side(p)'), UNCHANGED <<rows, awaiting>>
    PROVE  \A q \in Party : \A x \in mailbox[Peer(q)] \cup rows[q] \cup awaiting[q] :
              x.c \in Covered(q)'
  <1>1. CASE mailbox' = mailbox
    BY <1>1, CopiesCovered
  <1>2. CASE mailbox' # mailbox
    <2>1. mailbox' = [mailbox EXCEPT ![p] = DropHash(@, c)] /\ c \in Texts(Side(p)')
      BY <1>2
    <2>2. \A q \in Party : \A x \in mailbox[q] : x \in mailbox'[q] \/ (q = p /\ x.c = c)
      BY <2>1 DEF Kept, Inv, TypeOK, DropHash
    <2>3. ASSUME NEW q \in Party, NEW x \in mailbox[Peer(q)] \cup rows[q] \cup awaiting[q]
          PROVE  x.c \in Covered(q)'
      <3>1. \/ x \in mailbox'[Peer(q)] \cup rows'[q] \cup awaiting'[q]
            \/ Peer(q) = p /\ x.c = c
        BY <2>2, PeerFacts
      <3>2. Peer(q) = p => \A d \in Texts(Side(p)') : d \in Covered(q)'
        BY CopiesCovered
      <3> QED BY <2>1, <3>1, <3>2, CopiesCovered
    <2> QED BY <2>3
  <1> QED BY <1>1, <1>2

\* RecoverParked releases the relay's copy of what is in the tree.
LEMMA RecoverParkedKept ==
    ASSUME Kept, Inv', NEW p \in Party, NEW f \in mailbox[p], RecoverParked(p, f)
    PROVE  Kept' /\ SidesKept
  <1>1. UNCHANGED <<log, rows, awaiting, out, told, orphaned, crashes>>
    BY DEF RecoverParked, sendVars, relayVars, histVars
  <1>2. f.pos \in Nat
    BY DEF Kept, Inv, TypeOK, Frame
  <1>3. CASE DupOnArrival(tree[p], f.c, f.pos)
    <2>1. /\ mailbox' = [mailbox EXCEPT ![p] = DropHash(@, f.c)]
          /\ UNCHANGED <<tree, heldRow, held, annex, hydrated>>
      BY <1>3 DEF RecoverParked, heldVars
    <2>2. SidesKept /\ Mirrored'
      BY <2>1, SameSides
    <2>3. f.c \in Hashes(tree[p])
      BY <1>2, <1>3, DupFacts
    <2>4. f.c \in Texts(Side(p)')
      BY <2>1, <2>3 DEF Texts, Side
    <2>5. \A q \in Party : \A x \in mailbox[Peer(q)] \cup rows[q] \cup awaiting[q] : x.c \in Covered(q)'
      <3>1. mailbox' \in {mailbox, [mailbox EXCEPT ![p] = DropHash(@, f.c)]}
        BY <2>1
      <3> QED BY <1>1, <2>4, <3>1, MailboxDrop
    <2> QED BY <1>1, <2>2, <2>5, QuietKept
  <1>4. CASE ~DupOnArrival(tree[p], f.c, f.pos)
    <2>1. Commit(p, EnsureHeldRestored(p)) /\ mailbox' = mailbox
      BY <1>4 DEF RecoverParked
    <2>2. SidesKept /\ Mirrored'
      BY <1>1, <2>1, ArrivalKeeps
    <2>3. \A q \in Party : \A x \in mailbox[Peer(q)] \cup rows[q] \cup awaiting[q] : x.c \in Covered(q)'
      BY <1>1, <2>1, CopiesCovered
    <2> QED BY <1>1, <2>1, <2>2, <2>3, QuietKept
  <1> QED BY <1>3, <1>4

\* ScreenVerdict records or holds the content before the relay's copy goes.
LEMMA ScreenVerdictKept ==
    ASSUME Kept, Inv', NEW p \in Party, NEW f \in screening[p], NEW v, ScreenVerdict(p, f, v)
    PROVE  Kept' /\ SidesKept
  <1> DEFINE s == EnsureHeldRestored(p)
             pos == CanonicalPos(p, f)
  <1>1. UNCHANGED <<log, rows, awaiting, out, told, orphaned, crashes>>
    BY DEF ScreenVerdict, sendVars, relayVars
  <1>2. f.pos \in Nat /\ f.c \in Content /\ log \in Seq(Leaf) /\ tree[p] \in Seq(Leaf)
    <2>1. f \in Ingress
      BY DEF Kept, Inv, TypeOK
    <2> QED BY <2>1 DEF Kept, Inv, TypeOK, Ingress
  <1>3. /\ SideOK(log, s) /\ Keeps(Side(p), s) /\ s.h = s.r /\ Len(s.t) \in Nat
    <2>1. SideOK(log, s)
      BY EnsureFacts DEF Kept, Inv
    <2>2. Keeps(Side(p), s) /\ s.h = s.r
      BY EnsureKeeps DEF Kept, Inv
    <2> HIDE DEF s
    <2> QED BY <2>1, <2>2 DEF SideOK, SideType
  <1>4. \/ UNCHANGED <<heldVars, mailbox>>
        \/ /\ DupAfterScreen(tree[p], f.c, f.pos)
           /\ Settle(p, f, v) /\ UNCHANGED heldVars
        \/ /\ ~DupAfterScreen(tree[p], f.c, f.pos) /\ pos > Len(s.t) + 1
           /\ Commit(p, HoldReceived(p, s, f.c, pos)) /\ mailbox' = mailbox
        \/ /\ ~DupAfterScreen(tree[p], f.c, f.pos) /\ pos <= Len(s.t) + 1
           /\ Commit(p, AppendReceived(p, s, f.c)) /\ Settle(p, f, v)
    BY DEF ScreenVerdict
  <1>5. Settle(p, f, v) => mailbox' \in {mailbox, [mailbox EXCEPT ![p] = DropHash(@, f.c)]}
    BY DEF Settle
  <1>6. CASE UNCHANGED <<heldVars, mailbox>>
    <2>1. UNCHANGED <<tree, heldRow, held, annex, hydrated, rows, awaiting, mailbox,
                      out, told, orphaned, crashes>>
      BY <1>1, <1>6 DEF heldVars
    <2> QED BY <2>1, StillKept, SameSides
  <1>7. CASE DupAfterScreen(tree[p], f.c, f.pos) /\ Settle(p, f, v) /\ UNCHANGED heldVars
    <2>1. SidesKept /\ Mirrored'
      BY <1>7, SameSides DEF heldVars
    <2>2. f.c \in Hashes(tree[p])
      BY <1>2, <1>7, DupFacts
    <2>3. f.c \in Texts(Side(p)')
      BY <1>7, <2>2 DEF Texts, Side, heldVars
    <2>4. \A q \in Party : \A x \in mailbox[Peer(q)] \cup rows[q] \cup awaiting[q] : x.c \in Covered(q)'
      BY <1>1, <1>5, <1>7, <2>3, MailboxDrop
    <2> QED BY <1>1, <2>1, <2>4, QuietKept
  <1>8. CASE /\ ~DupAfterScreen(tree[p], f.c, f.pos) /\ pos > Len(s.t) + 1
             /\ Commit(p, HoldReceived(p, s, f.c, pos)) /\ mailbox' = mailbox
    <2> DEFINE z == HoldReceived(p, s, f.c, pos)
    <2>1. SideOK(log, z) /\ Grown(tree[p], z.t) /\ z.w \subseteq witnessed[p]
      BY <1>1, <1>8, VerdictFacts DEF Kept
    <2>2. pos \in Nat /\ pos \in 1..Len(log) /\ log[pos] = [from |-> Peer(p), c |-> f.c]
      <3>1. pos \in Nat /\ (pos # NoPos => pos \in 1..Len(log) /\ log[pos] = [from |-> Peer(p), c |-> f.c])
        BY CanonicalFacts DEF Kept
      <3> HIDE DEF s, pos
      <3> QED BY <1>3, <1>8, <3>1 DEF NoPos
    <2> HIDE DEF s, pos
    <2>3. Keeps(s, z) /\ z.h = z.r
      BY <1>2, <1>3, <2>2, HoldReceivedKeeps
    <2>4. Commit(p, z)
      BY <1>8
    <2> HIDE DEF z
    <2>5. Keeps(Side(p), z)
      BY <1>3, <2>3, KeepsTrans
    <2>6. SidesKept /\ Mirrored'
      BY <1>1, <2>1, <2>3, <2>4, <2>5, CommitKeeps
    <2>7. \A q \in Party : \A x \in mailbox[Peer(q)] \cup rows[q] \cup awaiting[q] : x.c \in Covered(q)'
      BY <1>1, <1>8, CopiesCovered
    <2> QED BY <1>1, <1>8, <2>6, <2>7, QuietKept
  <1>9. CASE /\ ~DupAfterScreen(tree[p], f.c, f.pos) /\ pos <= Len(s.t) + 1
             /\ Commit(p, AppendReceived(p, s, f.c)) /\ Settle(p, f, v)
    <2> DEFINE z == AppendReceived(p, s, f.c)
    <2>1. SideOK(log, z) /\ Grown(tree[p], z.t) /\ z.w \subseteq witnessed[p]
      BY <1>1, <1>9, VerdictFacts DEF Kept
    <2> HIDE DEF s, pos
    <2>3. Keeps(s, z) /\ z.h = z.r /\ f.c \in Texts(z)
      BY <1>2, <1>3, AppendReceivedKeeps
    <2>4. Commit(p, z)
      BY <1>9
    <2> HIDE DEF z
    <2>5. Keeps(Side(p), z)
      BY <1>3, <2>3, KeepsTrans
    <2>6. SidesKept /\ Mirrored' /\ Side(p)' = z
      BY <1>1, <2>1, <2>3, <2>4, <2>5, CommitKeeps
    <2>7. \A q \in Party : \A x \in mailbox[Peer(q)] \cup rows[q] \cup awaiting[q] : x.c \in Covered(q)'
      BY <1>1, <1>5, <1>9, <2>3, <2>6, MailboxDrop
    <2> QED BY <1>1, <2>6, <2>7, QuietKept
  <1> HIDE DEF s, pos
  <1> QED BY <1>4, <1>6, <1>7, <1>8, <1>9

-----------------------------------------------------------------------------
(* Steps of a send.                                                        *)

\* A new send at the end of the log, or without a position, is the only one there.
LEMMA NewSendKept ==
    ASSUME Kept, Inv', NEW p \in Party, NEW o \in Sending, o.st # "sent",
           o.pos = NoPos \/ o.pos = Len(log) + 1, out' = [out EXCEPT ![p] = @ \cup {o}],
           UNCHANGED <<tree, heldRow, held, annex, hydrated, rows, awaiting, mailbox,
                       told, orphaned, crashes>>
    PROVE  Kept'
  <1>1. SidesKept /\ Mirrored'
    BY SameSides
  <1>2. /\ out'[p] = out[p] \cup {o} /\ \A q \in Party : q # p => out'[q] = out[q]
    BY DEF Kept, Inv, TypeOK
  <1>3. NothingUncovered'
    <2>1. ASSUME NEW q \in Party PROVE Promised(q)' \subseteq Covered(q)'
      <3>1. \A x \in mailbox[Peer(q)] \cup rows[q] \cup awaiting[q] : x.c \in Covered(q)'
        BY CopiesCovered
      <3>2. Covered(q) \subseteq Covered(q)'
        BY <1>1, <3>1, CoveredKept
      <3>3. {x \in out'[q] : x.st = "sent"} = {x \in out[q] : x.st = "sent"}
        BY <1>2
      <3>4. Promised(q)' = Promised(q)
        BY <3>3 DEF Promised
      <3> QED BY <3>2, <3>4 DEF Kept, NothingUncovered
    <2> QED BY <2>1 DEF NothingUncovered
  <1>4. OwnPositions'
    <2>1. /\ \A x \in out[p] : x.pos \in Nat /\ x.pos <= Len(log)
          /\ \A x \in Unconfirmed(p) : x.pos \in Nat /\ x.pos <= Len(log)
          /\ Len(log) \in Nat
      <3>1. Len(log) \in Nat /\ (\A x \in out[p] : x.pos \in Nat)
            /\ \A x \in Unconfirmed(p) : x.pos \in Nat
        BY DEF Kept, Inv, TypeOK, Sending, Frame, Unconfirmed
      <3>2. (\A x \in out[p] : At(log, x, p)) /\ \A x \in Unconfirmed(p) : At(log, x, p)
        BY DEF Kept, Inv, PositionsOK, PositionsIn, Unconfirmed
      <3>3. \A x : x.pos \in Nat /\ At(log, x, p) => x.pos <= Len(log)
        BY <3>1 DEF At, NoPos
      <3> QED BY <3>1, <3>2, <3>3
    <2>2. ASSUME NEW q \in Party, NEW x \in out'[q], x.pos # NoPos
          PROVE  /\ \A y \in out'[q] : y.pos = x.pos => y = x
                 /\ x.st # "sent" => \A y \in rows'[q] \cup awaiting'[q] : y.pos # x.pos
      <3>1. CASE q # p
        BY <1>2, <2>2, <3>1 DEF Kept, OwnPositions, Unconfirmed
      <3>2. CASE q = p
        <4>1. CASE x = o
          BY <1>2, <2>1, <2>2, <3>2, <4>1 DEF Unconfirmed
        <4>2. CASE x # o
          BY <1>2, <2>1, <2>2, <3>2, <4>2 DEF Kept, OwnPositions, Unconfirmed
        <4> QED BY <4>1, <4>2
      <3> QED BY <3>1, <3>2
    <2> QED BY <2>2 DEF OwnPositions, Unconfirmed
  <1>5. PositionsKept'
    <2>1. ASSUME crashes' = 0, NEW q \in Party, NEW x \in rows'[q] \cup awaiting'[q]
          PROVE  KeptAt(q, x)'
      <3>1. KeptAt(q, x)
        BY <2>1 DEF Kept, PositionsKept, Unconfirmed
      <3>2. x.c \in Content /\ x.pos \in Nat
        BY DEF Kept, Inv, TypeOK, Frame
      <3>3. Has(Side(q), x.c, x.pos) => Has(Side(q)', x.c, x.pos)
        BY <1>1, <3>2 DEF SidesKept, Keeps
      <3>4. out[q] \subseteq out'[q]
        BY <1>2
      <3> QED BY <3>1, <3>3, <3>4 DEF KeptAt
    <2> QED BY <2>1 DEF PositionsKept, Unconfirmed
  <1> QED BY <1>1, <1>3, <1>4, <1>5 DEF Kept

\* Submit keeps all.
LEMMA SubmitKept ==
    ASSUME Kept, Inv', NEW p \in Party, NEW c \in Content, Submit(p, c)
    PROVE  Kept'
  <1> DEFINE o == [c |-> c, pos |-> Len(log) + 1, st |-> "submitted"]
  <1>1. o \in Sending /\ o.st # "sent" /\ o.pos = Len(log) + 1
    <2>1. Len(log) \in Nat
      BY DEF Kept, Inv, TypeOK
    <2> QED BY <2>1 DEF Sending
  <1>2. /\ out' = [out EXCEPT ![p] = @ \cup {o}]
        /\ UNCHANGED <<tree, heldRow, held, annex, hydrated, rows, awaiting, mailbox,
                       told, orphaned, crashes>>
    BY DEF Submit, heldVars
  <1> HIDE DEF o
  <1> QED BY <1>1, <1>2, NewSendKept

\* SubmitUnreachable keeps all.
LEMMA SubmitUnreachableKept ==
    ASSUME Kept, Inv', NEW p \in Party, NEW c \in Content, SubmitUnreachable(p, c)
    PROVE  Kept'
  <1> DEFINE o == [c |-> c, pos |-> NoPos, st |-> "ready"]
  <1>1. o \in Sending /\ o.st # "sent" /\ o.pos = NoPos
    BY DEF Sending, NoPos
  <1>2. /\ out' = [out EXCEPT ![p] = @ \cup {o}]
        /\ UNCHANGED <<tree, heldRow, held, annex, hydrated, rows, awaiting, mailbox,
                       told, orphaned, crashes>>
    BY DEF SubmitUnreachable, heldVars
  <1> HIDE DEF o
  <1> QED BY <1>1, <1>2, NewSendKept

\* A send leaves a stage: what it carried on is in its next stage, or placed, or among
\* the copies.
LEMMA SendKept ==
    ASSUME Kept, Inv', SidesKept, Mirrored', NEW p \in Party, NEW o \in out[p],
           UNCHANGED <<orphaned, crashes>>,
           \A q \in Party : q # p => UNCHANGED <<out[q], told[q], rows[q], awaiting[q]>>,
           \A q \in Party : mailbox[q] \subseteq mailbox'[q],
           \* its next stage, if it has one
           NEW S, out'[p] = (out[p] \ {o}) \cup S,
           \A x \in S : /\ x.c = o.c /\ (x.pos = o.pos \/ x.pos = NoPos)
                        /\ x.st # "sent" => o.st # "sent" /\ UNCHANGED <<rows[p], awaiting[p]>>,
           \A x, y \in S : x = y,
           \* what it adds to the copies and to what is promised
           \A x \in rows'[p] \cup awaiting'[p] :
              x \in rows[p] \cup awaiting[p] \/ (x.c = o.c /\ x.pos = o.pos),
           \A x \in rows[p] \cup awaiting[p] : x.c \in Covered(p)',
           Promised(p)' \subseteq Promised(p) \cup Covered(p)',
           \* the position it leaves
           \A x \in rows'[p] \cup awaiting'[p] : x.c = o.c /\ x.pos = o.pos => KeptAt(p, x)'
    PROVE  Kept'
  <1>1. NothingUncovered'
    <2>1. ASSUME NEW q \in Party PROVE Promised(q)' \subseteq Covered(q)'
      <3>1. \A x \in mailbox[Peer(q)] : x.c \in Covered(q)'
        BY PeerFacts, CopiesCovered
      <3>2. \A x \in rows[q] \cup awaiting[q] : x.c \in Covered(q)'
        BY CopiesCovered
      <3>3. Covered(q) \subseteq Covered(q)'
        BY <3>1, <3>2, CoveredKept
      <3>4. Promised(q)' \subseteq Promised(q) \cup Covered(q)'
        BY DEF Promised
      <3> QED BY <3>3, <3>4 DEF Kept, NothingUncovered
    <2> QED BY <2>1 DEF NothingUncovered
  <1>2. OwnPositions'
    <2>1. ASSUME NEW q \in Party, NEW x \in out'[q], x.pos # NoPos
          PROVE  /\ \A y \in out'[q] : y.pos = x.pos => y = x
                 /\ x.st # "sent" => \A y \in rows'[q] \cup awaiting'[q] : y.pos # x.pos
      <3>1. CASE q # p
        BY <2>1, <3>1 DEF Kept, OwnPositions, Unconfirmed
      <3>2. CASE q = p
        <4>1. \A y, w \in out[p] : y.pos = w.pos /\ y.pos # NoPos => y = w
          BY DEF Kept, OwnPositions
        <4>2. \A y \in out[p] : y.pos # NoPos /\ y.st # "sent" =>
                 \A w \in rows[p] \cup awaiting[p] : w.pos # y.pos
          BY DEF Kept, OwnPositions, Unconfirmed
        <4>3. CASE x \in S
          BY <2>1, <3>2, <4>1, <4>2, <4>3
        <4>4. CASE x \notin S
          BY <2>1, <3>2, <4>1, <4>2, <4>4
        <4> QED BY <4>3, <4>4
      <3> QED BY <3>1, <3>2
    <2> QED BY <2>1 DEF OwnPositions, Unconfirmed
  <1>3. PositionsKept'
    <2>1. ASSUME crashes' = 0, NEW q \in Party, NEW x \in rows'[q] \cup awaiting'[q]
          PROVE  KeptAt(q, x)'
      <3>1. CASE q = p /\ x.c = o.c /\ x.pos = o.pos
        BY <3>1
      <3>2. CASE ~(q = p /\ x.c = o.c /\ x.pos = o.pos)
        <4>1. x \in rows[q] \cup awaiting[q]
          BY <3>2
        <4>2. KeptAt(q, x)
          BY <2>1, <4>1 DEF Kept, PositionsKept, Unconfirmed
        <4>3. x.c \in Content /\ x.pos \in Nat
          BY <4>1 DEF Kept, Inv, TypeOK, Frame
        <4>4. Has(Side(q), x.c, x.pos) => Has(Side(q)', x.c, x.pos)
          BY <4>3 DEF SidesKept, Keeps
        <4>5. \A y \in out[q] : y.c = x.c /\ y.pos = x.pos => y \in out'[q]
          BY <3>2
        <4> QED BY <4>2, <4>4, <4>5 DEF KeptAt
      <3> QED BY <3>1, <3>2
    <2> QED BY <2>1 DEF PositionsKept, Unconfirmed
  <1> QED BY <1>1, <1>2, <1>3 DEF Kept

\* SubmitAck and DirectSend and ParkContent keep the position in the next stage.
LEMMA StageKept ==
    ASSUME Kept, Inv', NEW p \in Party, NEW o \in out[p],
           UNCHANGED <<tree, heldRow, held, annex, hydrated, told, orphaned, crashes>>,
           NEW e, e.c = o.c, e.pos = o.pos, out' = [out EXCEPT ![p] = (@ \ {o}) \cup {e}],
           \A q \in Party : q # p => UNCHANGED <<rows[q], awaiting[q]>>,
           \A q \in Party : mailbox[q] \subseteq mailbox'[q],
           e.st # "sent" => o.st # "sent" /\ UNCHANGED <<rows[p], awaiting[p]>>,
           \A x \in rows'[p] \cup awaiting'[p] :
              x \in rows[p] \cup awaiting[p] \/ (x.c = o.c /\ x.pos = o.pos),
           \A x \in rows[p] \cup awaiting[p] : x.c \in Covered(p)',
           e.st = "sent" => o.c \in Covered(p)'
    PROVE  Kept'
  <1>1. SidesKept /\ Mirrored'
    BY SameSides
  <1>2. out'[p] = (out[p] \ {o}) \cup {e} /\ \A q \in Party : q # p => out'[q] = out[q]
    BY DEF Kept, Inv, TypeOK
  <1>3. Promised(p)' \subseteq Promised(p) \cup Covered(p)'
    <2>1. ASSUME NEW c \in Promised(p)' PROVE c \in Promised(p) \cup Covered(p)'
      <3>1. c \in told[p] \/ \E x \in out'[p] : x.st = "sent" /\ x.c = c
        BY DEF Promised
      <3>2. CASE c \in told[p]
        BY <3>2 DEF Promised
      <3>3. CASE \E x \in out'[p] : x.st = "sent" /\ x.c = c
        BY <1>2, <3>3 DEF Promised
      <3> QED BY <3>1, <3>2, <3>3
    <2> QED BY <2>1
  <1>4. \A x \in rows'[p] \cup awaiting'[p] : x.c = o.c /\ x.pos = o.pos => KeptAt(p, x)'
    BY <1>2 DEF KeptAt
  <1> DEFINE S == {e}
  <1>5. /\ out'[p] = (out[p] \ {o}) \cup S
        /\ \A x \in S : /\ x.c = o.c /\ (x.pos = o.pos \/ x.pos = NoPos)
                        /\ x.st # "sent" => o.st # "sent" /\ UNCHANGED <<rows[p], awaiting[p]>>
        /\ \A x, y \in S : x = y
    BY <1>2
  <1>6. \A q \in Party : q # p => UNCHANGED <<out[q], told[q], rows[q], awaiting[q]>>
    BY <1>2
  <1> HIDE DEF S
  <1> QED BY <1>1, <1>3, <1>4, <1>5, <1>6, SendKept

\* SubmitAck keeps all.
LEMMA SubmitAckKept ==
    ASSUME Kept, Inv', NEW p \in Party, NEW o \in out[p], SubmitAck(p, o)
    PROVE  Kept'
  <1> DEFINE e == [o EXCEPT !.st = "ready"]
  <1>1. o \in Sending
    BY DEF Kept, Inv, TypeOK
  <1>2. e.c = o.c /\ e.pos = o.pos /\ e.st = "ready"
    BY <1>1 DEF Sending
  <1>3. /\ o.st = "submitted" /\ out' = [out EXCEPT ![p] = (@ \ {o}) \cup {e}]
        /\ UNCHANGED <<tree, heldRow, held, annex, hydrated, rows, awaiting, mailbox,
                       told, orphaned, crashes>>
    BY DEF SubmitAck, heldVars
  <1> HIDE DEF e
  <1>4. \A x \in rows[p] \cup awaiting[p] : x.c \in Covered(p)'
    BY <1>3, CopiesCovered
  <1> QED BY <1>2, <1>3, <1>4, StageKept

\* DirectSend arms the timer before the send is reported.
LEMMA DirectSendKept ==
    ASSUME Kept, Inv', NEW p \in Party, NEW o \in out[p], DirectSend(p, o)
    PROVE  Kept'
  <1> DEFINE e == [o EXCEPT !.st = "sent"]
             x == [c |-> o.c, pos |-> o.pos]
  <1>1. o \in Sending
    BY DEF Kept, Inv, TypeOK
  <1>2. e.c = o.c /\ e.pos = o.pos /\ e.st = "sent" /\ x.c = o.c /\ x.pos = o.pos
    BY <1>1 DEF Sending
  <1>3. /\ out' = [out EXCEPT ![p] = (@ \ {o}) \cup {e}]
        /\ awaiting' = [awaiting EXCEPT ![p] = PutHash(@, x)]
        /\ UNCHANGED <<tree, heldRow, held, annex, hydrated, rows, mailbox,
                       told, orphaned, crashes>>
    BY DEF DirectSend, heldVars, histVars
  <1> HIDE DEF e, x
  <1>4. awaiting'[p] = {y \in awaiting[p] : y.c # x.c} \cup {x}
        /\ \A q \in Party : q # p => awaiting'[q] = awaiting[q]
    BY <1>3 DEF Kept, Inv, TypeOK, PutHash
  <1>5. o.c \in Covered(p)'
    BY <1>2, <1>4, CopiesCovered
  <1>6. \A y \in rows[p] \cup awaiting[p] : y.c \in Covered(p)'
    <2>1. \A y \in rows[p] \cup awaiting[p] : y \in rows'[p] \cup awaiting'[p] \/ y.c = o.c
      BY <1>2, <1>3, <1>4
    <2> QED BY <1>5, <2>1, CopiesCovered
  <1>7. \A y \in rows'[p] \cup awaiting'[p] :
           y \in rows[p] \cup awaiting[p] \/ (y.c = o.c /\ y.pos = o.pos)
    BY <1>2, <1>3, <1>4
  <1> QED BY <1>2, <1>3, <1>4, <1>5, <1>6, <1>7, StageKept

\* ParkContent has the relay's copy before the send is reported.
LEMMA ParkContentKept ==
    ASSUME Kept, Inv', NEW p \in Party, NEW o \in out[p], ParkContent(p, o)
    PROVE  Kept'
  <1> DEFINE e == [o EXCEPT !.st = "sent"]
             x == [c |-> o.c, pos |-> o.pos]
  <1>1. o \in Sending
    BY DEF Kept, Inv, TypeOK
  <1>2. e.c = o.c /\ e.pos = o.pos /\ e.st = "sent" /\ x.c = o.c /\ x.pos = o.pos
    BY <1>1 DEF Sending
  <1>3. /\ out' = [out EXCEPT ![p] = (@ \ {o}) \cup {e}]
        /\ awaiting' = [awaiting EXCEPT ![p] = DropHash(@, o.c)]
        /\ mailbox' = [mailbox EXCEPT ![Peer(p)] = @ \cup {x}]
        /\ UNCHANGED <<tree, heldRow, held, annex, hydrated, rows, told, orphaned, crashes>>
    BY DEF ParkContent, heldVars
  <1> HIDE DEF e, x
  <1>4. awaiting'[p] = {y \in awaiting[p] : y.c # o.c}
        /\ \A q \in Party : q # p => awaiting'[q] = awaiting[q]
    BY <1>3 DEF Kept, Inv, TypeOK, DropHash
  <1>5. x \in mailbox'[Peer(p)] /\ \A q \in Party : mailbox[q] \subseteq mailbox'[q]
    BY <1>3, PeerFacts DEF Kept, Inv, TypeOK
  <1>6. o.c \in Covered(p)'
    BY <1>2, <1>5, CopiesCovered
  <1>7. \A y \in rows[p] \cup awaiting[p] : y.c \in Covered(p)'
    <2>1. \A y \in rows[p] \cup awaiting[p] : y \in rows'[p] \cup awaiting'[p] \/ y.c = o.c
      BY <1>3, <1>4
    <2> QED BY <1>6, <2>1, CopiesCovered
  <1>8. \A y \in rows'[p] \cup awaiting'[p] : y \in rows[p] \cup awaiting[p]
    BY <1>3, <1>4
  <1> QED BY <1>2, <1>3, <1>4, <1>5, <1>6, <1>7, <1>8, StageKept

\* SubmitTimeout gives up a position no copy has yet.
LEMMA SubmitTimeoutKept ==
    ASSUME Kept, Inv', NEW p \in Party, NEW o \in out[p], SubmitTimeout(p, o)
    PROVE  Kept'
  <1> DEFINE e == [o EXCEPT !.st = "ready", !.pos = NoPos]
             S == {e}
  <1>1. o \in Sending
    BY DEF Kept, Inv, TypeOK
  <1>2. e.c = o.c /\ e.pos = NoPos /\ e.st = "ready"
    BY <1>1 DEF Sending, NoPos
  <1>3. /\ o.st = "submitted" /\ out' = [out EXCEPT ![p] = (@ \ {o}) \cup {e}]
        /\ UNCHANGED <<tree, heldRow, held, annex, hydrated, rows, awaiting, mailbox,
                       told, orphaned, crashes>>
    BY DEF SubmitTimeout, heldVars
  <1>4. \A x \in S : x = e
    OBVIOUS
  <1> HIDE DEF e
  <1>5. out'[p] = (out[p] \ {o}) \cup S /\ \A q \in Party : q # p => out'[q] = out[q]
    BY <1>3 DEF Kept, Inv, TypeOK
  <1>6. SidesKept /\ Mirrored'
    BY <1>3, SameSides
  <1>7. \A x \in rows[p] \cup awaiting[p] : x.c \in Covered(p)'
    BY <1>3, CopiesCovered
  <1>8. Promised(p)' \subseteq Promised(p) \cup Covered(p)'
    <2>1. {x \in out'[p] : x.st = "sent"} \subseteq {x \in out[p] : x.st = "sent"}
      BY <1>2, <1>4, <1>5
    <2> QED BY <1>3, <2>1 DEF Promised
  <1>9. ASSUME NEW x \in rows'[p] \cup awaiting'[p], x.c = o.c, x.pos = o.pos
        PROVE  KeptAt(p, x)'
    <2>1. CASE o.pos # NoPos
      BY <1>3, <1>9, <2>1 DEF Kept, OwnPositions, Unconfirmed
    <2>2. CASE o.pos = NoPos
      <3>1. Len(tree'[p]) \in Nat
        BY DEF Inv, TypeOK
      <3>2. Has(Side(p)', x.c, x.pos)
        BY <1>9, <2>2, <3>1 DEF Has, Side, NoPos
      <3> QED BY <3>2 DEF KeptAt
    <2> QED BY <2>1, <2>2
  <1>10. /\ \A x \in S : /\ x.c = o.c /\ (x.pos = o.pos \/ x.pos = NoPos)
                         /\ x.st # "sent" => o.st # "sent" /\ UNCHANGED <<rows[p], awaiting[p]>>
         /\ \A x, y \in S : x = y
    BY <1>2, <1>3, <1>4
  <1>11. \A q \in Party : q # p => UNCHANGED <<out[q], told[q], rows[q], awaiting[q]>>
    BY <1>3, <1>5
  <1> HIDE DEF S
  <1> QED BY <1>3, <1>5, <1>6, <1>7, <1>8, <1>9, <1>10, <1>11, SendKept

\* placeOwnLeaf in the state: nothing goes, and the content has its position.
LEMMA PlaceOwnKeeps ==
    ASSUME Kept, NEW p \in Party, NEW o \in out[p], PlaceOwnLeaf(p, o.c, o.pos), log' = log
    PROVE  SidesKept /\ Mirrored' /\ Has(Side(p)', o.c, o.pos)
  <1> DEFINE s == EnsureHeldRestored(p)
             z == PlaceAt(p, s, o.c, o.pos)
  <1>1. TypeOK /\ PositionsOK /\ log \in Seq(Leaf) /\ tree[p] \in Seq(Leaf)
    BY DEF Kept, Inv, TypeOK
  <1>2. /\ SideOK(log, s) /\ Grown(tree[p], s.t) /\ s.w \subseteq witnessed[p]
        /\ Keeps(Side(p), s) /\ s.h = s.r
    BY <1>1, EnsureFacts, EnsureKeeps DEF Kept
  <1>3. Commit(p, z)
    BY DEF PlaceOwnLeaf
  <1>4. o.c \in Content /\ o.pos \in Nat
    BY <1>1 DEF TypeOK, Sending
  <1>5. o.pos # NoPos => o.pos \in 1..Len(log) /\ log[o.pos] = [from |-> p, c |-> o.c]
    BY <1>1 DEF PositionsOK, PositionsIn, At
  <1> HIDE DEF s
  <1>6. SideOK(log, z) /\ Grown(s.t, z.t) /\ z.w = s.w
    BY <1>1, <1>2, <1>4, <1>5, PlaceFacts
  <1>7. Keeps(s, z) /\ z.h = z.r /\ Has(z, o.c, o.pos)
    BY <1>1, <1>2, <1>4, <1>5, PlaceKeeps
  <1> HIDE DEF z
  <1>8. Grown(tree[p], z.t) /\ z.w \subseteq witnessed[p]
    <2>1. s.t \in Seq(Leaf) /\ z.t \in Seq(Leaf)
      BY <1>2, <1>6 DEF SideOK, SideType
    <2> QED BY <1>1, <1>2, <1>6, <2>1, GrownTrans
  <1>9. Keeps(Side(p), z)
    BY <1>2, <1>7, KeepsTrans
  <1> QED BY <1>3, <1>6, <1>7, <1>8, <1>9, CommitKeeps

\* FinishSend places the leaf and reports what was promised already.
LEMMA FinishSendKept ==
    ASSUME Kept, Inv', NEW p \in Party, NEW o \in out[p], FinishSend(p, o)
    PROVE  Kept'
  <1> DEFINE S == {}
  <1>1. /\ o.st = "sent" /\ out' = [out EXCEPT ![p] = @ \ {o}]
        /\ told' = [told EXCEPT ![p] = @ \cup {o.c}]
        /\ PlaceOwnLeaf(p, o.c, o.pos)
        /\ UNCHANGED <<log, rows, awaiting, mailbox, orphaned, crashes>>
    BY DEF FinishSend, PlaceOwnLeaf, relayVars, histVars
  <1>2. SidesKept /\ Mirrored' /\ Has(Side(p)', o.c, o.pos)
    BY <1>1, PlaceOwnKeeps
  <1>3. /\ out'[p] = (out[p] \ {o}) \cup S /\ told'[p] = told[p] \cup {o.c}
        /\ \A q \in Party : q # p => UNCHANGED <<out[q], told[q], rows[q], awaiting[q]>>
    BY <1>1 DEF Kept, Inv, TypeOK
  <1>4. \A x \in rows[p] \cup awaiting[p] : x.c \in Covered(p)'
    BY <1>1, CopiesCovered
  <1>5. Promised(p)' \subseteq Promised(p) \cup Covered(p)'
    <2>1. {x \in out'[p] : x.st = "sent"} \subseteq {x \in out[p] : x.st = "sent"}
      BY <1>3
    <2>2. o \in {x \in out[p] : x.st = "sent"}
      BY <1>1
    <2> QED BY <1>3, <2>1, <2>2 DEF Promised
  <1>6. \A x \in rows'[p] \cup awaiting'[p] : x.c = o.c /\ x.pos = o.pos => KeptAt(p, x)'
    BY <1>2 DEF KeptAt
  <1>7. /\ \A x \in S : /\ x.c = o.c /\ (x.pos = o.pos \/ x.pos = NoPos)
                        /\ x.st # "sent" => o.st # "sent" /\ UNCHANGED <<rows[p], awaiting[p]>>
        /\ \A x, y \in S : x = y
    OBVIOUS
  <1> HIDE DEF S
  <1> QED BY <1>1, <1>2, <1>3, <1>4, <1>5, <1>6, <1>7, SendKept

\* ParkRefused has the durable row before it places and reports.
LEMMA ParkRefusedKept ==
    ASSUME Kept, Inv', NEW p \in Party, NEW o \in out[p], ParkRefused(p, o)
    PROVE  Kept'
  <1> DEFINE S == {}
             n == [c |-> o.c, pos |-> o.pos]
             durable == \A x \in rows[p] : x.c # o.c
  <1>1. /\ o.st = "ready" /\ out' = [out EXCEPT ![p] = @ \ {o}]
        /\ awaiting' = [awaiting EXCEPT ![p] = DropHash(@, o.c)]
        /\ rows' = [rows EXCEPT ![p] = IF durable THEN @ \cup {n} ELSE @]
        /\ UNCHANGED <<log, mailbox, orphaned, crashes>>
    BY DEF ParkRefused, relayVars
  <1>2. \/ durable /\ o.c \notin Docs /\ PlaceOwnLeaf(p, o.c, o.pos)
        \/ ~(durable /\ o.c \notin Docs) /\ UNCHANGED <<heldVars, told>>
    BY DEF ParkRefused
  <1>3. n.c = o.c /\ n.pos = o.pos
    OBVIOUS
  <1> HIDE DEF n
  <1>4. /\ SidesKept /\ Mirrored'
        /\ durable => o.c \in Docs \/ Has(Side(p)', o.c, o.pos)
    <2>1. CASE durable /\ o.c \notin Docs /\ PlaceOwnLeaf(p, o.c, o.pos)
      BY <1>1, <2>1, PlaceOwnKeeps
    <2>2. CASE ~(durable /\ o.c \notin Docs) /\ UNCHANGED <<heldVars, told>>
      BY <2>2, SameSides DEF heldVars
    <2> QED BY <1>2, <2>1, <2>2
  <1>5. told'[p] \subseteq told[p] \cup {o.c} /\ \A q \in Party : q # p => told'[q] = told[q]
    <2>1. told \in [Party -> SUBSET Content]
      BY DEF Kept, Inv, TypeOK
    <2> QED BY <1>2, <2>1 DEF PlaceOwnLeaf
  <1>6. /\ out'[p] = (out[p] \ {o}) \cup S
        /\ awaiting'[p] = {x \in awaiting[p] : x.c # o.c}
        /\ rows'[p] = IF durable THEN rows[p] \cup {n} ELSE rows[p]
    BY <1>1 DEF Kept, Inv, TypeOK, DropHash
  <1>7. \A q \in Party : q # p => UNCHANGED <<out[q], told[q], rows[q], awaiting[q]>>
    BY <1>1, <1>5 DEF Kept, Inv, TypeOK
  <1>8. o.c \in Covered(p)'
    <2>1. \E x \in rows'[p] : x.c = o.c
      BY <1>3, <1>6
    <2> QED BY <2>1, CopiesCovered
  <1>9. \A x \in rows[p] \cup awaiting[p] : x.c \in Covered(p)'
    <2>1. \A x \in rows[p] \cup awaiting[p] : x \in rows'[p] \cup awaiting'[p] \/ x.c = o.c
      BY <1>6
    <2> QED BY <1>8, <2>1, CopiesCovered
  <1>10. Promised(p)' \subseteq Promised(p) \cup Covered(p)'
    <2>1. {x \in out'[p] : x.st = "sent"} \subseteq {x \in out[p] : x.st = "sent"}
      BY <1>6
    <2> QED BY <1>5, <1>8, <2>1 DEF Promised
  <1>11. ASSUME NEW x \in rows'[p] \cup awaiting'[p], x.c = o.c, x.pos = o.pos
         PROVE  KeptAt(p, x)'
    <2>1. CASE durable
      BY <1>4, <1>11, <2>1 DEF KeptAt
    <2>2. CASE ~durable
      <3>1. x \in rows[p]
        BY <1>6, <1>11, <2>2
      <3>2. CASE o.pos # NoPos
        BY <1>1, <1>11, <3>1, <3>2 DEF Kept, OwnPositions, Unconfirmed
      <3>3. CASE o.pos = NoPos
        <4>1. Len(tree'[p]) \in Nat
          BY DEF Inv, TypeOK
        <4>2. Has(Side(p)', x.c, x.pos)
          BY <1>11, <3>3, <4>1 DEF Has, Side, NoPos
        <4> QED BY <4>2 DEF KeptAt
      <3> QED BY <3>2, <3>3
    <2> QED BY <2>1, <2>2
  <1>12. \A x \in rows'[p] \cup awaiting'[p] :
            x \in rows[p] \cup awaiting[p] \/ (x.c = o.c /\ x.pos = o.pos)
    BY <1>3, <1>6
  <1>13. /\ \A x \in S : /\ x.c = o.c /\ (x.pos = o.pos \/ x.pos = NoPos)
                         /\ x.st # "sent" => o.st # "sent" /\ UNCHANGED <<rows[p], awaiting[p]>>
         /\ \A x, y \in S : x = y
    OBVIOUS
  <1>14. SidesKept /\ Mirrored' /\ out'[p] = (out[p] \ {o}) \cup S
    BY <1>4, <1>6
  <1>15. UNCHANGED <<orphaned, crashes>> /\ \A q \in Party : mailbox[q] \subseteq mailbox'[q]
    BY <1>1
  <1> HIDE DEF S, durable
  <1> QED BY <1>7, <1>9, <1>10, <1>11, <1>12, <1>13, <1>14, <1>15, SendKept

\* Crash: what was only in memory is orphaned, the rows and the trees stay.
LEMMA CrashKept ==
    ASSUME Kept, Inv', NEW p \in Party, Crash(p)
    PROVE  Kept'
  <1>1. /\ held' = [held EXCEPT ![p] = {}] /\ hydrated' = [hydrated EXCEPT ![p] = FALSE]
        /\ out' = [out EXCEPT ![p] = {}] /\ awaiting' = [awaiting EXCEPT ![p] = {}]
        /\ orphaned' = [orphaned EXCEPT ![p] = @ \cup {x.c : x \in awaiting[p]}]
        /\ crashes' = crashes + 1
        /\ UNCHANGED <<tree, heldRow, annex, rows, mailbox, told>>
    BY DEF Crash
  <1>2. /\ out'[p] = {} /\ awaiting'[p] = {} /\ held'[p] = {} /\ ~hydrated'[p]
        /\ orphaned'[p] = orphaned[p] \cup {x.c : x \in awaiting[p]}
    BY <1>1 DEF Kept, Inv, TypeOK
  <1>3. \A q \in Party : q # p => /\ out'[q] = out[q] /\ awaiting'[q] = awaiting[q]
                                  /\ held'[q] = held[q] /\ hydrated'[q] = hydrated[q]
                                  /\ orphaned'[q] = orphaned[q]
    BY <1>1 DEF Kept, Inv, TypeOK
  <1>4. SidesKept
    <2>1. \A q \in Party : /\ Side(q)'.t = Side(q).t /\ Side(q)'.r = Side(q).r
                           /\ Side(q)'.a = Side(q).a
      BY <1>1 DEF Side
    <2> QED BY <2>1 DEF SidesKept, Keeps, Texts, Has
  <1>5. Mirrored'
    <2>1. ASSUME NEW q \in Party PROVE held'[q] = IF hydrated'[q] THEN heldRow'[q] ELSE {}
      BY <1>1, <1>2, <1>3 DEF Kept, Mirrored
    <2> QED BY <2>1 DEF Mirrored
  <1>6. NothingUncovered'
    <2>1. ASSUME NEW q \in Party PROVE Promised(q)' \subseteq Covered(q)'
      <3>1. \A x \in mailbox[Peer(q)] \cup rows[q] \cup awaiting[q] : x.c \in Covered(q)'
        <4>1. \A x \in mailbox[Peer(q)] \cup rows[q] : x.c \in Covered(q)'
          BY <1>1, CopiesCovered
        <4>2. \A x \in awaiting[q] : x.c \in Covered(q)'
          <5>1. CASE q = p
            BY <1>2, <5>1 DEF Covered
          <5>2. CASE q # p
            BY <1>3, <5>2, CopiesCovered
          <5> QED BY <5>1, <5>2
        <4> QED BY <4>1, <4>2
      <3>2. orphaned[q] \subseteq orphaned'[q]
        BY <1>2, <1>3
      <3>3. Covered(q) \subseteq Covered(q)'
        BY <1>4, <3>1, <3>2, CoveredKept
      <3>4. Promised(q)' \subseteq Promised(q)
        <4>1. out'[q] \subseteq out[q]
          BY <1>2, <1>3
        <4> QED BY <1>1, <4>1 DEF Promised
      <3> QED BY <3>3, <3>4 DEF Kept, NothingUncovered
    <2> QED BY <2>1 DEF NothingUncovered
  <1>7. OwnPositions'
    <2>1. ASSUME NEW q \in Party, NEW x \in out'[q], x.pos # NoPos
          PROVE  /\ \A y \in out'[q] : y.pos = x.pos => y = x
                 /\ x.st # "sent" => \A y \in rows'[q] \cup awaiting'[q] : y.pos # x.pos
      BY <1>1, <1>2, <1>3, <2>1 DEF Kept, OwnPositions, Unconfirmed
    <2> QED BY <2>1 DEF OwnPositions, Unconfirmed
  <1>8. PositionsKept'
    <2>1. crashes \in Nat
      BY DEF Kept, Inv, TypeOK
    <2>2. crashes' # 0
      BY <1>1, <2>1
    <2> QED BY <2>2 DEF PositionsKept
  <1> QED BY <1>5, <1>6, <1>7, <1>8 DEF Kept

-----------------------------------------------------------------------------
(* The theorems.                                                           *)

\* Initially there is nothing to lose.
LEMMA InitKept == Init => Kept
  <1> SUFFICES ASSUME Init PROVE Kept
    OBVIOUS
  <1>1. Inv
    BY InitInv
  <1>2. Mirrored
    BY DEF Init, Mirrored
  <1>3. NothingUncovered
    BY DEF Init, NothingUncovered, Promised
  <1>4. OwnPositions
    BY DEF Init, OwnPositions
  <1>5. PositionsKept
    BY DEF Init, PositionsKept, Unconfirmed
  <1> QED BY <1>1, <1>2, <1>3, <1>4, <1>5 DEF Kept

\* No step loses anything.
LEMMA NextKept == Kept /\ [Next]_vars => Kept'
  <1> SUFFICES ASSUME Kept, [Next]_vars PROVE Kept'
    OBVIOUS
  <1>0. Inv'
    BY NextInv DEF Kept
  <1>1. CASE UNCHANGED vars
    BY <1>0, <1>1, StillKept DEF vars
  <1>2. ASSUME NEW p \in Party, NEW c \in Content, Submit(p, c) \/ SubmitUnreachable(p, c)
        PROVE  Kept'
    BY <1>0, <1>2, SubmitKept, SubmitUnreachableKept
  <1>3. ASSUME NEW p \in Party, NEW o \in out[p],
               \/ SubmitAck(p, o) \/ SubmitTimeout(p, o) \/ DirectSend(p, o)
               \/ ParkContent(p, o) \/ ParkRefused(p, o) \/ FinishSend(p, o)
        PROVE  Kept'
    BY <1>0, <1>3, SubmitAckKept, SubmitTimeoutKept, DirectSendKept, ParkContentKept,
       ParkRefusedKept, FinishSendKept
  <1>4. ASSUME NEW p \in Party, LeafDeliver(p) \/ ReadSealReadiness(p) \/ Crash(p)
        PROVE  Kept'
    BY <1>0, <1>4, LeafDeliverKept, ReadSealReadinessKept, CrashKept
  <1>5. ASSUME NEW p \in Party, NEW f \in wire, ContentFrame(p, f) PROVE Kept'
    BY <1>0, <1>5, ContentFrameKept
  <1>6. ASSUME NEW p \in Party, NEW f \in mailbox[p], RecoverParked(p, f) PROVE Kept'
    BY <1>0, <1>6, RecoverParkedKept
  <1>7. ASSUME NEW p \in Party, NEW v \in {"allow", "block", "defer"}, NEW f \in screening[p],
               ScreenVerdict(p, f, v)
        PROVE  Kept'
    BY <1>0, <1>7, ScreenVerdictKept
  <1>8. ASSUME NEW p \in Party, NEW c \in counter[p], CounterSubmit(p, c) PROVE Kept'
    BY <1>0, <1>8, CounterSubmitKept
  <1>9. ASSUME NEW p \in Party, NEW a \in ackw, DeliveryAck(p, a) PROVE Kept'
    BY <1>0, <1>9, DeliveryAckKept
  <1>10. ASSUME \/ \E f \in wire : LoseFrame(f)
                \/ \E a \in ackw : LoseAck(a)
                \/ \E p \in Party : LoseLeaf(p)
         PROVE  Kept'
    BY <1>0, <1>10, LossKept
  <1>11. ASSUME NEW p \in Party, NEW x \in awaiting[p], TtfExpiry(p, x) PROVE Kept'
    BY <1>0, <1>11, TtfExpiryKept
  <1>12. ASSUME NEW p \in Party, NEW x \in rows[p], FlushAwaiting(p, x) PROVE Kept'
    BY <1>0, <1>12, FlushAwaitingKept
  <1> QED BY <1>1, <1>2, <1>3, <1>4, <1>5, <1>6, <1>7, <1>8, <1>9, <1>10, <1>11, <1>12
          DEF Next

\* The invariant holds in every behaviour.
THEOREM KeptAlways == Spec => []Kept
  BY InitKept, NextKept, PTL DEF Spec

\* What the author was told is delivered, parked or queued is always somewhere from where
\* the counterparty gets it, whatever is lost, refused, retried, held or crashed; only a
\* crash of the author with its timer armed loses it.
THEOREM Lossless == Spec => []NothingLost
  <1>1. Kept => NothingLost
    <2> SUFFICES ASSUME Kept, NEW p \in Party, NEW c \in told[p]
                 PROVE  \/ c \in Hashes(tree[Peer(p)]) \cup annex[Peer(p)] \cup orphaned[p]
                        \/ \E x \in mailbox[Peer(p)] \cup rows[p] \cup awaiting[p]
                                       \cup heldRow[Peer(p)] : x.c = c
      BY DEF NothingLost
    <2>1. c \in Covered(p)
      BY DEF Kept, NothingUncovered, Promised
    <2>2. /\ Side(Peer(p)).t = tree[Peer(p)] /\ Side(Peer(p)).r = heldRow[Peer(p)]
          /\ Side(Peer(p)).a = annex[Peer(p)]
      BY DEF Side
    <2> QED BY <2>1, <2>2 DEF Covered, Texts
  <1> QED BY <1>1, KeptAlways, PTL

\* A message in the durable queue keeps the position the relay witnessed for it as long as
\* the daemons run: its leaf is in the tree, held, or with a send that will place it.
THEOREM Positioned == Spec => []QueuedKeepsPosition
  <1>1. Kept => QueuedKeepsPosition
    <2> SUFFICES ASSUME Kept, crashes = 0, NEW p \in Party, NEW x \in rows[p]
                 PROVE  \/ x.c \in Docs \/ x.pos <= Len(tree[p])
                        \/ \E y \in held[p] \cup heldRow[p] \cup out[p] :
                              y.c = x.c /\ y.pos = x.pos
      BY DEF QueuedKeepsPosition
    <2>1. KeptAt(p, x)
      BY DEF Kept, PositionsKept, Unconfirmed
    <2>2. Side(p).t = tree[p] /\ Side(p).r = heldRow[p]
      BY DEF Side
    <2> QED BY <2>1, <2>2 DEF KeptAt, Has
  <1> QED BY <1>1, KeptAlways, PTL

-----------------------------------------------------------------------------
(* Readiness to seal, as long as no content was sent twice.                *)

\* A content is at one position of the log at most, and counts as sent.
OneEach ==
    /\ SentOnce
    /\ ~skewed =>
         /\ \A i, j \in 1..Len(log) : log[i].c = log[j].c => i = j
         /\ \A i \in 1..Len(log) : sends[log[i].c] > 0
         /\ \A p \in Party : counter[p] = {}

\* A position p learnt of is in the tree or held, or remembered as still missing; but for
\* a document frame of its own.
AccountedFor(p, k) ==
    \/ Has(Side(p), log[k].c, k)
    \/ \E x \in witnessed[p] \cup ordered[p] : x.c = log[k].c /\ x.pos = k
    \/ log[k].from = p /\ log[k].c \in Docs

Accounted ==
    ~skewed => \A p \in Party : \A k \in seen[p] : k \in 1..Len(log) /\ AccountedFor(p, k)

Ready == Kept /\ OneEach /\ Accounted

\* z still remembers what s remembers, or has its position.
Retires(l, s, z) ==
    \A x \in s.w : x \in z.w \/ \E j \in 1..Len(l) : l[j].c = x.c /\ Has(z, l[j].c, j)

\* releaseHeld retires a witness when the tree takes its leaf.
LEMMA ReleaseRetires ==
    ASSUME NEW l \in Seq(Leaf), NEW s, SideOK(l, s), s.h = s.r, NEW p
    PROVE  Retires(l, s, ReleaseHeld(p, s))
  <1> DEFINE z == ReleaseHeld(p, s)
             run == {x \in s.h : Len(s.t) < x.pos /\ x.pos <= RunEnd(s)}
             nt == [i \in 1..RunEnd(s) |-> IF i <= Len(s.t) THEN s.t[i]
                                           ELSE LeafOf(CHOOSE x \in s.h : x.pos = i)]
             nr == {x \in s.r : ~(Len(s.t) < x.pos /\ x.pos <= RunEnd(s))}
             nw == {x \in s.w : \A y \in run : y.from # p => y.c # x.c}
  <1>1. z = [s EXCEPT !.t = nt, !.h = @ \ run, !.r = nr, !.w = nw]
    BY DEF ReleaseHeld
  <1>2. s \in SideType
    BY DEF SideOK
  <1>3. z.w = nw
    <2> HIDE DEF nt, nr, nw, run
    <2> QED BY <1>1, <1>2 DEF SideType
  <1>4. Keeps(s, z)
    BY ReleaseKeeps
  <1> HIDE DEF z
  <1>5. ASSUME NEW x \in s.w, x \notin z.w
        PROVE  \E j \in 1..Len(l) : l[j].c = x.c /\ Has(z, l[j].c, j)
    <2>1. PICK y \in run : y.c = x.c
      BY <1>3, <1>5
    <2>2. y \in s.r /\ y \in HeldRec /\ y.pos \in 1..Len(l) /\ l[y.pos].c = y.c
      BY RowFacts
    <2>3. Has(s, y.c, y.pos) /\ y.c \in Content /\ y.pos \in Nat
      BY <2>2 DEF Has, HeldRec
    <2>4. Has(z, y.c, y.pos)
      BY <1>4, <2>3 DEF Keeps
    <2> QED BY <2>1, <2>2, <2>4
  <1> QED BY <1>5 DEF Retires, z

\* A received leaf retires its witness when it takes its place in the log.
LEMMA AppendRetires ==
    ASSUME NEW l \in Seq(Leaf), NEW s, SideOK(l, s), s.h = s.r, NEW p \in Party,
           NEW c \in Content, Grown(AppendReceived(p, s, c).t, l)
    PROVE  Retires(l, s, AppendReceived(p, s, c))
  <1> DEFINE b == [from |-> Peer(p), c |-> c]
             y == [s EXCEPT !.t = Append(@, b), !.w = DropHash(@, c)]
             z == AppendReceived(p, s, c)
             n == Len(s.t) + 1
  <1>1. s \in SideType /\ s.t \in Seq(Leaf) /\ Len(s.t) \in Nat /\ Len(l) \in Nat
    BY DEF SideOK, SideType
  <1>2. b \in Leaf /\ b.c = c
    BY PeerFacts DEF Leaf
  <1>3. z = ReleaseHeld(p, y)
    BY DEF AppendReceived
  <1>4. y \in SideType /\ y.t = Append(s.t, b) /\ y.h = s.h /\ y.r = s.r /\ y.w = DropHash(s.w, c)
    <2>1. Append(s.t, b) \in Seq(Leaf)
      BY <1>1, <1>2, AppendGrown
    <2>2. DropHash(s.w, c) \subseteq s.w
      BY DEF DropHash
    <2> HIDE DEF b
    <2> QED BY <1>1, <2>1, <2>2 DEF SideType
  <1>5. SideOK(l, y) /\ y.h = y.r
    BY <1>4 DEF SideOK
  <1>6. y.t \in Seq(Leaf) /\ Len(y.t) = n /\ y.t[n] = b
    <2> HIDE DEF b, y
    <2> QED BY <1>1, <1>2, <1>4, AppendGrown
  <1> HIDE DEF y, b
  <1>7. Keeps(y, z) /\ Retires(l, y, z) /\ Grown(y.t, z.t)
    BY <1>3, <1>5, ReleaseKeeps, ReleaseRetires, ReleaseOK
  <1>8. n \in 1..Len(l) /\ l[n].c = c
    <2>1. Grown(z.t, l)
      OBVIOUS
    <2> HIDE DEF z
    <2>2. z.t[n] = b /\ n <= Len(z.t)
      BY <1>1, <1>6, <1>7 DEF Grown
    <2>3. Len(z.t) <= Len(l) /\ n \in 1..Len(z.t) => l[n] = z.t[n]
      BY <2>1 DEF Grown
    <2>4. Len(z.t) <= Len(l)
      BY <2>1 DEF Grown
    <2>5. Len(z.t) \in Nat
      <3>1. SideOK(l, z)
        BY <1>3, <1>5, ReleaseOK
      <3> QED BY <3>1 DEF SideOK, SideType
    <2> QED BY <1>1, <1>2, <2>2, <2>3, <2>4, <2>5
  <1>9. Has(z, c, n)
    <2>1. Has(y, c, n) /\ n \in Nat
      BY <1>1, <1>6 DEF Has
    <2> QED BY <1>7, <2>1 DEF Keeps
  <1>10. \A x \in s.w : x \in y.w \/ x.c = c
    BY <1>4 DEF DropHash
  <1> HIDE DEF z, n
  <1> QED BY <1>7, <1>8, <1>9, <1>10 DEF Retires, z

\* ensureHeldRestored retires a witness when the tree takes its leaf.
LEMMA EnsureRetires ==
    ASSUME TypeOK, PositionsOK, Mirrored, NEW p \in Party
    PROVE  Retires(log, Side(p), EnsureHeldRestored(p))
  <1>1. SideOK(log, Hydrated(p)) /\ Hydrated(p).h = Hydrated(p).r /\ Hydrated(p).w = witnessed[p]
        /\ Side(p).w = witnessed[p] /\ log \in Seq(Leaf)
    BY HydratedKeeps, SideFacts DEF TypeOK
  <1>2. CASE drained[p]
    BY <1>1, <1>2 DEF EnsureHeldRestored, Retires
  <1>3. CASE ~drained[p]
    <2>1. EnsureHeldRestored(p) = ReleaseHeld(p, Hydrated(p))
      BY <1>3 DEF EnsureHeldRestored
    <2>2. Retires(log, Hydrated(p), ReleaseHeld(p, Hydrated(p)))
      BY <1>1, ReleaseRetires
    <2> QED BY <1>1, <2>1, <2>2 DEF Retires
  <1> QED BY <1>2, <1>3

\* What p learnt of stays accounted for: what is forgotten has its position, or another note.
LEMMA AccountStep ==
    ASSUME Ready, ~skewed, NEW p \in Party, NEW k \in seen[p], SidesKept, log' = log,
           \A x \in witnessed[p] \cup ordered[p] :
              \/ x \in witnessed'[p] \cup ordered'[p]
              \/ \E j \in 1..Len(log) : log[j].c = x.c /\ AccountedFor(p, j)'
    PROVE  AccountedFor(p, k)'
  <1>1. k \in 1..Len(log) /\ AccountedFor(p, k)
    BY DEF Ready, Accounted
  <1>2. CASE Has(Side(p), log[k].c, k)
    <2>1. log[k].c \in Content /\ k \in Nat
      <3>1. log \in Seq(Leaf)
        BY DEF Ready, Kept, Inv, TypeOK
      <3>2. log[k] \in Leaf /\ k \in Nat
        BY <1>1, <3>1
      <3> QED BY <3>2 DEF Leaf
    <2>2. Has(Side(p)', log[k].c, k)
      BY <1>2, <2>1 DEF SidesKept, Keeps
    <2> QED BY <2>2 DEF AccountedFor
  <1>3. CASE \E x \in witnessed[p] \cup ordered[p] : x.c = log[k].c /\ x.pos = k
    <2>1. PICK x \in witnessed[p] \cup ordered[p] : x.c = log[k].c /\ x.pos = k
      BY <1>3
    <2>2. CASE x \in witnessed'[p] \cup ordered'[p]
      BY <2>1, <2>2 DEF AccountedFor
    <2>3. CASE \E j \in 1..Len(log) : log[j].c = x.c /\ AccountedFor(p, j)'
      <3>1. PICK j \in 1..Len(log) : log[j].c = x.c /\ AccountedFor(p, j)'
        BY <2>3
      <3>2. j = k
        BY <1>1, <2>1, <3>1 DEF Ready, OneEach
      <3> QED BY <3>1, <3>2
    <2> QED BY <2>2, <2>3
  <1>4. CASE log[k].from = p /\ log[k].c \in Docs
    BY <1>4 DEF AccountedFor
  <1> QED BY <1>1, <1>2, <1>3, <1>4 DEF AccountedFor

\* A step that appends nothing to the log keeps both sides accounted for if what a side
\* forgets has its position, or another note.
LEMMA ReadyStep ==
    ASSUME Ready, Kept', SidesKept, UNCHANGED <<log, sends, skewed>>,
           \A q \in Party : counter'[q] \subseteq counter[q] \/ skewed,
           \A q \in Party : ~skewed => \A k \in seen'[q] :
              k \in seen[q] \/ (k \in 1..Len(log) /\ AccountedFor(q, k)'),
           \A q \in Party : ~skewed => \A x \in witnessed[q] \cup ordered[q] :
              \/ seen'[q] = {} \/ x \in witnessed'[q] \cup ordered'[q]
              \/ \E j \in 1..Len(log) : log[j].c = x.c /\ AccountedFor(q, j)'
    PROVE  Ready'
  <1>1. OneEach'
    BY DEF Ready, OneEach, SentOnce
  <1>2. ASSUME ~skewed, NEW q \in Party, NEW k \in seen'[q]
        PROVE  k \in 1..Len(log) /\ AccountedFor(q, k)'
    <2>1. CASE k \in seen[q]
      <3>1. k \in 1..Len(log)
        BY <1>2, <2>1 DEF Ready, Accounted
      <3>2. \A x \in witnessed[q] \cup ordered[q] :
              \/ x \in witnessed'[q] \cup ordered'[q]
              \/ \E j \in 1..Len(log) : log[j].c = x.c /\ AccountedFor(q, j)'
        BY <1>2
      <3>3. AccountedFor(q, k)'
        BY <1>2, <2>1, <3>2, AccountStep
      <3> QED BY <3>1, <3>3
    <2>2. CASE k \notin seen[q]
      BY <1>2, <2>2
    <2> QED BY <2>1, <2>2
  <1>3. Accounted'
    BY <1>2 DEF Accounted
  <1> QED BY <1>1, <1>3 DEF Ready

\* With a send skewed nothing is claimed but how often a content is sent.
LEMMA SkewedReady ==
    ASSUME Kept', skewed', SentOnce'
    PROVE  Ready'
  BY DEF Ready, OneEach, Accounted

\* Both sides still remember what they remembered, or have its position.
WitnessesKept == \A q \in Party : Retires(log, Side(q), Side(q)')

\* What a side forgets of its witnesses is accounted for.
LEMMA WitnessAccounted ==
    ASSUME WitnessesKept, log' = log, NEW q \in Party, NEW x \in witnessed[q]
    PROVE  x \in witnessed'[q] \/ \E j \in 1..Len(log) : log[j].c = x.c /\ AccountedFor(q, j)'
  <1>1. Side(q).w = witnessed[q] /\ Side(q)'.w = witnessed'[q]
    BY DEF Side
  <1>2. x \in witnessed'[q] \/ \E j \in 1..Len(log) : log[j].c = x.c /\ Has(Side(q)', log[j].c, j)
    BY <1>1 DEF WitnessesKept, Retires
  <1> QED BY <1>2 DEF AccountedFor

\* One side is written back.
LEMMA CommitWitnesses ==
    ASSUME Kept, NEW p \in Party, NEW z, Commit(p, z), Side(p)' = z, Retires(log, Side(p), z)
    PROVE  WitnessesKept
  <1>1. \A q \in Party : q # p => witnessed'[q] = witnessed[q]
    BY DEF Commit, Kept, Inv, TypeOK
  <1>2. \A q \in Party : Side(q).w = witnessed[q] /\ Side(q)'.w = witnessed'[q]
    BY DEF Side
  <1>3. \A q \in Party : q # p => Retires(log, Side(q), Side(q)')
    BY <1>1, <1>2 DEF Retires
  <1> QED BY <1>3 DEF WitnessesKept

\* Retiring twice.
LEMMA RetiresTrans ==
    ASSUME NEW l \in Seq(Leaf), NEW s, NEW u, NEW z, Retires(l, s, u), Keeps(u, z), z.w = u.w
    PROVE  Retires(l, s, z)
  <1>1. \A j \in 1..Len(l) : l[j].c \in Content /\ j \in Nat
    <2>1. \A j \in 1..Len(l) : l[j] \in Leaf /\ j \in Nat
      OBVIOUS
    <2> QED BY <2>1 DEF Leaf
  <1> QED BY <1>1 DEF Retires, Keeps

\* Restoring and releasing retires what it should.
LEMMA ArrivalRetires ==
    ASSUME Kept, NEW p \in Party, Commit(p, EnsureHeldRestored(p)), log' = log
    PROVE  WitnessesKept
  <1>1. /\ SideOK(log, EnsureHeldRestored(p)) /\ Grown(tree[p], EnsureHeldRestored(p).t)
        /\ EnsureHeldRestored(p).w \subseteq witnessed[p]
    BY EnsureFacts DEF Kept, Inv
  <1>2. Retires(log, Side(p), EnsureHeldRestored(p))
    BY EnsureRetires DEF Kept, Inv
  <1>3. Side(p)' = EnsureHeldRestored(p)
    BY <1>1, CommitFacts DEF Kept, Inv
  <1> QED BY <1>2, <1>3, CommitWitnesses

\* So does placing an own leaf.
LEMMA PlaceOwnRetires ==
    ASSUME Kept, NEW p \in Party, NEW o \in out[p], PlaceOwnLeaf(p, o.c, o.pos), log' = log
    PROVE  WitnessesKept
  <1> DEFINE s == EnsureHeldRestored(p)
             z == PlaceAt(p, s, o.c, o.pos)
  <1>1. TypeOK /\ PositionsOK /\ log \in Seq(Leaf) /\ tree[p] \in Seq(Leaf)
    BY DEF Kept, Inv, TypeOK
  <1>2. /\ SideOK(log, s) /\ Grown(tree[p], s.t) /\ s.w \subseteq witnessed[p]
        /\ Keeps(Side(p), s) /\ s.h = s.r /\ Retires(log, Side(p), s)
    BY <1>1, EnsureFacts, EnsureKeeps, EnsureRetires DEF Kept
  <1>3. Commit(p, z)
    BY DEF PlaceOwnLeaf
  <1>4. o.c \in Content /\ o.pos \in Nat
    BY <1>1 DEF TypeOK, Sending
  <1>5. o.pos # NoPos => o.pos \in 1..Len(log) /\ log[o.pos] = [from |-> p, c |-> o.c]
    BY <1>1 DEF PositionsOK, PositionsIn, At
  <1> HIDE DEF s
  <1>6. SideOK(log, z) /\ Grown(s.t, z.t) /\ z.w = s.w
    BY <1>1, <1>2, <1>4, <1>5, PlaceFacts
  <1>7. Keeps(s, z)
    BY <1>1, <1>2, <1>4, <1>5, PlaceKeeps
  <1> HIDE DEF z
  <1>8. Retires(log, Side(p), z)
    BY <1>1, <1>2, <1>6, <1>7, RetiresTrans
  <1>9. Grown(tree[p], z.t) /\ z.w \subseteq witnessed[p]
    <2>1. s.t \in Seq(Leaf) /\ z.t \in Seq(Leaf)
      BY <1>2, <1>6 DEF SideOK, SideType
    <2> QED BY <1>1, <1>2, <1>6, <2>1, GrownTrans
  <1>10. Side(p)' = z
    BY <1>1, <1>3, <1>6, <1>9, CommitFacts
  <1> QED BY <1>3, <1>8, <1>10, CommitWitnesses

\* A step that touches no record and no note keeps both sides accounted for.
LEMMA StillReady ==
    ASSUME Ready, Kept', UNCHANGED <<tree, heldRow, held, annex, hydrated, witnessed, ordered,
                                     seen, counter, log, sends, skewed>>
    PROVE  Ready'
  <1>1. SidesKept
    BY SameSides DEF Ready
  <1> QED BY <1>1, ReadyStep

\* Submit puts a content that was not sent before at the end of the log.
LEMMA SubmitReady ==
    ASSUME SentOnce', Ready, Kept', NEW p \in Party, NEW c \in Content, Submit(p, c)
    PROVE  Ready'
  <1> DEFINE b == [from |-> p, c |-> c]
             n == Len(log) + 1
  <1>1. log \in Seq(Leaf) /\ b \in Leaf /\ b.c = c /\ Len(log) \in Nat
        /\ sends \in [Content -> Nat]
    BY DEF Ready, Kept, Inv, TypeOK, Leaf
  <1>2. /\ log' = Append(log, b) /\ sends' = [sends EXCEPT ![c] = @ + 1]
        /\ UNCHANGED <<tree, heldRow, held, annex, hydrated, witnessed, ordered, seen, counter, skewed>>
    BY DEF Submit, MaySend, heldVars
  <1>3. sends[c] = 0 /\ sends'[c] = 1 /\ \A d \in Content : d # c => sends'[d] = sends[d]
    BY <1>1, <1>2 DEF SentOnce
  <1> HIDE DEF b
  <1>4. Len(log') = n /\ log'[n] = b /\ \A i \in 1..Len(log) : log'[i] = log[i]
    BY <1>1, <1>2
  <1>5. \A i \in 1..Len(log) : log[i].c \in Content
    <2>1. \A i \in 1..Len(log) : log[i] \in Leaf
      BY <1>1
    <2> QED BY <2>1 DEF Leaf
  <1>6. ASSUME ~skewed
        PROVE  /\ \A i, j \in 1..Len(log') : log'[i].c = log'[j].c => i = j
               /\ \A i \in 1..Len(log') : sends'[log'[i].c] > 0
    <2>1. /\ \A i, j \in 1..Len(log) : log[i].c = log[j].c => i = j
          /\ \A i \in 1..Len(log) : sends[log[i].c] > 0
      BY <1>6 DEF Ready, OneEach
    <2>2. \A i \in 1..Len(log) : log[i].c # c
      BY <1>3, <2>1
    <2>3. \A i \in 1..Len(log') : i \in 1..Len(log) \/ i = n
      BY <1>1, <1>4
    <2>4. \A i, j \in 1..Len(log') : log'[i].c = log'[j].c => i = j
      BY <1>1, <1>4, <2>1, <2>2, <2>3
    <2>5. \A i \in 1..Len(log') : sends'[log'[i].c] > 0
      BY <1>1, <1>3, <1>4, <1>5, <2>1, <2>2, <2>3
    <2> QED BY <2>4, <2>5
  <1>7. OneEach'
    BY <1>2, <1>6 DEF Ready, OneEach
  <1>8. Accounted'
    <2>1. ASSUME ~skewed, NEW q \in Party, NEW k \in seen[q]
          PROVE  k \in 1..Len(log') /\ AccountedFor(q, k)'
      <3>1. k \in 1..Len(log) /\ AccountedFor(q, k)
        BY <2>1 DEF Ready, Accounted
      <3>2. k \in 1..Len(log') /\ log'[k] = log[k]
        BY <1>1, <1>4, <3>1
      <3>3. Side(q)' = Side(q)
        BY <1>2 DEF Side
      <3> QED BY <1>2, <3>1, <3>2, <3>3 DEF AccountedFor
    <2> QED BY <1>2, <2>1 DEF Accounted
  <1> QED BY <1>7, <1>8 DEF Ready

\* A send that goes on without its position is counted.
LEMMA SkewReady ==
    ASSUME SentOnce', Ready, Kept', NEW p \in Party,
           \/ \E c \in Content : SubmitUnreachable(p, c)
           \/ \E o \in out[p] : SubmitTimeout(p, o)
           \/ \E c \in counter[p] : CounterSubmit(p, c)
    PROVE  Ready'
  <1>1. CASE \/ \E c \in Content : SubmitUnreachable(p, c)
             \/ \E o \in out[p] : SubmitTimeout(p, o)
    <2>1. skewed'
      BY <1>1 DEF SubmitUnreachable, SubmitTimeout
    <2> QED BY <2>1, SkewedReady
  <1>2. CASE \E c \in counter[p] : CounterSubmit(p, c)
    <2>1. skewed
      BY <1>2 DEF Ready, OneEach
    <2>2. skewed'
      BY <1>2, <2>1 DEF CounterSubmit, histVars
    <2> QED BY <2>2, SkewedReady
  <1> QED BY <1>1, <1>2

\* SubmitAck notes the position it teaches.
LEMMA SubmitAckReady ==
    ASSUME Ready, Kept', NEW p \in Party, NEW o \in out[p], SubmitAck(p, o)
    PROVE  Ready'
  <1> DEFINE n == [c |-> o.c, pos |-> o.pos]
  <1>1. /\ ordered' = [ordered EXCEPT ![p] = PutHash(@, n)]
        /\ seen' = [seen EXCEPT ![p] = @ \cup {o.pos}]
        /\ UNCHANGED <<tree, heldRow, held, annex, hydrated, witnessed, counter, log, sends, skewed>>
    BY DEF SubmitAck, relayVars, heldVars
  <1>2. n.c = o.c /\ n.pos = o.pos
    OBVIOUS
  <1> HIDE DEF n
  <1>3. /\ ordered'[p] = {x \in ordered[p] : x.c # n.c} \cup {n}
        /\ seen'[p] = seen[p] \cup {o.pos}
        /\ \A q \in Party : q # p => ordered'[q] = ordered[q] /\ seen'[q] = seen[q]
    BY <1>1 DEF Ready, Kept, Inv, TypeOK, PutHash
  <1>4. SidesKept
    BY <1>1, SameSides DEF Ready
  <1>5. ASSUME ~skewed PROVE o.pos \in 1..Len(log) /\ log[o.pos].c = o.c /\ AccountedFor(p, o.pos)'
    <2>1. o.pos # NoPos /\ At(log, o, p)
      BY <1>5 DEF Ready, Kept, Inv, OrderOK, PositionsOK, PositionsIn
    <2>2. o.pos \in 1..Len(log) /\ log[o.pos].c = o.c
      BY <2>1 DEF At
    <2>3. n \in ordered'[p]
      BY <1>3
    <2>4. AccountedFor(p, o.pos)'
      BY <1>1, <1>2, <2>2, <2>3 DEF AccountedFor
    <2> QED BY <2>2, <2>4
  <1>6. ASSUME NEW q \in Party, ~skewed, NEW k \in seen'[q]
        PROVE  k \in seen[q] \/ (k \in 1..Len(log) /\ AccountedFor(q, k)')
    BY <1>3, <1>5, <1>6
  <1>7. ASSUME NEW q \in Party, ~skewed, NEW x \in witnessed[q] \cup ordered[q]
        PROVE  \/ x \in witnessed'[q] \cup ordered'[q]
               \/ \E j \in 1..Len(log) : log[j].c = x.c /\ AccountedFor(q, j)'
    <2>1. x \in witnessed'[q] \cup ordered'[q] \/ (q = p /\ x.c = o.c)
      BY <1>1, <1>2, <1>3
    <2> QED BY <1>5, <1>7, <2>1
  <1> QED BY <1>1, <1>4, <1>6, <1>7, ReadyStep

\* LeafDeliver notes the position it teaches, or the leaf is in place.
LEMMA LeafDeliverReady ==
    ASSUME Ready, Kept', NEW p \in Party, LeafDeliver(p)
    PROVE  Ready'
  <1>1. leafq[p] \in Seq(Nat) /\ leafq[p] # << >>
    BY DEF LeafDeliver, Ready, Kept, Inv, TypeOK
  <1>2. Head(leafq[p]) \in Nat /\ Head(leafq[p]) \in 1..Len(log)
    <2>1. Head(leafq[p]) = leafq[p][1] /\ 1 \in 1..Len(leafq[p]) /\ Head(leafq[p]) \in Nat
      BY <1>1
    <2> QED BY <2>1 DEF Ready, Kept, Inv, PositionsOK, PositionsIn
  <1>3. PICK k \in Nat : k = Head(leafq[p])
    BY <1>2
  <1>4. PICK n : n = [c |-> log[k].c, pos |-> k]
    OBVIOUS
  <1> DEFINE placed == k <= Len(tree[p]) /\ tree[p][k].c = log[k].c
  <1>5. /\ seen' = [seen EXCEPT ![p] = @ \cup {k}]
        /\ witnessed' = IF placed THEN witnessed ELSE [witnessed EXCEPT ![p] = PutHash(@, n)]
        /\ UNCHANGED <<tree, heldRow, held, annex, hydrated, ordered, counter, log, sends, skewed>>
    BY <1>3, <1>4 DEF LeafDeliver, sendVars
  <1>6. n.c = log[k].c /\ n.pos = k /\ k \in 1..Len(log)
    BY <1>2, <1>3, <1>4
  <1>7. /\ seen'[p] = seen[p] \cup {k} /\ (placed => witnessed'[p] = witnessed[p])
        /\ (~placed => witnessed'[p] = {x \in witnessed[p] : x.c # n.c} \cup {n})
        /\ \A q \in Party : q # p => witnessed'[q] = witnessed[q] /\ seen'[q] = seen[q]
    BY <1>5 DEF Ready, Kept, Inv, TypeOK, PutHash
  <1>8. SidesKept
    BY <1>5, SameSides DEF Ready
  <1>9. AccountedFor(p, k)'
    <2>1. CASE placed
      <3>1. Side(p)'.t = tree[p]
        BY <1>5 DEF Side
      <3>2. Has(Side(p)', log[k].c, k)
        BY <2>1, <3>1 DEF Has
      <3> QED BY <1>5, <3>2 DEF AccountedFor
    <2>2. CASE ~placed
      <3>1. n \in witnessed'[p]
        BY <1>7, <2>2
      <3> QED BY <1>5, <1>6, <3>1 DEF AccountedFor
    <2> QED BY <2>1, <2>2
  <1>10. ASSUME NEW q \in Party, ~skewed, NEW j \in seen'[q]
         PROVE  j \in seen[q] \/ (j \in 1..Len(log) /\ AccountedFor(q, j)')
    BY <1>6, <1>7, <1>9, <1>10
  <1>11. ASSUME NEW q \in Party, ~skewed, NEW x \in witnessed[q] \cup ordered[q]
         PROVE  \/ x \in witnessed'[q] \cup ordered'[q]
                \/ \E j \in 1..Len(log) : log[j].c = x.c /\ AccountedFor(q, j)'
    <2>1. x \in witnessed'[q] \cup ordered'[q] \/ (q = p /\ x.c = log[k].c)
      <3>1. ordered' = ordered
        BY <1>5
      <3> QED BY <1>6, <1>7, <3>1
    <2> QED BY <1>6, <1>9, <2>1
  <1>12. /\ \A q \in Party : counter'[q] \subseteq counter[q] \/ skewed
         /\ UNCHANGED <<log, sends, skewed>>
    BY <1>5
  <1> HIDE DEF placed
  <1> QED BY <1>8, <1>10, <1>11, <1>12, ReadyStep

\* Arriving frames change the notes only as restoring and releasing does.
LEMMA ArrivalReady ==
    ASSUME Ready, Kept', NEW p \in Party,
           \/ \E f \in wire : ContentFrame(p, f)
           \/ \E f \in mailbox[p] : RecoverParked(p, f)
    PROVE  Ready'
  <1>1. UNCHANGED <<log, sends, skewed, seen, ordered, counter>>
    BY DEF ContentFrame, RecoverParked, relayVars, sendVars, histVars
  <1>2. UNCHANGED heldVars \/ Commit(p, EnsureHeldRestored(p))
    BY DEF ContentFrame, RecoverParked
  <1>3. CASE UNCHANGED heldVars
    BY <1>1, <1>3, StillReady DEF heldVars
  <1>4. CASE Commit(p, EnsureHeldRestored(p))
    <2>1. SidesKept /\ WitnessesKept
      BY <1>1, <1>4, ArrivalKeeps, ArrivalRetires DEF Ready
    <2>2. ASSUME NEW q \in Party, ~skewed, NEW x \in witnessed[q] \cup ordered[q]
          PROVE  \/ x \in witnessed'[q] \cup ordered'[q]
                 \/ \E j \in 1..Len(log) : log[j].c = x.c /\ AccountedFor(q, j)'
      BY <1>1, <2>1, WitnessAccounted
    <2> QED BY <1>1, <2>1, <2>2, ReadyStep
  <1> QED BY <1>2, <1>3, <1>4

\* ReadSealReadiness drops notes of positions in the tree.
LEMMA ReadSealReadinessReady ==
    ASSUME Ready, Kept', NEW p \in Party, ReadSealReadiness(p)
    PROVE  Ready'
  <1>1. /\ ordered' = [ordered EXCEPT ![p] = {x \in @ : x.pos > Len(tree[p])}]
        /\ UNCHANGED <<log, sends, skewed, seen, counter, witnessed, tree>>
    BY DEF ReadSealReadiness, relayVars, histVars
  <1>2. SidesKept
    BY ReadSealReadinessKeeps DEF Ready
  <1>3. ASSUME NEW k \in Nat, k <= Len(tree[p]) PROVE AccountedFor(p, k)'
    <2>1. Side(p)'.t = tree[p]
      BY <1>1 DEF Side
    <2> QED BY <1>3, <2>1 DEF AccountedFor, Has
  <1>4. Accounted'
    <2>1. ASSUME ~skewed, NEW q \in Party, NEW k \in seen[q]
          PROVE  k \in 1..Len(log) /\ AccountedFor(q, k)'
      <3>1. k \in 1..Len(log) /\ AccountedFor(q, k) /\ k \in Nat /\ log[k].c \in Content
        <4>1. k \in 1..Len(log) /\ AccountedFor(q, k) /\ log \in Seq(Leaf)
          BY <2>1 DEF Ready, Accounted, Kept, Inv, TypeOK
        <4>2. log[k] \in Leaf /\ k \in Nat
          BY <4>1
        <4> QED BY <4>1, <4>2 DEF Leaf
      <3>2. Len(tree[p]) \in Nat /\ ordered \in [Party -> SUBSET Frame]
        BY DEF Ready, Kept, Inv, TypeOK
      <3>3. CASE q = p /\ k <= Len(tree[p])
        BY <1>3, <3>1, <3>3
      <3>4. CASE ~(q = p /\ k <= Len(tree[p]))
        <4>1. \A x \in ordered[q] : x.pos = k => x \in ordered'[q]
          BY <1>1, <3>1, <3>2, <3>4
        <4>2. Has(Side(q), log[k].c, k) => Has(Side(q)', log[k].c, k)
          BY <1>2, <3>1 DEF SidesKept, Keeps
        <4> QED BY <1>1, <3>1, <4>1, <4>2 DEF AccountedFor
      <3> QED BY <3>1, <3>3, <3>4
    <2> QED BY <1>1, <2>1 DEF Accounted
  <1>5. OneEach'
    BY <1>1 DEF Ready, OneEach, SentOnce
  <1> QED BY <1>4, <1>5 DEF Ready

\* A crash forgets what it learnt together with the notes.
LEMMA CrashReady ==
    ASSUME Ready, Kept', NEW p \in Party, Crash(p)
    PROVE  Ready'
  <1>1. /\ seen' = [seen EXCEPT ![p] = {}] /\ witnessed' = [witnessed EXCEPT ![p] = {}]
        /\ ordered' = [ordered EXCEPT ![p] = {}] /\ counter' = [counter EXCEPT ![p] = {}]
        /\ UNCHANGED <<tree, heldRow, annex, log, sends, skewed>>
    BY DEF Crash
  <1>2. seen'[p] = {} /\ counter'[p] = {}
        /\ \A q \in Party : q # p => /\ seen'[q] = seen[q] /\ witnessed'[q] = witnessed[q]
                                     /\ ordered'[q] = ordered[q] /\ counter'[q] = counter[q]
    BY <1>1 DEF Ready, Kept, Inv, TypeOK
  <1>3. SidesKept
    <2>1. \A q \in Party : /\ Side(q)'.t = Side(q).t /\ Side(q)'.r = Side(q).r
                           /\ Side(q)'.a = Side(q).a
      BY <1>1 DEF Side
    <2> QED BY <2>1 DEF SidesKept, Keeps, Texts, Has
  <1>4. \A q \in Party : counter'[q] \subseteq counter[q] \/ skewed
    BY <1>2
  <1>5. \A q \in Party : ~skewed => \A k \in seen'[q] :
              k \in seen[q] \/ (k \in 1..Len(log) /\ AccountedFor(q, k)')
    BY <1>2
  <1>6. \A q \in Party : ~skewed => \A x \in witnessed[q] \cup ordered[q] :
              \/ seen'[q] = {} \/ x \in witnessed'[q] \cup ordered'[q]
              \/ \E j \in 1..Len(log) : log[j].c = x.c /\ AccountedFor(q, j)'
    BY <1>2
  <1> QED BY <1>1, <1>3, <1>4, <1>5, <1>6, ReadyStep

\* A frame let in by the screen retires the witnesses of the leaves the tree took.
LEMMA ScreenedRetires ==
    ASSUME Kept, ~skewed, out' = out, log' = log, NEW p \in Party, NEW f \in screening[p],
           ~DupAfterScreen(tree[p], f.c, f.pos), NEW z, Commit(p, z),
           \/ /\ CanonicalPos(p, f) > Len(EnsureHeldRestored(p).t) + 1
              /\ z = HoldReceived(p, EnsureHeldRestored(p), f.c, CanonicalPos(p, f))
           \/ /\ CanonicalPos(p, f) <= Len(EnsureHeldRestored(p).t) + 1
              /\ z = AppendReceived(p, EnsureHeldRestored(p), f.c)
    PROVE  WitnessesKept
  <1> DEFINE s == EnsureHeldRestored(p)
             pos == CanonicalPos(p, f)
  <1>1. SideOK(log, z) /\ Grown(tree[p], z.t) /\ z.w \subseteq witnessed[p] /\ Grown(z.t, log)
    BY VerdictFacts DEF Kept
  <1>2. s = Side(p) /\ SideOK(log, s) /\ s.h = s.r
    <2>1. hydrated[p] /\ drained[p]
      BY DEF Kept, Inv, DrainedOK
    <2> QED BY <2>1, EnsureFacts, EnsureKeeps DEF Kept, Inv
  <1>3. f.c \in Content /\ log \in Seq(Leaf) /\ Len(s.t) \in Nat
    <2>1. f \in Ingress
      BY DEF Kept, Inv, TypeOK
    <2>2. s.t \in Seq(Leaf)
      BY <1>2 DEF SideOK, SideType
    <2> HIDE DEF s
    <2> QED BY <2>1, <2>2 DEF Kept, Inv, TypeOK, Ingress
  <1>4. pos \in Nat /\ (pos # NoPos => pos \in 1..Len(log) /\ log[pos] = [from |-> Peer(p), c |-> f.c])
    BY CanonicalFacts DEF Kept
  <1> HIDE DEF s, pos
  <1>5. Retires(log, Side(p), z)
    <2>1. CASE pos > Len(s.t) + 1 /\ z = HoldReceived(p, s, f.c, pos)
      <3>1. pos # NoPos
        BY <1>3, <1>4, <2>1 DEF NoPos
      <3>2. z.w = s.w
        BY <1>2, <1>3, <1>4, <2>1, <3>1, HoldFacts
      <3> QED BY <1>2, <3>2 DEF Retires
    <2>2. CASE z = AppendReceived(p, s, f.c)
      BY <1>1, <1>2, <1>3, <2>2, AppendRetires
    <2> QED BY <2>1, <2>2 DEF s, pos
  <1>6. Side(p)' = z
    BY <1>1, CommitFacts DEF Kept, Inv
  <1> QED BY <1>5, <1>6, CommitWitnesses

\* ScreenVerdict forgets only the witnesses of leaves it put in the tree.
LEMMA ScreenVerdictReady ==
    ASSUME Ready, Kept', NEW p \in Party, NEW f \in screening[p], NEW v, ScreenVerdict(p, f, v)
    PROVE  Ready'
  <1>1. UNCHANGED <<log, out, sends, skewed, seen, ordered>>
    BY DEF ScreenVerdict, sendVars, relayVars
  <1>2. CASE skewed
    BY <1>1, <1>2, SkewedReady DEF Ready, OneEach, SentOnce
  <1>3. CASE ~skewed
    <2>1. SidesKept
      BY ScreenVerdictKept DEF Ready, Kept
    <2>2. f.pos # NoPos
      BY <1>3 DEF Ready, Kept, Inv, OrderOK
    <2>3. counter' = counter
      BY <2>2 DEF ScreenVerdict
    <2>4. \/ UNCHANGED heldVars
          \/ \E z : /\ ~DupAfterScreen(tree[p], f.c, f.pos) /\ Commit(p, z)
                    /\ \/ /\ CanonicalPos(p, f) > Len(EnsureHeldRestored(p).t) + 1
                          /\ z = HoldReceived(p, EnsureHeldRestored(p), f.c, CanonicalPos(p, f))
                       \/ /\ CanonicalPos(p, f) <= Len(EnsureHeldRestored(p).t) + 1
                          /\ z = AppendReceived(p, EnsureHeldRestored(p), f.c)
      BY DEF ScreenVerdict
    <2>5. witnessed' = witnessed \/ WitnessesKept
      BY <1>1, <1>3, <2>4, ScreenedRetires DEF Ready, heldVars
    <2>6. ASSUME NEW q \in Party, NEW x \in witnessed[q] \cup ordered[q]
          PROVE  \/ x \in witnessed'[q] \cup ordered'[q]
                 \/ \E j \in 1..Len(log) : log[j].c = x.c /\ AccountedFor(q, j)'
      BY <1>1, <2>5, WitnessAccounted
    <2> QED BY <1>1, <2>1, <2>3, <2>6, ReadyStep
  <1> QED BY <1>2, <1>3

\* A position that is placed, or of a document frame, is accounted for without its note.
LEMMA SentReady ==
    ASSUME Ready, Kept', SidesKept, WitnessesKept, NEW p \in Party, NEW o \in out[p],
           UNCHANGED <<log, sends, skewed, seen, counter>>,
           ordered' = [ordered EXCEPT ![p] = DropHash(@, o.c)],
           ~skewed => Has(Side(p)', o.c, o.pos) \/ o.c \in Docs
    PROVE  Ready'
  <1>1. \A q \in Party : \A x \in ordered[q] : x \in ordered'[q] \/ (q = p /\ x.c = o.c)
    BY DEF Ready, Kept, Inv, TypeOK, DropHash
  <1>2. ASSUME ~skewed
        PROVE  o.pos \in 1..Len(log) /\ log[o.pos].c = o.c /\ AccountedFor(p, o.pos)'
    <2>1. o.pos # NoPos /\ At(log, o, p)
      BY <1>2 DEF Ready, Kept, Inv, OrderOK, PositionsOK, PositionsIn
    <2>2. o.pos \in 1..Len(log) /\ log[o.pos].c = o.c /\ log[o.pos].from = p
      BY <2>1 DEF At
    <2> QED BY <1>2, <2>2 DEF AccountedFor
  <1>3. ASSUME ~skewed, NEW q \in Party, NEW x \in witnessed[q] \cup ordered[q]
        PROVE  \/ x \in witnessed'[q] \cup ordered'[q]
               \/ \E j \in 1..Len(log) : log[j].c = x.c /\ AccountedFor(q, j)'
    <2>1. CASE x \in witnessed[q]
      BY <2>1, WitnessAccounted
    <2>2. CASE x \in ordered[q]
      BY <1>1, <1>2, <1>3, <2>2
    <2> QED BY <2>1, <2>2
  <1> QED BY <1>3, ReadyStep

\* FinishSend drops the note of a position it has placed.
LEMMA FinishSendReady ==
    ASSUME Ready, Kept', NEW p \in Party, NEW o \in out[p], FinishSend(p, o)
    PROVE  Ready'
  <1>1. /\ PlaceOwnLeaf(p, o.c, o.pos)
        /\ ordered' = [ordered EXCEPT ![p] = DropHash(@, o.c)]
        /\ UNCHANGED <<log, sends, skewed, seen, counter>>
    BY DEF FinishSend, PlaceOwnLeaf, relayVars, histVars
  <1>2. SidesKept /\ Has(Side(p)', o.c, o.pos) /\ WitnessesKept
    BY <1>1, PlaceOwnKeeps, PlaceOwnRetires DEF Ready
  <1> QED BY <1>1, <1>2, SentReady

\* ParkRefused drops the note of a position it has placed, or of a document frame.
LEMMA ParkRefusedReady ==
    ASSUME Ready, Kept', NEW p \in Party, NEW o \in out[p], ParkRefused(p, o)
    PROVE  Ready'
  <1> DEFINE durable == \A x \in rows[p] : x.c # o.c
  <1>1. /\ o.st = "ready" /\ ordered' = [ordered EXCEPT ![p] = DropHash(@, o.c)]
        /\ UNCHANGED <<log, sends, skewed, seen, counter>>
    BY DEF ParkRefused, PlaceOwnLeaf, relayVars
  <1>2. \/ PlaceOwnLeaf(p, o.c, o.pos)
        \/ ~(durable /\ o.c \notin Docs) /\ UNCHANGED heldVars
    BY DEF ParkRefused
  <1>3. CASE PlaceOwnLeaf(p, o.c, o.pos)
    <2>1. SidesKept /\ Has(Side(p)', o.c, o.pos) /\ WitnessesKept
      BY <1>1, <1>3, PlaceOwnKeeps, PlaceOwnRetires DEF Ready
    <2> QED BY <1>1, <2>1, SentReady
  <1>4. CASE ~(durable /\ o.c \notin Docs) /\ UNCHANGED heldVars
    <2>1. SidesKept
      BY <1>4, SameSides DEF Ready, heldVars
    <2>2. WitnessesKept
      <3>1. \A q \in Party : Side(q).w = witnessed[q] /\ Side(q)'.w = witnessed'[q]
        BY DEF Side
      <3> QED BY <1>4, <3>1 DEF WitnessesKept, Retires, heldVars
    <2>3. ~skewed => o.c \in Docs
      <3> SUFFICES ASSUME ~skewed, o.c \notin Docs PROVE FALSE
        OBVIOUS
      <3>1. PICK x \in rows[p] : x.c = o.c
        BY <1>4
      <3>2. o.pos # NoPos /\ At(log, o, p) /\ x.pos # NoPos /\ At(log, x, p)
        BY DEF Ready, Kept, Inv, OrderOK, PositionsOK, PositionsIn
      <3>3. x.pos = o.pos
        BY <3>1, <3>2 DEF At, Ready, OneEach
      <3> QED BY <1>1, <3>2, <3>3 DEF Ready, Kept, OwnPositions, Unconfirmed
    <2> QED BY <1>1, <2>1, <2>2, <2>3, SentReady
  <1> QED BY <1>2, <1>3, <1>4

\* The other steps touch neither a record nor a note.
LEMMA QuietReady ==
    ASSUME Ready, Kept', NEW p \in Party,
           \/ UNCHANGED vars
           \/ \E o \in out[p] : DirectSend(p, o) \/ ParkContent(p, o)
           \/ \E a \in ackw : DeliveryAck(p, a) \/ LoseAck(a)
           \/ \E f \in wire : LoseFrame(f)
           \/ LoseLeaf(p)
           \/ \E x \in awaiting[p] : TtfExpiry(p, x)
           \/ \E x \in rows[p] : FlushAwaiting(p, x)
    PROVE  Ready'
  <1>1. UNCHANGED <<tree, heldRow, held, annex, hydrated, witnessed, ordered,
                    seen, counter, log, sends, skewed>>
    BY DEF vars, DirectSend, ParkContent, DeliveryAck, LoseAck, LoseFrame, LoseLeaf, TtfExpiry,
           FlushAwaiting, relayVars, heldVars, sendVars, histVars
  <1> QED BY <1>1, StillReady

\* Initially nothing was learnt.
LEMMA InitReady == Init => Ready
  <1> SUFFICES ASSUME Init PROVE Ready
    OBVIOUS
  <1>1. Kept
    BY InitKept
  <1>2. OneEach
    BY DEF Init, OneEach, SentOnce
  <1>3. Accounted
    BY DEF Init, Accounted
  <1> QED BY <1>1, <1>2, <1>3 DEF Ready

\* A step that sends no content again keeps what is learnt accounted for.
LEMMA NextReady == Ready /\ [Next]_vars /\ SentOnce' => Ready'
  <1> SUFFICES ASSUME Ready, [Next]_vars, SentOnce' PROVE Ready'
    OBVIOUS
  <1>0. Kept'
    BY NextKept DEF Ready
  <1>1. CASE UNCHANGED vars
    <2>1. PICK p : p \in Party
      BY PartyAssumption
    <2> QED BY <1>0, <1>1, <2>1, QuietReady
  <1>2. ASSUME NEW p \in Party, NEW c \in Content, Submit(p, c) \/ SubmitUnreachable(p, c)
        PROVE  Ready'
    BY <1>0, <1>2, SubmitReady, SkewReady
  <1>3. ASSUME NEW p \in Party, NEW o \in out[p],
               \/ SubmitAck(p, o) \/ SubmitTimeout(p, o) \/ DirectSend(p, o)
               \/ ParkContent(p, o) \/ ParkRefused(p, o) \/ FinishSend(p, o)
        PROVE  Ready'
    BY <1>0, <1>3, SubmitAckReady, SkewReady, QuietReady, ParkRefusedReady, FinishSendReady
  <1>4. ASSUME NEW p \in Party, LeafDeliver(p) \/ ReadSealReadiness(p) \/ Crash(p)
        PROVE  Ready'
    BY <1>0, <1>4, LeafDeliverReady, ReadSealReadinessReady, CrashReady
  <1>5. ASSUME NEW p \in Party,
               (\E f \in wire : ContentFrame(p, f)) \/ (\E f \in mailbox[p] : RecoverParked(p, f))
        PROVE  Ready'
    BY <1>0, <1>5, ArrivalReady
  <1>6. ASSUME NEW p \in Party, NEW v \in {"allow", "block", "defer"}, NEW f \in screening[p],
               ScreenVerdict(p, f, v)
        PROVE  Ready'
    BY <1>0, <1>6, ScreenVerdictReady
  <1>7. ASSUME NEW p \in Party, NEW c \in counter[p], CounterSubmit(p, c) PROVE Ready'
    BY <1>0, <1>7, SkewReady
  <1>8. ASSUME NEW p \in Party,
               \/ \E a \in ackw : DeliveryAck(p, a) \/ LoseAck(a)
               \/ \E f \in wire : LoseFrame(f)
               \/ LoseLeaf(p)
               \/ \E x \in awaiting[p] : TtfExpiry(p, x)
               \/ \E x \in rows[p] : FlushAwaiting(p, x)
        PROVE  Ready'
    BY <1>0, <1>8, QuietReady
  <1>9. \E p : p \in Party
    BY PartyAssumption
  <1> QED BY <1>1, <1>2, <1>3, <1>4, <1>5, <1>6, <1>7, <1>8, <1>9 DEF Next

\* A count of sends only grows.
LEMMA SendsGrow ==
    ASSUME TypeOK, [Next]_vars
    PROVE  \A c \in Content : sends[c] <= sends'[c]
  <1>1. \/ UNCHANGED sends
        \/ \E c \in Content : sends' = [sends EXCEPT ![c] = @ + 1]
    <2>1. CASE UNCHANGED vars
      BY <2>1 DEF vars
    <2>2. ASSUME NEW p \in Party, NEW c \in Content, Submit(p, c) \/ SubmitUnreachable(p, c)
          PROVE  sends' = [sends EXCEPT ![c] = @ + 1]
      BY <2>2 DEF Submit, SubmitUnreachable, MaySend
    <2>3. ASSUME NEW p \in Party, NEW o,
                 \/ SubmitAck(p, o) \/ SubmitTimeout(p, o) \/ DirectSend(p, o)
                 \/ ParkContent(p, o) \/ ParkRefused(p, o) \/ FinishSend(p, o)
          PROVE  UNCHANGED sends
      BY <2>3 DEF SubmitAck, SubmitTimeout, DirectSend, ParkContent, ParkRefused, FinishSend,
         histVars
    <2>4. ASSUME NEW p \in Party, NEW f, NEW v,
                 \/ LeafDeliver(p) \/ ReadSealReadiness(p) \/ Crash(p) \/ LoseLeaf(p)
                 \/ ContentFrame(p, f) \/ RecoverParked(p, f) \/ ScreenVerdict(p, f, v)
                 \/ CounterSubmit(p, f) \/ DeliveryAck(p, f) \/ TtfExpiry(p, f)
                 \/ FlushAwaiting(p, f) \/ LoseFrame(f) \/ LoseAck(f)
          PROVE  UNCHANGED sends
      BY <2>4 DEF LeafDeliver, ReadSealReadiness, Crash, LoseLeaf, ContentFrame, RecoverParked,
         ScreenVerdict, CounterSubmit, DeliveryAck, TtfExpiry, FlushAwaiting, LoseFrame, LoseAck,
         histVars
    <2>5. \E p : p \in Party
      BY PartyAssumption
    <2> QED BY <2>1, <2>2, <2>3, <2>4, <2>5 DEF Next
  <1>2. sends \in [Content -> Nat]
    BY DEF TypeOK
  <1>3. CASE UNCHANGED sends
    BY <1>2, <1>3
  <1>4. ASSUME NEW c \in Content, sends' = [sends EXCEPT ![c] = @ + 1]
        PROVE  \A d \in Content : sends[d] <= sends'[d]
    <2>1. \A d \in Content : sends[d] \in Nat /\ sends'[d] = IF d = c THEN sends[d] + 1 ELSE sends[d]
      BY <1>2, <1>4
    <2> QED BY <2>1
  <1> QED BY <1>1, <1>3, <1>4

\* As long as no content was sent twice, a side that reports itself ready to seal has every
\* leaf it learnt of from the relay since it started, but for its own document frames:
\* sealReadiness never lets a short record be signed.  The maps of what is outstanding are
\* keyed by content hash, so of two sends of one text they remember one.
THEOREM ReadyComplete == Spec => []ReadyUnlessRepeated
  <1>1. Ready => ReadyMeansComplete
    <2> SUFFICES ASSUME Ready, NEW p \in Party, ~skewed, SealReady(p), NEW k \in seen[p]
                 PROVE  k <= Len(tree[p]) \/ (log[k].from = p /\ log[k].c \in Docs)
      BY DEF ReadyMeansComplete
    <2>1. k \in 1..Len(log) /\ AccountedFor(p, k)
      BY DEF Ready, Accounted
    <2>2. log[k].c \in Content /\ k \in Nat
      <3>1. log \in Seq(Leaf)
        BY DEF Ready, Kept, Inv, TypeOK
      <3>2. log[k] \in Leaf /\ k \in Nat
        BY <2>1, <3>1
      <3> QED BY <3>2 DEF Leaf
    <2>3. CASE Has(Side(p), log[k].c, k)
      <3>1. /\ Keeps(Side(p), Hydrated(p)) /\ Hydrated(p).h = Hydrated(p).r
            /\ Hydrated(p).t = tree[p]
        BY HydratedKeeps DEF Ready, Kept, Inv
      <3>2. Has(Hydrated(p), log[k].c, k)
        BY <2>2, <2>3, <3>1 DEF Keeps
      <3>3. Hydrated(p).r = {}
        BY <3>1 DEF SealReady
      <3> QED BY <3>1, <3>2, <3>3 DEF Has
    <2>4. CASE \E x \in witnessed[p] \cup ordered[p] : x.c = log[k].c /\ x.pos = k
      BY <2>4 DEF SealReady
    <2> QED BY <2>1, <2>3, <2>4 DEF AccountedFor
  <1>2. Init => (SentOnce => Ready)
    BY InitReady
  <1>3. Kept /\ (SentOnce => Ready) /\ [Next]_vars => (SentOnce => Ready)'
    <2> SUFFICES ASSUME Kept, SentOnce => Ready, [Next]_vars, SentOnce' PROVE Ready'
      OBVIOUS
    <2>1. \A c \in Content : sends[c] <= sends'[c]
      BY SendsGrow DEF Kept, Inv
    <2>2. SentOnce
      <3>1. (\A c \in Content : sends[c] \in Nat) /\ \A c \in Content : sends'[c] \in Nat
        <4>1. TypeOK /\ TypeOK'
          BY NextKept DEF Kept, Inv
        <4> QED BY <4>1 DEF TypeOK
      <3> QED BY <2>1, <3>1 DEF SentOnce
    <2> QED BY <2>2, NextReady
  <1>4. Spec => [](SentOnce => Ready)
    BY <1>2, <1>3, KeptAlways, PTL DEF Spec
  <1>5. (SentOnce => Ready) => ReadyUnlessRepeated
    BY <1>1 DEF ReadyUnlessRepeated
  <1> QED BY <1>4, <1>5, PTL

=============================================================================
