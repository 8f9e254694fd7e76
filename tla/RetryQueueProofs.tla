-------------------------- MODULE RetryQueueProofs --------------------------
(***************************************************************************)
(* Proofs about RetryQueue for any contents, flushers, caps and faults.    *)
(*                                                                         *)
(* Arrays stay in order because a new copy has a number and a position     *)
(* above those of every row and every entry of every array, also after a   *)
(* restart, which takes the counter from the rows (Numbered, Arranged).    *)
(* A pass that nobody asked to run again has before it, or has tried,      *)
(* everything that was queued when it was asked for (Attended).            *)
(***************************************************************************)
EXTENDS RetryQueue, FiniteSetTheorems, SequenceTheorems, TLAPS

-----------------------------------------------------------------------------
(* The invariant.                                                          *)

\* Rows: at most one for each content, their positions in the order of acceptance, and
\* below the counters.
Numbered ==
    /\ IsFiniteSet(rows) /\ IsFiniteSet(direct)
    /\ \A r \in rows : r.pos <= posA /\ r.k <= Len(copies)
    /\ \A r, s \in rows : r # s => /\ r.h # s.h /\ r.pos # s.pos
                                   /\ r.pos < s.pos => r.k < s.k
    /\ \A r \in direct : r.pos <= posD
    /\ \A r, s \in direct : r # s => r.pos # s.pos

\* An array in the order of acceptance and of position, up to position p and number c; no
\* content is in it twice.
InOrder(s, p, c) ==
    /\ \A i \in 1..Len(s) : s[i].pos <= p /\ s[i].k <= c
    /\ \A i, j \in 1..Len(s) : i < j => s[i].k < s[j].k /\ s[i].pos < s[j].pos
    /\ \A i, j \in 1..Len(s) : i # j => s[i].h # s[j].h

\* Arrays, also those that only a flush still has.
Arranged == \A g \in Array : InOrder(array[g], posA, Len(copies))

\* Flushes, and what they were asked for.
Attended ==
    \A f \in Flusher :
        /\ ~flush[f].on => ~flush[f].again /\ flush[f].todo = << >>
        /\ flush[f].todo # << >> => flush[f].arr # 0
        /\ \A e \in asked[f] : e.k <= Len(copies)
        /\ ~flush[f].again => asked[f] \cap owed \cap ToSet(Queued) \subseteq ToSet(flush[f].todo)

Inv ==
    /\ TypeOK /\ Numbered /\ Arranged /\ Attended
    /\ DurableUnlessRobbed /\ FlushableUnlessDropped

-----------------------------------------------------------------------------
(* Sequences.                                                              *)

LEMMA InSeq == ASSUME NEW T, NEW s \in Seq(T) PROVE ToSet(s) \subseteq T /\ \A i \in 1..Len(s) : s[i] \in ToSet(s)
  BY DEF ToSet

LEMMA RemoveAtFacts ==
    ASSUME NEW T, NEW s \in Seq(T), NEW i \in 1..Len(s)
    PROVE  /\ RemoveAt(s, i) \in Seq(T) /\ Len(RemoveAt(s, i)) = Len(s) - 1
           /\ \A j \in 1..(Len(s) - 1) : RemoveAt(s, i)[j] = IF j < i THEN s[j] ELSE s[j + 1]
  <1> DEFINE a == SubSeq(s, 1, i - 1)
             b == SubSeq(s, i + 1, Len(s))
  <1>1. a \in Seq(T) /\ Len(a) = i - 1 /\ \A j \in 1..(i - 1) : a[j] = s[j]
    OBVIOUS
  <1>2. b \in Seq(T) /\ Len(b) = Len(s) - i /\ \A j \in 1..(Len(s) - i) : b[j] = s[i + j]
    OBVIOUS
  <1>3. RemoveAt(s, i) = a \o b
    BY DEF RemoveAt
  <1> HIDE DEF a, b
  <1>4. a \o b \in Seq(T) /\ Len(a \o b) = Len(s) - 1
    <2>1. a \o b \in Seq(T) /\ Len(a \o b) = Len(a) + Len(b)
      BY <1>1, <1>2, ConcatProperties
    <2>2. (i - 1) + (Len(s) - i) = Len(s) - 1
      OBVIOUS
    <2> QED BY <1>1, <1>2, <2>1, <2>2
  <1>5. ASSUME NEW j \in 1..(Len(s) - 1), j < i PROVE (a \o b)[j] = s[j]
    BY <1>1, <1>2, <1>5
  <1>6. ASSUME NEW j \in 1..(Len(s) - 1), ~(j < i) PROVE (a \o b)[j] = s[j + 1]
    <2>1. (a \o b)[j] = b[j - Len(a)] /\ j - Len(a) \in 1..(Len(s) - i)
      BY <1>1, <1>2, <1>6
    <2>2. b[j - Len(a)] = s[i + (j - Len(a))] /\ i + (j - Len(a)) = j + 1
      BY <1>1, <1>2, <2>1
    <2> QED BY <2>1, <2>2
  <1> QED BY <1>3, <1>4, <1>5, <1>6

\* s with one element less, and otherwise as before.
Spliced(s, r) ==
    /\ Len(r) <= Len(s)
    /\ \E at \in [1..Len(r) -> 1..Len(s)] :
          /\ \A i \in 1..Len(r) : r[i] = s[at[i]]
          /\ \A i, j \in 1..Len(r) : i < j => at[i] < at[j]

LEMMA RemoveAtSplices ==
    ASSUME NEW T, NEW s \in Seq(T), NEW i \in 1..Len(s)
    PROVE  LET r == RemoveAt(s, i)
           IN  /\ r \in Seq(T) /\ Spliced(s, r) /\ ToSet(r) \subseteq ToSet(s)
               /\ \A e \in ToSet(s) : e # s[i] => e \in ToSet(r)
  <1> DEFINE r == RemoveAt(s, i)
  <1>1. /\ r \in Seq(T) /\ Len(r) = Len(s) - 1 /\ Len(s) \in Nat
        /\ \A j \in 1..(Len(s) - 1) : r[j] = IF j < i THEN s[j] ELSE s[j + 1]
    <2>1. Len(s) \in Nat
      OBVIOUS
    <2> QED BY <2>1, RemoveAtFacts
  <1> HIDE DEF r
  <1>2. Spliced(s, r)
    <2> DEFINE at == [j \in 1..Len(r) |-> IF j < i THEN j ELSE j + 1]
    <2>1. at \in [1..Len(r) -> 1..Len(s)]
      BY <1>1
    <2>2. \A j \in 1..Len(r) : r[j] = s[at[j]]
      BY <1>1
    <2>3. \A j, k \in 1..Len(r) : j < k => at[j] < at[k]
      BY <1>1
    <2> HIDE DEF at
    <2> QED BY <1>1, <2>1, <2>2, <2>3 DEF Spliced
  <1>3. ToSet(r) \subseteq ToSet(s)
    <2>1. \A j \in 1..Len(r) : \E k \in 1..Len(s) : r[j] = s[k]
      BY <1>1
    <2> QED BY <1>1, <2>1 DEF ToSet
  <1>4. ASSUME NEW e \in ToSet(s), e # s[i] PROVE e \in ToSet(r)
    <2>1. PICK k \in 1..Len(s) : e = s[k]
      BY DEF ToSet
    <2>2. CASE k < i
      BY <1>1, <2>1, <2>2 DEF ToSet
    <2>3. CASE k > i
      <3>1. k - 1 \in 1..Len(r) /\ r[k - 1] = s[(k - 1) + 1] /\ (k - 1) + 1 = k
        BY <1>1, <2>3
      <3> QED BY <1>1, <2>1, <3>1 DEF ToSet
    <2> QED BY <1>4, <2>1, <2>2, <2>3
  <1> QED BY <1>1, <1>2, <1>3, <1>4 DEF r

LEMMA SplicedSelf == ASSUME NEW T, NEW s \in Seq(T) PROVE Spliced(s, s)
  <1> DEFINE at == [i \in 1..Len(s) |-> i]
  <1>1. at \in [1..Len(s) -> 1..Len(s)] /\ Len(s) <= Len(s)
    OBVIOUS
  <1>2. (\A i \in 1..Len(s) : s[i] = s[at[i]]) /\ \A i, j \in 1..Len(s) : i < j => at[i] < at[j]
    OBVIOUS
  <1> HIDE DEF at
  <1> QED BY <1>1, <1>2 DEF Spliced

\* findIndex and splice: contents are in an array once.
LEMMA WithoutFacts ==
    ASSUME NEW s \in Seq(Entry), NEW h \in Hash,
           \A i, j \in 1..Len(s) : i # j => s[i].h # s[j].h
    PROVE  LET r == Without(s, h)
           IN  /\ r \in Seq(Entry) /\ Spliced(s, r) /\ ToSet(r) \subseteq ToSet(s)
               /\ \A e \in ToSet(s) : e.h # h => e \in ToSet(r)
  <1>1. CASE \E i \in 1..Len(s) : s[i].h = h
    <2>1. PICK i \in 1..Len(s) : s[i].h = h
      BY <1>1
    <2> DEFINE I == {j \in 1..Len(s) : s[j].h = h}
    <2>2. I = {i}
      BY <2>1
    <2>3. Min(I) = i
      <3>1. Min(I) = CHOOSE x \in {i} : \A y \in {i} : x =< y
        BY <2>2 DEF Min
      <3> QED BY <3>1
    <2>4. Without(s, h) = RemoveAt(s, i)
      BY <1>1, <2>1, <2>2, <2>3 DEF Without, RemoveFirstMatch, SelectInSeq
    <2>5. /\ RemoveAt(s, i) \in Seq(Entry) /\ Spliced(s, RemoveAt(s, i))
          /\ ToSet(RemoveAt(s, i)) \subseteq ToSet(s)
          /\ \A e \in ToSet(s) : e # s[i] => e \in ToSet(RemoveAt(s, i))
      BY RemoveAtSplices
    <2> QED BY <2>1, <2>4, <2>5
  <1>2. CASE ~\E i \in 1..Len(s) : s[i].h = h
    <2>1. Without(s, h) = s
      BY <1>2 DEF Without, RemoveFirstMatch
    <2> QED BY <2>1, SplicedSelf
  <1> QED BY <1>1, <1>2

\* indexOf and splice.
LEMMA RemoveFacts ==
    ASSUME NEW s \in Seq(Entry), NEW e \in Entry,
           \A i, j \in 1..Len(s) : i # j => s[i].h # s[j].h
    PROVE  LET r == RemoveFirst(s, e)
           IN  /\ r \in Seq(Entry) /\ Spliced(s, r) /\ ToSet(r) \subseteq ToSet(s)
               /\ \A x \in ToSet(s) : x # e => x \in ToSet(r)
  <1>1. CASE \E i \in 1..Len(s) : s[i] = e
    <2>1. PICK i \in 1..Len(s) : s[i] = e
      BY <1>1
    <2> DEFINE I == {j \in 1..Len(s) : s[j] = e}
    <2>2. I = {i}
      BY <2>1
    <2>3. Min(I) = i
      <3>1. Min(I) = CHOOSE x \in {i} : \A y \in {i} : x =< y
        BY <2>2 DEF Min
      <3> QED BY <3>1
    <2>4. RemoveFirst(s, e) = RemoveAt(s, i)
      BY <1>1, <2>1, <2>2, <2>3 DEF RemoveFirst, SelectInSeq
    <2>5. /\ RemoveAt(s, i) \in Seq(Entry) /\ Spliced(s, RemoveAt(s, i))
          /\ ToSet(RemoveAt(s, i)) \subseteq ToSet(s)
          /\ \A x \in ToSet(s) : x # s[i] => x \in ToSet(RemoveAt(s, i))
      BY RemoveAtSplices
    <2> QED BY <2>1, <2>4, <2>5
  <1>2. CASE ~\E i \in 1..Len(s) : s[i] = e
    <2>1. RemoveFirst(s, e) = s
      BY <1>2 DEF RemoveFirst
    <2> QED BY <2>1, SplicedSelf
  <1> QED BY <1>1, <1>2

-----------------------------------------------------------------------------
(* Positions: rows in order, the greatest position, an array no flush has. *)

\* The rank of a row among the rows of S.
Upto(S, e) == {r \in S : r.pos <= e.pos}

\* Rows with distinct positions can be put in order of position.
LEMMA SortedExists ==
    ASSUME NEW S, IsFiniteSet(S), \A e \in S : e.pos \in Nat,
           \A e, r \in S : e # r => e.pos # r.pos
    PROVE  \E s \in SetToSeqs(S) : \A i, j \in DOMAIN s : i < j => s[i].pos < s[j].pos
  <1> DEFINE n == Cardinality(S)
             rank == [e \in S |-> Cardinality(Upto(S, e))]
  <1>1. n \in Nat /\ IsFiniteSet(1..n) /\ Cardinality(1..n) = n
    BY FS_CardinalityType, FS_Interval
  <1>2. ASSUME NEW e \in S PROVE rank[e] \in 1..n
    <2>1. Upto(S, e) \in SUBSET S /\ e \in Upto(S, e)
      BY DEF Upto
    <2>2. IsFiniteSet(Upto(S, e)) /\ Cardinality(Upto(S, e)) <= n
      BY <2>1, FS_Subset
    <2>3. Cardinality(Upto(S, e)) \in Nat /\ Cardinality(Upto(S, e)) # 0
      BY <2>1, <2>2, FS_CardinalityType, FS_EmptySet
    <2> QED BY <1>1, <2>2, <2>3
  <1>3. ASSUME NEW e \in S, NEW r \in S, e.pos < r.pos PROVE rank[e] < rank[r]
    <2>1. Upto(S, e) \in SUBSET Upto(S, r) /\ r \in Upto(S, r) /\ r \notin Upto(S, e)
      BY <1>3 DEF Upto
    <2>2. Upto(S, r) \in SUBSET S
      BY DEF Upto
    <2>3. IsFiniteSet(Upto(S, r))
      BY <2>2, FS_Subset
    <2>4. /\ Cardinality(Upto(S, e)) <= Cardinality(Upto(S, r))
          /\ Cardinality(Upto(S, e)) # Cardinality(Upto(S, r))
      BY <2>1, <2>3, FS_Subset
    <2> QED BY <1>2, <2>4
  <1> HIDE DEF rank
  <1>4. rank \in Injection(S, 1..n)
    <2>1. \A e, r \in S : e # r => e.pos < r.pos \/ r.pos < e.pos
      OBVIOUS
    <2>2. \A e, r \in S : rank[e] = rank[r] => e = r
      BY <1>2, <1>3, <2>1
    <2>3. rank \in [S -> 1..n]
      BY <1>2 DEF rank
    <2> QED BY <2>2, <2>3 DEF Injection, IsInjective
  <1>5. rank \in Surjection(S, 1..n)
    BY <1>1, <1>4, FS_Injection
  <1>6. \A i \in 1..n : \E e \in S : rank[e] = i
    BY <1>5 DEF Surjection
  <1> DEFINE s == [i \in 1..n |-> CHOOSE e \in S : rank[e] = i]
  <1>7. \A i \in 1..n : s[i] \in S /\ rank[s[i]] = i
    BY <1>6
  <1>8. s \in SetToSeqs(S)
    <2>1. s \in [1..n -> S] /\ \A i, j \in 1..n : i # j => s[i] # s[j]
      BY <1>7
    <2> HIDE DEF s
    <2> QED BY <2>1 DEF SetToSeqs
  <1>9. ASSUME NEW i \in 1..n, NEW j \in 1..n, i < j PROVE s[i].pos < s[j].pos
    <2>1. s[i] \in S /\ s[j] \in S /\ rank[s[i]] = i /\ rank[s[j]] = j
      BY <1>7
    <2> HIDE DEF s
    <2>2. ~(s[j].pos < s[i].pos)
      BY <1>3, <1>9, <2>1
    <2>3. s[i] # s[j]
      BY <1>9, <2>1
    <2> QED BY <2>1, <2>2, <2>3
  <1>10. DOMAIN s = 1..n
    OBVIOUS
  <1> HIDE DEF s
  <1> QED BY <1>8, <1>9, <1>10

\* What loadFromDb reads is every row, once and in order.
LEMMA ByPosFacts ==
    ASSUME NEW T, NEW S \in SUBSET T, IsFiniteSet(S), \A e \in S : e.pos \in Nat,
           \A e, r \in S : e # r => e.pos # r.pos
    PROVE  /\ ByPos(S) \in Seq(T) /\ ToSet(ByPos(S)) = S /\ Len(ByPos(S)) = Cardinality(S)
           /\ \A i, j \in 1..Len(ByPos(S)) : i < j => ByPos(S)[i].pos < ByPos(S)[j].pos
           /\ \A i, j \in 1..Len(ByPos(S)) : i # j => ByPos(S)[i] # ByPos(S)[j]
           /\ \A i \in 1..Len(ByPos(S)) : ByPos(S)[i] \in S
  <1> DEFINE n == Cardinality(S)
             s == ByPos(S)
  <1>1. s \in SetToSeqs(S) /\ \A i, j \in DOMAIN s : i < j => s[i].pos < s[j].pos
    BY SortedExists DEF ByPos
  <1> HIDE DEF s
  <1>2. n \in Nat /\ IsFiniteSet(1..n) /\ Cardinality(1..n) = n
    BY FS_CardinalityType, FS_Interval
  <1>3. s \in [1..n -> S] /\ \A i, j \in 1..n : i # j => s[i] # s[j]
    BY <1>1 DEF SetToSeqs
  <1>4. s \in Seq(T) /\ Len(s) = n /\ DOMAIN s = 1..n
    BY <1>2, <1>3
  <1>5. s \in Injection(1..n, S)
    BY <1>3 DEF Injection, IsInjective
  <1>6. s \in Surjection(1..n, S)
    BY <1>2, <1>5, FS_Injection
  <1>7. ToSet(s) = S
    BY <1>3, <1>4, <1>6 DEF ToSet, Surjection
  <1> QED BY <1>1, <1>3, <1>4, <1>7 DEF s

\* The counter that continues the rows.
LEMMA MaxPosFacts ==
    ASSUME NEW S, IsFiniteSet(S), \A e \in S : e.pos \in Nat,
           \A e, r \in S : e # r => e.pos # r.pos
    PROVE  MaxPos(S) \in Nat /\ \A e \in S : e.pos <= MaxPos(S)
  <1> DEFINE s == ByPos(S)
             P == {e.pos : e \in S} \cup {0}
  <1>1. /\ s \in Seq(S) /\ ToSet(s) = S
        /\ \A i, j \in 1..Len(s) : i < j => s[i].pos < s[j].pos
        /\ \A i \in 1..Len(s) : s[i] \in S
    BY ByPosFacts
  <1> HIDE DEF s
  <1>2. \A e \in S : \E i \in 1..Len(s) : e = s[i]
    BY <1>1 DEF ToSet
  <1>3. Len(s) \in Nat
    BY <1>1
  <1>4. \E x \in P : \A y \in P : x >= y
    <2>1. CASE Len(s) = 0
      <3>1. P = {0}
        BY <1>2, <2>1
      <3> QED BY <3>1
    <2>2. CASE Len(s) # 0
      <3>1. Len(s) \in 1..Len(s) /\ s[Len(s)] \in S
        BY <1>1, <1>3, <2>2
      <3>2. ASSUME NEW e \in S PROVE e.pos <= s[Len(s)].pos
        <4>1. PICK i \in 1..Len(s) : e = s[i]
          BY <1>2
        <4>2. i < Len(s) \/ i = Len(s)
          BY <1>3
        <4> QED BY <1>1, <3>1, <4>1, <4>2
      <3>3. s[Len(s)].pos \in P /\ s[Len(s)].pos \in Nat
        BY <3>1
      <3>4. ASSUME NEW y \in P PROVE s[Len(s)].pos >= y
        <4>1. y = 0 \/ \E e \in S : y = e.pos
          OBVIOUS
        <4> QED BY <3>2, <3>3, <4>1
      <3> QED BY <3>3, <3>4
    <2> QED BY <2>1, <2>2
  <1>5. MaxPos(S) \in P /\ \A y \in P : MaxPos(S) >= y
    <2>1. MaxPos(S) = CHOOSE x \in P : \A y \in P : x >= y
      BY DEF MaxPos, Max
    <2> HIDE DEF P
    <2> QED BY <1>4, <2>1
  <1>6. P \subseteq Nat
    OBVIOUS
  <1> QED BY <1>5, <1>6

\* There are more arrays than flushes, so a new one can be had.
LEMMA FreeSlot ==
    ASSUME TypeOK
    PROVE  Slot \in Array /\ (cur = 0 => \A f \in Flusher : flush[f].arr # Slot)
                          /\ (cur # 0 => Slot = cur)
  <1> DEFINE n == Cardinality(Flusher)
             took == [g \in Array |-> CHOOSE f \in Flusher : flush[f].arr = g]
  <1>1. n \in Nat /\ IsFiniteSet(Flusher)
    BY SizesAssumption, FS_CardinalityType
  <1>2. IsFiniteSet(Array) /\ Cardinality(Array) = n + 1
    <2>1. IsFiniteSet(1..(n + 1)) /\ Cardinality(1..(n + 1)) = n + 1
      BY <1>1, FS_Interval
    <2> QED BY <2>1 DEF Array
  <1>3. \E g \in Array : \A f \in Flusher : flush[f].arr # g
    <2> SUFFICES ASSUME \A g \in Array : \E f \in Flusher : flush[f].arr = g PROVE FALSE
      OBVIOUS
    <2>1. \A g \in Array : took[g] \in Flusher /\ flush[took[g]].arr = g
      OBVIOUS
    <2>2. took \in [Array -> Flusher]
      BY <2>1
    <2> HIDE DEF took
    <2>3. \E x, y \in Array : x # y /\ took[x] = took[y]
      BY <1>1, <1>2, <2>2, FS_PigeonHole
    <2> QED BY <2>1, <2>3
  <1>4. cur \in Array \cup {0}
    BY DEF TypeOK
  <1> QED BY <1>3, <1>4 DEF Slot

-----------------------------------------------------------------------------
(* Parts of the state.                                                     *)

LEMMA QueuedSeq == TypeOK => Queued \in Seq(Entry)
  BY DEF TypeOK, Queued

LEMMA SplicedInOrder ==
    ASSUME NEW s \in Seq(Entry), NEW r \in Seq(Entry), Spliced(s, r), NEW p \in Nat, NEW c \in Nat,
           InOrder(s, p, c)
    PROVE  InOrder(r, p, c)
  <1>1. PICK at \in [1..Len(r) -> 1..Len(s)] :
            /\ \A i \in 1..Len(r) : r[i] = s[at[i]]
            /\ \A i, j \in 1..Len(r) : i < j => at[i] < at[j]
    BY DEF Spliced
  <1>2. \A i \in 1..Len(r) : at[i] \in 1..Len(s) /\ r[i] = s[at[i]]
    BY <1>1
  <1>3. \A i, j \in 1..Len(r) : i # j => at[i] # at[j]
    <2>1. \A i, j \in 1..Len(r) : i # j => i < j \/ j < i
      OBVIOUS
    <2>2. \A i, j \in 1..Len(r) : at[i] < at[j] => at[i] # at[j] /\ at[j] # at[i]
      BY <1>2
    <2> QED BY <1>1, <2>1, <2>2
  <1>4. \A i \in 1..Len(r) : r[i].pos <= p /\ r[i].k <= c
    BY <1>2 DEF InOrder
  <1>5. \A i, j \in 1..Len(r) : i < j => r[i].k < r[j].k /\ r[i].pos < r[j].pos
    BY <1>1, <1>2 DEF InOrder
  <1>6. \A i, j \in 1..Len(r) : i # j => r[i].h # r[j].h
    BY <1>2, <1>3 DEF InOrder
  <1> QED BY <1>4, <1>5, <1>6 DEF InOrder

\* A new copy comes last.
LEMMA AppendInOrder ==
    ASSUME NEW s \in Seq(Entry), NEW p \in Nat, NEW c \in Nat, InOrder(s, p, c),
           NEW e \in Entry, e.pos = p + 1, e.k = c + 1, \A i \in 1..Len(s) : s[i].h # e.h
    PROVE  /\ Append(s, e) \in Seq(Entry) /\ InOrder(Append(s, e), p + 1, c + 1)
           /\ ToSet(Append(s, e)) = ToSet(s) \cup {e}
  <1> DEFINE r == Append(s, e)
  <1>1. /\ r \in Seq(Entry) /\ Len(r) = Len(s) + 1 /\ Len(s) \in Nat
        /\ \A i \in 1..Len(s) : r[i] = s[i]
        /\ r[Len(s) + 1] = e
    OBVIOUS
  <1> HIDE DEF r
  <1>2. \A i \in 1..Len(s) : s[i] \in Entry /\ s[i].pos \in Nat /\ s[i].k \in Nat
    <2>1. \A x \in Entry : x.pos \in Nat /\ x.k \in Nat
      BY DEF Entry
    <2> QED BY <2>1
  <1>3. \A i \in 1..Len(r) : i \in 1..Len(s) \/ i = Len(s) + 1
    BY <1>1
  <1>4. \A i \in 1..Len(r) : r[i].pos <= p + 1 /\ r[i].k <= c + 1
    BY <1>1, <1>2, <1>3 DEF InOrder
  <1>5. ASSUME NEW i \in 1..Len(r), NEW j \in 1..Len(r), i < j
        PROVE  r[i].k < r[j].k /\ r[i].pos < r[j].pos
    <2>1. i \in 1..Len(s)
      BY <1>1, <1>5
    <2>2. CASE j \in 1..Len(s)
      BY <1>1, <1>5, <2>1, <2>2 DEF InOrder
    <2>3. CASE j = Len(s) + 1
      BY <1>1, <1>2, <2>1, <2>3 DEF InOrder
    <2> QED BY <1>3, <2>2, <2>3
  <1>6. \A i, j \in 1..Len(r) : i # j => r[i].h # r[j].h
    BY <1>1, <1>3 DEF InOrder
  <1>7. ToSet(r) = ToSet(s) \cup {e}
    <2>1. DOMAIN r = 1..Len(r) /\ DOMAIN s = 1..Len(s) /\ Len(s) + 1 \in 1..Len(r)
      BY <1>1
    <2>2. 1..Len(r) = (1..Len(s)) \cup {Len(s) + 1}
      BY <1>1
    <2>3. ToSet(r) = {r[i] : i \in (1..Len(s)) \cup {Len(s) + 1}}
      BY <2>1, <2>2 DEF ToSet
    <2>4. ToSet(s) = {r[i] : i \in 1..Len(s)}
      BY <1>1, <2>1 DEF ToSet
    <2> QED BY <1>1, <2>3, <2>4
  <1> QED BY <1>1, <1>4, <1>5, <1>6, <1>7 DEF InOrder, r

LEMMA EmptyInOrder == \A p, c \in Nat : InOrder(<< >>, p, c)
  BY DEF InOrder

LEMMA ToSetTail ==
    ASSUME NEW T, NEW s \in Seq(T), s # << >>
    PROVE  /\ Head(s) \in T /\ Tail(s) \in Seq(T)
           /\ ToSet(s) \subseteq {Head(s)} \cup ToSet(Tail(s))
  <1>1. Head(s) \in T /\ Tail(s) \in Seq(T) /\ Head(s) = s[1] /\ Len(Tail(s)) = Len(s) - 1
    OBVIOUS
  <1>2. \A i \in 1..Len(s) : i = 1 \/ (i - 1 \in 1..Len(Tail(s)) /\ s[i] = Tail(s)[i - 1])
    OBVIOUS
  <1>3. ASSUME NEW x \in ToSet(s), x # Head(s) PROVE x \in ToSet(Tail(s))
    <2>1. PICK i \in 1..Len(s) : x = s[i]
      BY DEF ToSet
    <2>2. i - 1 \in 1..Len(Tail(s)) /\ x = Tail(s)[i - 1]
      BY <1>1, <1>2, <1>3, <2>1
    <2>3. DOMAIN Tail(s) = 1..Len(Tail(s))
      BY <1>1
    <2> QED BY <2>2, <2>3 DEF ToSet
  <1> QED BY <1>1, <1>3

LEMMA ToSetEmpty == ToSet(<< >>) = {}
  BY DEF ToSet

\* A step that asks for no pass and ends none, and queues nothing that is owed.
LEMMA AttendedSteady ==
    ASSUME Attended, UNCHANGED <<flush, asked, copies>>,
           \A e \in owed' : e \in ToSet(Queued') => e \in owed /\ e \in ToSet(Queued)
    PROVE  Attended'
  <1> SUFFICES ASSUME NEW f \in Flusher
               PROVE  /\ ~flush[f].on => ~flush[f].again /\ flush[f].todo = << >>
                      /\ flush[f].todo # << >> => flush[f].arr # 0
                      /\ \A e \in asked[f] : e.k <= Len(copies)
                      /\ ~flush[f].again
                         => asked[f] \cap owed' \cap ToSet(Queued') \subseteq ToSet(flush[f].todo)
    BY DEF Attended
  <1> QED BY DEF Attended

\* Rows that go make none of them wrong.
LEMMA NumberedFewer ==
    ASSUME TypeOK, Numbered, rows' \subseteq rows, direct' \subseteq direct,
           UNCHANGED <<posA, posD, copies>>
    PROVE  Numbered'
  <1>1. IsFiniteSet(rows') /\ IsFiniteSet(direct')
    BY FS_Subset DEF Numbered
  <1> QED BY <1>1 DEF Numbered

LEMMA FaultFacts == TypeOK /\ (Fault \/ UNCHANGED faults) => faults' \in 0..MaxFaults
  BY SizesAssumption DEF TypeOK, Fault

LEMMA DeleteFacts ==
    ASSUME TypeOK, NEW h, NEW mine, DeleteRow(h, mine)
    PROVE  /\ rows' \subseteq rows /\ faults' \in 0..MaxFaults /\ robbed' \in BOOLEAN
           /\ ~robbed' => ~robbed /\ \A r \in rows \cap owed : r \notin mine => r \in rows'
  <1>1. CASE rows' = {r \in rows : r.h # h} /\ UNCHANGED faults
             /\ robbed' = (robbed \/ ((rows \ rows') \cap owed) \ mine # {})
    <2>1. rows' \subseteq rows /\ faults' \in 0..MaxFaults
      BY <1>1, FaultFacts
    <2>2. robbed' \in BOOLEAN
      BY <1>1
    <2>3. ~robbed' => ~robbed /\ \A r \in rows \cap owed : r \notin mine => r \in rows'
      BY <1>1
    <2> QED BY <2>1, <2>2, <2>3
  <1>2. CASE Fault /\ UNCHANGED <<rows, robbed>>
    BY <1>2, FaultFacts DEF TypeOK
  <1> QED BY <1>1, <1>2 DEF DeleteRow

-----------------------------------------------------------------------------
(* The steps.                                                              *)

LEMMA InitKeeps == Init => Inv
  <1> SUFFICES ASSUME Init PROVE Inv
    OBVIOUS
  <1>1. IsFiniteSet({}) /\ Cardinality(Flusher) \in Nat /\ {MaxCopies, MaxFaults, MaxCrashes} \subseteq Nat
    BY FS_EmptySet, FS_CardinalityType, SizesAssumption
  <1>2. TypeOK
    <2>1. array \in [Array -> Seq(Entry)] /\ queue \in Seq(Direct) /\ copies \in Seq(Hash) /\ Len(copies) = 0
      BY DEF Init
    <2>2. flush \in [Flusher -> [on : BOOLEAN, again : BOOLEAN, arr : Array \cup {0}, todo : Seq(Entry)]]
      <3>1. Idle \in [on : BOOLEAN, again : BOOLEAN, arr : Array \cup {0}, todo : Seq(Entry)]
        BY DEF Idle
      <3> QED BY <3>1 DEF Init
    <2>3. {terminal, robbed, dropped} \subseteq BOOLEAN
      BY DEF Init
    <2>4. asked \in [Flusher -> SUBSET Entry]
      BY DEF Init
    <2>5. faults \in 0..MaxFaults /\ crashes \in 0..MaxCrashes /\ Len(copies) <= MaxCopies
      BY <1>1, <2>1 DEF Init
    <2> QED BY <2>1, <2>2, <2>3, <2>4, <2>5 DEF Init, TypeOK
  <1>3. Numbered
    BY <1>1 DEF Init, Numbered
  <1>4. Arranged
    <2>1. Len(copies) \in Nat /\ posA \in Nat /\ \A g \in Array : array[g] = << >>
      BY DEF Init
    <2> QED BY <2>1, EmptyInOrder DEF Arranged
  <1>5. Attended
    BY DEF Init, Attended, Idle
  <1>6. DurableUnlessRobbed /\ FlushableUnlessDropped
    BY DEF Init, DurableUnlessRobbed, FlushableUnlessDropped, Flushable
  <1> QED BY <1>2, <1>3, <1>4, <1>5, <1>6 DEF Inv

LEMMA EnqueueKeeps == ASSUME Inv, NEW n \in Nonce, Enqueue(n) PROVE Inv'
  <1> DEFINE e == [n |-> n, pos |-> posD + 1]
  <1>1. TypeOK /\ Numbered /\ Arranged /\ Attended /\ DurableUnlessRobbed /\ FlushableUnlessDropped
    BY DEF Inv
  <1>2. e \in Direct /\ e.pos = posD + 1 /\ posD \in Nat
    BY <1>1 DEF TypeOK, Direct
  <1>3. rows' \subseteq rows /\ direct' \subseteq direct \cup {e} /\ faults' \in 0..MaxFaults
    <2>1. rows' \subseteq rows /\ direct' \subseteq direct \cup {e} /\ (Fault \/ UNCHANGED faults)
      BY DEF Enqueue
    <2> QED BY <1>1, <2>1, FaultFacts
  <1>4. /\ UNCHANGED <<array, cur, posA, terminal, flush, copies, acked, owed, asked, dropped,
                       crashes>>
        /\ sent' = sent \cup {n} /\ posD' = posD + 1
        /\ robbed' = (robbed \/ (rows \ rows') \cap owed # {})
    BY DEF Enqueue
  <1>5. queue' \in Seq(Direct)
    <2>1. queue' = Append(IF Len(queue) >= Cap THEN Tail(queue) ELSE queue, e)
      BY DEF Enqueue
    <2>2. queue \in Seq(Direct) /\ Len(queue) \in Nat /\ Cap \in Nat \ {0}
      BY <1>1, SizesAssumption DEF TypeOK
    <2>3. (IF Len(queue) >= Cap THEN Tail(queue) ELSE queue) \in Seq(Direct)
      <3>1. Len(queue) >= Cap => queue # << >>
        BY <2>2
      <3> QED BY <2>2, <3>1
    <2> HIDE DEF e
    <2> QED BY <1>2, <2>1, <2>3
  <1> HIDE DEF e
  <1>6. TypeOK'
    <2>1. robbed' \in BOOLEAN
      BY <1>4
    <2>2. rows' \subseteq Entry /\ direct' \subseteq Direct
      BY <1>1, <1>2, <1>3 DEF TypeOK
    <2> QED BY <1>1, <1>2, <1>3, <1>4, <1>5, <2>1, <2>2 DEF TypeOK
  <1>7. Numbered'
    <2>1. IsFiniteSet(rows') /\ IsFiniteSet(direct')
      <3>1. IsFiniteSet(direct \cup {e})
        BY <1>1, FS_AddElement DEF Numbered
      <3> QED BY <1>1, <1>3, <3>1, FS_Subset DEF Numbered
    <2>2. \A r \in direct' : r.pos <= posD + 1
      <3>1. \A r \in direct : r.pos <= posD /\ r.pos \in Nat
        <4>1. \A r \in Direct : r.pos \in Nat
          BY DEF Direct
        <4> QED BY <1>1, <4>1 DEF Numbered, TypeOK
      <3>2. \A r \in direct : r.pos <= posD + 1
        BY <1>2, <3>1
      <3> QED BY <1>2, <1>3, <3>2
    <2>3. \A r \in direct : r.pos # posD + 1
      BY <1>1 DEF Numbered, TypeOK, Direct
    <2>4. \A r, s \in direct' : r # s => r.pos # s.pos
      BY <1>1, <1>2, <1>3, <2>3 DEF Numbered
    <2> QED BY <1>1, <1>3, <1>4, <2>1, <2>2, <2>4 DEF Numbered
  <1>8. Arranged'
    BY <1>1, <1>4 DEF Arranged
  <1>9. Queued' = Queued
    BY <1>4 DEF Queued
  <1>10. Attended'
    BY <1>1, <1>4, <1>9, AttendedSteady
  <1>11. DurableUnlessRobbed'
    BY <1>1, <1>3, <1>4 DEF DurableUnlessRobbed
  <1>12. FlushableUnlessDropped'
    BY <1>1, <1>3, <1>4, <1>9 DEF FlushableUnlessDropped, Flushable
  <1> QED BY <1>6, <1>7, <1>8, <1>10, <1>11, <1>12 DEF Inv

LEMMA ReapTerminalKeeps == ASSUME Inv, ReapTerminal PROVE Inv'
  <1>1. TypeOK /\ Numbered /\ Arranged /\ Attended /\ DurableUnlessRobbed /\ FlushableUnlessDropped
    BY DEF Inv
  <1>2. /\ UNCHANGED <<queueVars, flush, sent, copies, acked, owed, asked, robbed, dropped, crashes>>
        /\ terminal' = TRUE
        /\ \/ direct' = {} /\ queue' = << >> /\ posD' = 0 /\ UNCHANGED faults
           \/ Fault /\ UNCHANGED <<direct, queue, posD>>
    BY DEF ReapTerminal
  <1>3. TypeOK'
    <2>1. faults' \in 0..MaxFaults
      BY <1>1, <1>2, FaultFacts
    <2>2. direct' \subseteq Direct /\ queue' \in Seq(Direct) /\ posD' \in Nat
      <3>1. direct \subseteq Direct /\ queue \in Seq(Direct) /\ posD \in Nat
        BY <1>1 DEF TypeOK
      <3>2. << >> \in Seq(Direct) /\ 0 \in Nat
        OBVIOUS
      <3> QED BY <1>2, <3>1, <3>2
    <2>3. terminal' \in BOOLEAN
      BY <1>2
    <2> QED BY <1>1, <1>2, <2>1, <2>2, <2>3 DEF TypeOK, queueVars
  <1>4. Numbered'
    <2>1. IsFiniteSet(direct')
      BY <1>1, <1>2, FS_EmptySet DEF Numbered
    <2> QED BY <1>1, <1>2, <2>1 DEF Numbered, queueVars
  <1>5. Arranged' /\ Queued' = Queued
    BY <1>1, <1>2 DEF Arranged, Queued, queueVars
  <1>6. Attended'
    BY <1>1, <1>2, <1>5, AttendedSteady
  <1>7. DurableUnlessRobbed' /\ FlushableUnlessDropped'
    BY <1>1, <1>2, <1>5 DEF DurableUnlessRobbed, FlushableUnlessDropped, Flushable, queueVars
  <1> QED BY <1>3, <1>4, <1>5, <1>6, <1>7 DEF Inv

LEMMA EnqueueAwaitingKeeps == ASSUME Inv, NEW h \in Hash, EnqueueAwaiting(h) PROVE Inv'
  <1> DEFINE new == IF cur # 0 THEN array ELSE [array EXCEPT ![Slot] = << >>]
             e   == [h |-> h, pos |-> posA + 1, k |-> Len(copies) + 1]
  <1>1. TypeOK /\ Numbered /\ Arranged /\ Attended /\ DurableUnlessRobbed /\ FlushableUnlessDropped
    BY DEF Inv
  <1>2. Slot \in Array /\ (cur # 0 => Slot = cur) /\ Slot # 0
    <2>1. 0 \notin Array
      BY DEF Array
    <2> QED BY <1>1, <2>1, FreeSlot
  <1>3. e \in Entry /\ e.pos = posA + 1 /\ e.k = Len(copies) + 1 /\ e.h = h
        /\ posA \in Nat /\ Len(copies) \in Nat
    <2>1. posA \in Nat /\ Len(copies) \in Nat
      BY <1>1 DEF TypeOK
    <2> QED BY <2>1 DEF Entry
  <1>4. /\ UNCHANGED <<direct, queue, posD, terminal, flush, sent, acked, asked, robbed, dropped,
                       crashes>>
        /\ cur' = Slot /\ Len(copies) < MaxCopies
        /\ \A i \in 1..Len(Queued) : Queued[i].h # h
        /\ \/ /\ \A r \in rows : r.h # h
              /\ rows' = rows \cup {e} /\ array' = [new EXCEPT ![Slot] = Append(@, e)]
              /\ posA' = posA + 1 /\ copies' = Append(copies, h) /\ owed' = owed \cup {e}
              /\ UNCHANGED faults
           \/ /\ Fault \/ UNCHANGED faults
              /\ array' = new /\ UNCHANGED <<rows, posA, copies, owed>>
    BY DEF EnqueueAwaiting
  <1>5. new \in [Array -> Seq(Entry)] /\ new[Slot] = Queued
        /\ \A g \in Array : g # Slot => new[g] = array[g]
    <2>1. array \in [Array -> Seq(Entry)]
      BY <1>1 DEF TypeOK
    <2> QED BY <1>2, <2>1 DEF Queued
  <1>6. Queued \in Seq(Entry) /\ InOrder(Queued, posA, Len(copies))
    <2>1. cur \in Array \cup {0}
      BY <1>1 DEF TypeOK
    <2> QED BY <1>1, <1>3, <2>1, QueuedSeq, EmptyInOrder DEF Arranged, Queued
  <1>7. \A g \in Array : InOrder(new[g], posA, Len(copies))
    BY <1>1, <1>5, <1>6 DEF Arranged
  <1>8. Queued' = array'[Slot]
    BY <1>2, <1>4 DEF Queued
  <1> HIDE DEF e, new
  <1>9. CASE /\ \A r \in rows : r.h # h
             /\ rows' = rows \cup {e} /\ array' = [new EXCEPT ![Slot] = Append(@, e)]
             /\ posA' = posA + 1 /\ copies' = Append(copies, h) /\ owed' = owed \cup {e}
             /\ UNCHANGED faults
    <2>1. Append(Queued, e) \in Seq(Entry) /\ InOrder(Append(Queued, e), posA + 1, Len(copies) + 1)
          /\ ToSet(Append(Queued, e)) = ToSet(Queued) \cup {e}
      BY <1>3, <1>4, <1>6, AppendInOrder
    <2>2. /\ array' \in [Array -> Seq(Entry)] /\ array'[Slot] = Append(Queued, e)
          /\ \A g \in Array : g # Slot => array'[g] = new[g]
      BY <1>2, <1>5, <1>9, <2>1
    <2>3. copies' \in Seq(Hash) /\ Len(copies') = Len(copies) + 1
      BY <1>1, <1>9 DEF TypeOK
    <2>4. TypeOK'
      <3>1. rows' \subseteq Entry /\ owed' \subseteq Entry /\ posA' \in Nat /\ cur' \in Array \cup {0}
        BY <1>1, <1>2, <1>3, <1>4, <1>9 DEF TypeOK
      <3>2. Len(copies') <= MaxCopies
        BY <1>3, <1>4, <2>3, SizesAssumption
      <3> QED BY <1>1, <1>4, <1>9, <2>2, <2>3, <3>1, <3>2 DEF TypeOK
    <2>5. Numbered'
      <3>1. IsFiniteSet(rows')
        BY <1>1, <1>9, FS_AddElement DEF Numbered
      <3>2. \A r \in rows : r.pos <= posA /\ r.k <= Len(copies) /\ r.pos \in Nat /\ r.k \in Nat
        <4>1. \A r \in Entry : r.pos \in Nat /\ r.k \in Nat
          BY DEF Entry
        <4> QED BY <1>1, <4>1 DEF Numbered, TypeOK
      <3>3. \A r \in rows' : r.pos <= posA' /\ r.k <= Len(copies')
        BY <1>3, <1>9, <2>3, <3>2
      <3>4. ASSUME NEW r \in rows', NEW s \in rows', r # s
            PROVE  r.h # s.h /\ r.pos # s.pos /\ (r.pos < s.pos => r.k < s.k)
        <4>1. CASE r \in rows /\ s \in rows
          BY <1>1, <3>4, <4>1 DEF Numbered
        <4>2. CASE r \in rows /\ s = e
          BY <1>3, <1>9, <3>2, <4>2
        <4>3. CASE r = e /\ s \in rows
          BY <1>3, <1>9, <3>2, <4>3
        <4> QED BY <1>9, <3>4, <4>1, <4>2, <4>3
      <3> QED BY <1>1, <1>4, <3>1, <3>3, <3>4 DEF Numbered
    <2>6. Arranged'
      <3>1. ASSUME NEW g \in Array PROVE InOrder(array'[g], posA + 1, Len(copies) + 1)
        <4>1. CASE g = Slot
          BY <2>1, <2>2, <4>1
        <4>2. CASE g # Slot
          <5>1. array'[g] = new[g] /\ InOrder(new[g], posA, Len(copies)) /\ new[g] \in Seq(Entry)
            BY <1>5, <1>7, <2>2, <4>2
          <5>2. \A i \in 1..Len(new[g]) : new[g][i].pos \in Nat /\ new[g][i].k \in Nat
            <6>1. \A x \in Entry : x.pos \in Nat /\ x.k \in Nat
              BY DEF Entry
            <6> QED BY <5>1, <6>1
          <5> QED BY <1>3, <5>1, <5>2 DEF InOrder
        <4> QED BY <4>1, <4>2
      <3> QED BY <1>9, <2>3, <3>1 DEF Arranged
    <2>7. ToSet(Queued') = ToSet(Queued) \cup {e}
      BY <1>8, <2>1, <2>2
    <2>8. Attended'
      <3>1. \A f \in Flusher : e \notin asked[f] /\ \A x \in asked[f] : x.k <= Len(copies) + 1
        <4>1. ASSUME NEW f \in Flusher, NEW x \in asked[f] PROVE x # e /\ x.k <= Len(copies) + 1
          <5>1. x \in Entry /\ x.k <= Len(copies)
            BY <1>1 DEF TypeOK, Attended
          <5>2. x.k \in Nat
            BY <5>1 DEF Entry
          <5> QED BY <1>3, <5>1, <5>2
        <4> QED BY <4>1
      <3>2. asked' = asked /\ flush' = flush
        BY <1>4
      <3> QED BY <1>1, <1>9, <2>3, <2>7, <3>1, <3>2 DEF Attended
    <2>9. DurableUnlessRobbed' /\ FlushableUnlessDropped'
      BY <1>1, <1>4, <1>9, <2>7 DEF DurableUnlessRobbed, FlushableUnlessDropped, Flushable
    <2> QED BY <2>4, <2>5, <2>6, <2>8, <2>9 DEF Inv
  <1>10. CASE /\ Fault \/ UNCHANGED faults
              /\ array' = new /\ UNCHANGED <<rows, posA, copies, owed>>
    <2>1. Queued' = Queued
      BY <1>5, <1>8, <1>10
    <2>2. faults' \in 0..MaxFaults
      BY <1>1, <1>10, FaultFacts
    <2>3. TypeOK'
      BY <1>1, <1>2, <1>4, <1>5, <1>10, <2>2 DEF TypeOK
    <2>4. Numbered' /\ Arranged'
      BY <1>1, <1>4, <1>7, <1>10 DEF Numbered, Arranged
    <2>5. Attended'
      BY <1>1, <1>4, <1>10, <2>1, AttendedSteady
    <2>6. DurableUnlessRobbed' /\ FlushableUnlessDropped'
      BY <1>1, <1>4, <1>10, <2>1 DEF DurableUnlessRobbed, FlushableUnlessDropped, Flushable
    <2> QED BY <2>3, <2>4, <2>5, <2>6 DEF Inv
  <1> QED BY <1>4, <1>9, <1>10

LEMMA MarkContentAckedKeeps == ASSUME Inv, NEW h \in Hash, MarkContentAcked(h) PROVE Inv'
  <1>1. TypeOK /\ Numbered /\ Arranged /\ Attended /\ DurableUnlessRobbed /\ FlushableUnlessDropped
    BY DEF Inv
  <1>2. /\ UNCHANGED <<posA, direct, queue, posD, terminal, flush, sent, copies, asked, dropped,
                       crashes>>
        /\ acked' = acked \cup {h} /\ owed' = {e \in owed : e.h # h}
        /\ array' = IF cur = 0 THEN array ELSE [array EXCEPT ![cur] = Without(@, h)]
        /\ cur' = IF Without(Queued, h) = << >> THEN 0 ELSE cur
        /\ DeleteRow(h, owed)
    BY DEF MarkContentAcked
  <1>3. /\ rows' \subseteq rows /\ faults' \in 0..MaxFaults /\ robbed' \in BOOLEAN
        /\ ~robbed' => ~robbed
    BY <1>1, <1>2, DeleteFacts
  <1>4. ~robbed' => owed' \subseteq rows'
    <2>1. CASE rows' = {r \in rows : r.h # h}
      BY <1>1, <1>2, <1>3, <2>1 DEF DurableUnlessRobbed
    <2>2. CASE UNCHANGED rows
      BY <1>1, <1>2, <1>3, <2>2 DEF DurableUnlessRobbed
    <2> QED BY <1>2, <2>1, <2>2 DEF DeleteRow
  <1>5. /\ array \in [Array -> Seq(Entry)] /\ cur \in Array \cup {0}
        /\ posA \in Nat /\ Len(copies) \in Nat
    BY <1>1 DEF TypeOK
  <1>6. \A g \in Array : /\ Without(array[g], h) \in Seq(Entry)
                         /\ Spliced(array[g], Without(array[g], h))
                         /\ ToSet(Without(array[g], h)) \subseteq ToSet(array[g])
                         /\ \A e \in ToSet(array[g]) : e.h # h => e \in ToSet(Without(array[g], h))
    <2> SUFFICES ASSUME NEW g \in Array
                 PROVE  /\ Without(array[g], h) \in Seq(Entry)
                        /\ Spliced(array[g], Without(array[g], h))
                        /\ ToSet(Without(array[g], h)) \subseteq ToSet(array[g])
                        /\ \A e \in ToSet(array[g]) : e.h # h => e \in ToSet(Without(array[g], h))
      OBVIOUS
    <2>1. array[g] \in Seq(Entry) /\ \A i, j \in 1..Len(array[g]) : i # j => array[g][i].h # array[g][j].h
      BY <1>1, <1>5 DEF Arranged, InOrder
    <2> QED BY <2>1, WithoutFacts
  <1>7. array' \in [Array -> Seq(Entry)] /\ Arranged'
    <2>1. array' \in [Array -> Seq(Entry)]
      BY <1>2, <1>5, <1>6
    <2>2. ASSUME NEW g \in Array PROVE InOrder(array'[g], posA, Len(copies))
      <3>1. array[g] \in Seq(Entry) /\ InOrder(array[g], posA, Len(copies))
        BY <1>1, <1>5 DEF Arranged
      <3>2. InOrder(Without(array[g], h), posA, Len(copies))
        BY <1>5, <1>6, <3>1, SplicedInOrder
      <3>3. array'[g] = array[g] \/ array'[g] = Without(array[g], h)
        BY <1>2, <1>5
      <3> QED BY <3>1, <3>2, <3>3
    <2> QED BY <1>2, <2>1, <2>2 DEF Arranged
  <1>8. ToSet(Queued') \subseteq ToSet(Queued)
        /\ \A e \in ToSet(Queued) : e.h # h => e \in ToSet(Queued')
    <2>1. CASE cur = 0
      <3>1. Queued = << >>
        BY <2>1 DEF Queued
      <3>2. cur' = 0
        BY <1>2, <2>1
      <3>3. Queued' = << >>
        BY <3>2 DEF Queued
      <3> QED BY <3>1, <3>3, ToSetEmpty
    <2>2. CASE cur # 0
      <3>1. cur \in Array /\ Queued = array[cur] /\ array'[cur] = Without(Queued, h)
        BY <1>2, <1>5, <2>2 DEF Queued
      <3>2. CASE Without(Queued, h) = << >>
        <4>1. cur' = 0
          BY <1>2, <3>2
        <4>2. Queued' = << >>
          BY <4>1 DEF Queued
        <4> QED BY <1>6, <3>1, <3>2, <4>2
      <3>3. CASE Without(Queued, h) # << >>
        <4>1. cur' = cur
          BY <1>2, <3>3
        <4>2. Queued' = Without(Queued, h)
          BY <2>2, <3>1, <4>1 DEF Queued
        <4> QED BY <1>6, <3>1, <4>2
      <3> QED BY <3>2, <3>3
    <2> QED BY <2>1, <2>2
  <1>9. TypeOK'
    <2>1. cur' \in Array \cup {0} /\ rows' \subseteq Entry /\ owed' \subseteq Entry /\ acked' \subseteq Hash
      BY <1>1, <1>2, <1>3 DEF TypeOK
    <2> QED BY <1>1, <1>2, <1>3, <1>7, <2>1 DEF TypeOK
  <1>10. Numbered'
    BY <1>1, <1>2, <1>3, NumberedFewer
  <1>11. Attended'
    BY <1>1, <1>2, <1>8, AttendedSteady
  <1>12. DurableUnlessRobbed'
    BY <1>4 DEF DurableUnlessRobbed
  <1>13. FlushableUnlessDropped'
    BY <1>1, <1>2, <1>3, <1>8 DEF FlushableUnlessDropped, Flushable
  <1> QED BY <1>7, <1>9, <1>10, <1>11, <1>12, <1>13 DEF Inv

-----------------------------------------------------------------------------
(* Flushes.                                                                *)

\* A flush, as flush holds it.
Flush == [on : BOOLEAN, again : BOOLEAN, arr : Array \cup {0}, todo : Seq(Entry)]

LEMMA FlushType == TypeOK => flush \in [Flusher -> Flush]
  BY DEF TypeOK, Flush

LEMMA BegunFacts ==
    TypeOK => /\ Begun \in Flush /\ Begun.on /\ ~Begun.again /\ Begun.todo = Queued
              /\ (Begun.todo # << >> => Begun.arr # 0)
  <1> SUFFICES ASSUME TypeOK
               PROVE  /\ Begun \in Flush /\ Begun.on /\ ~Begun.again /\ Begun.todo = Queued
                      /\ (Begun.todo # << >> => Begun.arr # 0)
    OBVIOUS
  <1>1. Queued \in Seq(Entry) /\ cur \in Array \cup {0}
    BY QueuedSeq DEF TypeOK
  <1>2. Queued # << >> => cur # 0
    BY DEF Queued
  <1>3. (IF Queued = << >> THEN 0 ELSE cur) \in Array \cup {0}
    BY <1>1
  <1> QED BY <1>1, <1>2, <1>3 DEF Begun, Flush

\* What is attended of one flush; q is what is queued, w what is owed.
FlushAttended(fl, ask, w, q) ==
    /\ ~fl.on => ~fl.again /\ fl.todo = << >>
    /\ fl.todo # << >> => fl.arr # 0
    /\ \A e \in ask : e.k <= Len(copies)
    /\ ~fl.again => ask \cap w \cap q \subseteq ToSet(fl.todo)

LEMMA AttendedEach ==
    Attended <=> \A f \in Flusher : FlushAttended(flush[f], asked[f], owed, ToSet(Queued))
  BY DEF Attended, FlushAttended

\* A step of the flush f: what f is then is attended, and the rest is as before or less.
LEMMA AttendedStep ==
    ASSUME Attended, NEW f \in Flusher, NEW fl, NEW ask,
           flush' = [flush EXCEPT ![f] = fl], asked' = [asked EXCEPT ![f] = ask],
           flush \in [Flusher -> Flush], asked \in [Flusher -> SUBSET Entry],
           FlushAttended(fl, ask, owed', ToSet(Queued')), UNCHANGED copies,
           \A e \in owed' : e \in ToSet(Queued') => e \in owed /\ e \in ToSet(Queued)
    PROVE  Attended'
  <1>1. ASSUME NEW g \in Flusher, g # f
        PROVE  FlushAttended(flush[g], asked[g], owed', ToSet(Queued'))
    <2>1. FlushAttended(flush[g], asked[g], owed, ToSet(Queued))
      BY AttendedEach
    <2> QED BY <2>1 DEF FlushAttended
  <1>2. ASSUME NEW g \in Flusher
        PROVE  FlushAttended(flush'[g], asked'[g], owed', ToSet(Queued'))
    <2>1. CASE g = f
      BY <2>1
    <2>2. CASE g # f
      <3>1. flush'[g] = flush[g] /\ asked'[g] = asked[g]
        BY <2>2
      <3> QED BY <1>1, <2>2, <3>1
    <2> QED BY <2>1, <2>2
  <1>3. Len(copies') = Len(copies)
    OBVIOUS
  <1> QED BY <1>2, <1>3 DEF Attended, FlushAttended

LEMMA TriggerKeeps == ASSUME Inv, NEW f \in Flusher, Trigger(f) PROVE Inv'
  <1> DEFINE fl == IF flush[f].on THEN [flush[f] EXCEPT !.again = TRUE] ELSE Begun
  <1>1. TypeOK /\ Numbered /\ Arranged /\ Attended /\ DurableUnlessRobbed /\ FlushableUnlessDropped
    BY DEF Inv
  <1>2. /\ UNCHANGED <<rows, array, cur, posA, direct, queue, posD, terminal, sent, copies, acked,
                       owed, robbed, dropped, faults, crashes>>
        /\ asked' = [asked EXCEPT ![f] = ToSet(Queued)]
    BY DEF Trigger, queueVars
  <1>3. flush \in [Flusher -> Flush] /\ asked \in [Flusher -> SUBSET Entry] /\ Queued \in Seq(Entry)
    BY <1>1, FlushType, QueuedSeq DEF TypeOK
  <1>4. flush' = [flush EXCEPT ![f] = fl]
    BY <1>3 DEF Trigger
  <1>5. fl \in Flush /\ (flush[f].on => fl.again /\ fl.on /\ fl.todo = flush[f].todo /\ fl.arr = flush[f].arr)
        /\ (~flush[f].on => fl = Begun)
    BY <1>1, <1>3, BegunFacts DEF Flush
  <1> HIDE DEF fl
  <1>6. Queued' = Queued
    BY <1>2 DEF Queued
  <1>7. \A e \in ToSet(Queued) : e \in Entry /\ e.k <= Len(copies)
    <2>1. InOrder(Queued, posA, Len(copies))
      <3>1. posA \in Nat /\ Len(copies) \in Nat /\ cur \in Array \cup {0}
        BY <1>1 DEF TypeOK
      <3> QED BY <1>1, <3>1, EmptyInOrder DEF Queued, Arranged
    <2>2. \A e \in ToSet(Queued) : \E i \in 1..Len(Queued) : e = Queued[i]
      BY <1>3 DEF ToSet
    <2> QED BY <1>3, <2>1, <2>2 DEF InOrder
  <1>8. FlushAttended(fl, ToSet(Queued), owed, ToSet(Queued))
    <2>1. FlushAttended(flush[f], asked[f], owed, ToSet(Queued))
      BY <1>1, AttendedEach
    <2>2. CASE flush[f].on
      BY <1>5, <1>7, <2>1, <2>2 DEF FlushAttended
    <2>3. CASE ~flush[f].on
      <3>1. fl.on /\ ~fl.again /\ fl.todo = Queued /\ (fl.todo # << >> => fl.arr # 0)
        BY <1>1, <1>5, <2>3, BegunFacts
      <3> QED BY <1>7, <3>1 DEF FlushAttended
    <2> QED BY <2>2, <2>3
  <1>9. Attended'
    <2>1. FlushAttended(fl, ToSet(Queued), owed', ToSet(Queued'))
      BY <1>2, <1>6, <1>8
    <2> QED BY <1>1, <1>2, <1>3, <1>4, <1>6, <2>1, AttendedStep
  <1>10. TypeOK'
    <2>1. flush' \in [Flusher -> Flush] /\ asked' \in [Flusher -> SUBSET Entry]
      <3>1. ToSet(Queued) \subseteq Entry
        BY <1>7
      <3> QED BY <1>2, <1>3, <1>4, <1>5, <3>1
    <2> QED BY <1>1, <1>2, <2>1 DEF TypeOK, Flush
  <1>11. Numbered' /\ Arranged' /\ DurableUnlessRobbed' /\ FlushableUnlessDropped'
    BY <1>1, <1>2, <1>6 DEF Numbered, Arranged, DurableUnlessRobbed, FlushableUnlessDropped, Flushable
  <1> QED BY <1>9, <1>10, <1>11 DEF Inv

\* The head of what is left to try has been tried.
LEMMA TriedHead ==
    ASSUME TypeOK, Attended, NEW f \in Flusher, flush[f].todo # << >>,
           flush' = [flush EXCEPT ![f].todo = Tail(@)],
           asked' = [asked EXCEPT ![f] = @ \ {Head(flush[f].todo)}], UNCHANGED copies,
           \A e \in owed' : e \in ToSet(Queued') => e \in owed /\ e \in ToSet(Queued)
    PROVE  /\ Head(flush[f].todo) \in Entry /\ flush[f].arr \in Array
           /\ flush' \in [Flusher -> Flush] /\ asked' \in [Flusher -> SUBSET Entry]
           /\ Attended'
  <1> DEFINE fl  == [flush[f] EXCEPT !.todo = Tail(@)]
             ask == asked[f] \ {Head(flush[f].todo)}
  <1>1. flush \in [Flusher -> Flush] /\ asked \in [Flusher -> SUBSET Entry]
    BY FlushType DEF TypeOK
  <1>2. flush[f].todo \in Seq(Entry) /\ flush[f].arr \in Array \cup {0} /\ flush[f] \in Flush
    BY <1>1 DEF Flush
  <1>3. /\ Head(flush[f].todo) \in Entry /\ Tail(flush[f].todo) \in Seq(Entry)
        /\ ToSet(flush[f].todo) \subseteq {Head(flush[f].todo)} \cup ToSet(Tail(flush[f].todo))
    BY <1>2, ToSetTail
  <1>4. FlushAttended(flush[f], asked[f], owed, ToSet(Queued))
    BY AttendedEach
  <1>5. flush[f].arr \in Array /\ flush[f].on
    BY <1>2, <1>4 DEF FlushAttended
  <1>6. /\ fl \in Flush /\ fl.on = flush[f].on /\ fl.again = flush[f].again
        /\ fl.arr = flush[f].arr /\ fl.todo = Tail(flush[f].todo)
    BY <1>2, <1>3 DEF Flush
  <1>7. flush' = [flush EXCEPT ![f] = fl] /\ asked' = [asked EXCEPT ![f] = ask]
    BY <1>1
  <1>8. ask \in SUBSET Entry
    BY <1>1
  <1> HIDE DEF fl
  <1>9. FlushAttended(fl, ask, owed', ToSet(Queued'))
    <2>1. fl.on /\ fl.arr # 0
      BY <1>4, <1>5, <1>6 DEF FlushAttended
    <2>2. \A e \in ask : e.k <= Len(copies)
      BY <1>4 DEF FlushAttended
    <2>3. ~fl.again => ask \cap owed' \cap ToSet(Queued') \subseteq ToSet(fl.todo)
      BY <1>3, <1>4, <1>6 DEF FlushAttended
    <2> HIDE DEF ask
    <2> QED BY <2>1, <2>2, <2>3 DEF FlushAttended
  <1> HIDE DEF ask
  <1>10. Attended'
    BY <1>1, <1>7, <1>9, AttendedStep
  <1>11. flush' \in [Flusher -> Flush] /\ asked' \in [Flusher -> SUBSET Entry]
    BY <1>1, <1>6, <1>7, <1>8
  <1> QED BY <1>3, <1>5, <1>10, <1>11

LEMMA FlushRefusedKeeps == ASSUME Inv, NEW f \in Flusher, FlushRefused(f) PROVE Inv'
  <1>1. TypeOK /\ Numbered /\ Arranged /\ Attended /\ DurableUnlessRobbed /\ FlushableUnlessDropped
    BY DEF Inv
  <1>2. /\ UNCHANGED <<rows, array, cur, posA, direct, queue, posD, terminal, sent, copies, acked,
                       owed, robbed, dropped, faults, crashes>>
        /\ flush[f].todo # << >>
        /\ flush' = [flush EXCEPT ![f].todo = Tail(@)]
        /\ asked' = [asked EXCEPT ![f] = @ \ {Head(flush[f].todo)}]
    BY DEF FlushRefused, queueVars
  <1>3. Queued' = Queued
    BY <1>2 DEF Queued
  <1>4. flush' \in [Flusher -> Flush] /\ asked' \in [Flusher -> SUBSET Entry] /\ Attended'
    BY <1>1, <1>2, <1>3, TriedHead
  <1>5. TypeOK'
    BY <1>1, <1>2, <1>4 DEF TypeOK, Flush
  <1>6. Numbered' /\ Arranged' /\ DurableUnlessRobbed' /\ FlushableUnlessDropped'
    BY <1>1, <1>2, <1>3 DEF Numbered, Arranged, DurableUnlessRobbed, FlushableUnlessDropped, Flushable
  <1> QED BY <1>4, <1>5, <1>6 DEF Inv

LEMMA FlushParkedKeeps == ASSUME Inv, NEW f \in Flusher, FlushParked(f) PROVE Inv'
  <1> DEFINE e == Head(flush[f].todo)
             a == flush[f].arr
  <1>1. TypeOK /\ Numbered /\ Arranged /\ Attended /\ DurableUnlessRobbed /\ FlushableUnlessDropped
    BY DEF Inv
  <1>2. /\ UNCHANGED <<cur, posA, direct, queue, posD, terminal, sent, copies, acked, dropped, crashes>>
        /\ flush[f].todo # << >>
        /\ flush' = [flush EXCEPT ![f].todo = Tail(@)]
        /\ asked' = [asked EXCEPT ![f] = @ \ {e}]
        /\ array' = [array EXCEPT ![a] = RemoveFirst(@, e)]
        /\ DeleteRow(e.h, {e}) /\ owed' = owed \ {e}
    BY DEF FlushParked
  <1>3. e \in Entry /\ a \in Array
    <2>1. flush[f] \in Flush
      BY <1>1, FlushType
    <2>2. flush[f].todo \in Seq(Entry) /\ flush[f].arr \in Array \cup {0}
      BY <2>1 DEF Flush
    <2>3. flush[f].arr # 0
      BY <1>1, <1>2 DEF Attended
    <2> QED BY <1>2, <2>2, <2>3, ToSetTail
  <1> HIDE DEF e, a
  <1>4. /\ array \in [Array -> Seq(Entry)] /\ cur \in Array \cup {0}
        /\ posA \in Nat /\ Len(copies) \in Nat
    BY <1>1 DEF TypeOK
  <1>5. /\ RemoveFirst(array[a], e) \in Seq(Entry) /\ Spliced(array[a], RemoveFirst(array[a], e))
        /\ ToSet(RemoveFirst(array[a], e)) \subseteq ToSet(array[a])
        /\ \A x \in ToSet(array[a]) : x # e => x \in ToSet(RemoveFirst(array[a], e))
    <2>1. array[a] \in Seq(Entry) /\ \A i, j \in 1..Len(array[a]) : i # j => array[a][i].h # array[a][j].h
      BY <1>1, <1>3, <1>4 DEF Arranged, InOrder
    <2> QED BY <1>3, <2>1, RemoveFacts
  <1>6. /\ array' \in [Array -> Seq(Entry)] /\ array'[a] = RemoveFirst(array[a], e)
        /\ \A g \in Array : g # a => array'[g] = array[g]
    BY <1>2, <1>3, <1>4, <1>5
  <1>7. Arranged'
    <2>1. ASSUME NEW g \in Array PROVE InOrder(array'[g], posA, Len(copies))
      <3>1. array[g] \in Seq(Entry) /\ InOrder(array[g], posA, Len(copies))
        BY <1>1, <1>4 DEF Arranged
      <3>2. CASE g = a
        BY <1>4, <1>5, <1>6, <3>1, <3>2, SplicedInOrder
      <3>3. CASE g # a
        BY <1>6, <3>1, <3>3
      <3> QED BY <3>2, <3>3
    <2> QED BY <1>2, <2>1 DEF Arranged
  <1>8. ToSet(Queued') \subseteq ToSet(Queued)
        /\ \A x \in ToSet(Queued) : x # e => x \in ToSet(Queued')
    <2>1. CASE cur = 0
      <3>1. Queued = << >> /\ Queued' = << >>
        BY <1>2, <2>1 DEF Queued
      <3> QED BY <3>1
    <2>2. CASE cur # 0
      <3>1. Queued = array[cur] /\ Queued' = array'[cur] /\ cur \in Array
        BY <1>2, <1>4, <2>2 DEF Queued
      <3>2. CASE cur = a
        BY <1>5, <1>6, <3>1, <3>2
      <3>3. CASE cur # a
        BY <1>6, <3>1, <3>3
      <3> QED BY <3>2, <3>3
    <2> QED BY <2>1, <2>2
  <1>9. flush' \in [Flusher -> Flush] /\ asked' \in [Flusher -> SUBSET Entry] /\ Attended'
    <2>1. \A x \in owed' : x \in ToSet(Queued') => x \in owed /\ x \in ToSet(Queued)
      BY <1>2, <1>8
    <2>2. asked' = [asked EXCEPT ![f] = @ \ {Head(flush[f].todo)}]
      BY <1>2 DEF e
    <2> QED BY <1>1, <1>2, <2>1, <2>2, TriedHead
  <1>10. /\ rows' \subseteq rows /\ faults' \in 0..MaxFaults /\ robbed' \in BOOLEAN
         /\ ~robbed' => ~robbed /\ \A r \in rows \cap owed : r \notin {e} => r \in rows'
    BY <1>1, <1>2, DeleteFacts
  <1>11. TypeOK'
    <2>1. rows' \subseteq Entry /\ owed' \subseteq Entry
      BY <1>1, <1>2, <1>10 DEF TypeOK
    <2> QED BY <1>1, <1>2, <1>6, <1>9, <1>10, <2>1 DEF TypeOK, Flush
  <1>12. Numbered'
    BY <1>1, <1>2, <1>10, NumberedFewer
  <1>13. DurableUnlessRobbed'
    BY <1>1, <1>2, <1>10 DEF DurableUnlessRobbed
  <1>14. FlushableUnlessDropped'
    BY <1>1, <1>2, <1>8, <1>10 DEF FlushableUnlessDropped, Flushable
  <1> QED BY <1>7, <1>9, <1>11, <1>12, <1>13, <1>14 DEF Inv

LEMMA FlushEndKeeps == ASSUME Inv, NEW f \in Flusher, FlushEnd(f) PROVE Inv'
  <1> DEFINE mine  == flush[f].arr
             empty == mine # 0 /\ array[mine] = << >>
             fl    == IF ~flush[f].again THEN Idle
                      ELSE IF empty THEN [Idle EXCEPT !.on = TRUE] ELSE Begun
  <1>1. TypeOK /\ Numbered /\ Arranged /\ Attended /\ DurableUnlessRobbed /\ FlushableUnlessDropped
    BY DEF Inv
  <1>2. /\ UNCHANGED <<rows, array, posA, direct, queue, posD, terminal, sent, copies, acked, owed,
                       asked, robbed, faults, crashes>>
        /\ flush[f].on /\ flush[f].todo = << >>
        /\ cur' = IF empty THEN 0 ELSE cur
        /\ dropped' = (dropped \/ (empty /\ cur \notin {0, mine}))
    BY DEF FlushEnd
  <1>3. flush \in [Flusher -> Flush] /\ asked \in [Flusher -> SUBSET Entry]
    BY <1>1, FlushType DEF TypeOK
  <1>4. flush' = [flush EXCEPT ![f] = fl] /\ asked' = [asked EXCEPT ![f] = asked[f]]
    BY <1>2, <1>3 DEF FlushEnd
  <1>5. CASE empty
    <2>1. cur' = 0 /\ (cur # 0 /\ cur # mine => dropped')
      BY <1>2, <1>5
    <2>2. Queued' = << >> /\ ToSet(Queued') = {}
      BY <2>1, ToSetEmpty DEF Queued
    <2>3. cur = 0 \/ cur = mine => ToSet(Queued) = {}
      BY <1>5, ToSetEmpty DEF Queued
    <2>4. ~dropped' => ~dropped /\ (cur = 0 \/ cur = mine)
      BY <1>2, <2>1
    <2>5. cur' \in Array \cup {0} /\ dropped' \in BOOLEAN
      BY <1>2, <2>1
    <2>6. FlushableUnlessDropped'
      BY <1>1, <1>2, <2>2, <2>3, <2>4 DEF FlushableUnlessDropped, Flushable
    <2>7. fl \in Flush /\ fl.todo = << >> /\ ~fl.again
      <3>1. Idle \in Flush /\ Idle.todo = << >> /\ ~Idle.again
        BY DEF Idle, Flush
      <3>2. [Idle EXCEPT !.on = TRUE] \in Flush /\ [Idle EXCEPT !.on = TRUE].todo = << >>
            /\ ~[Idle EXCEPT !.on = TRUE].again
        BY <3>1 DEF Flush
      <3> QED BY <1>5, <3>1, <3>2
    <2> HIDE DEF fl
    <2>8. FlushAttended(fl, asked[f], owed', ToSet(Queued'))
      <3>1. FlushAttended(flush[f], asked[f], owed, ToSet(Queued))
        BY <1>1, AttendedEach
      <3> QED BY <2>2, <2>7, <3>1 DEF FlushAttended
    <2>9. Attended'
      BY <1>1, <1>2, <1>3, <1>4, <2>2, <2>8, AttendedStep
    <2>10. flush' \in [Flusher -> Flush]
      BY <1>3, <1>4, <2>7
    <2>11. TypeOK'
      BY <1>1, <1>2, <2>5, <2>10 DEF TypeOK, Flush
    <2>12. Numbered' /\ Arranged' /\ DurableUnlessRobbed'
      BY <1>1, <1>2 DEF Numbered, Arranged, DurableUnlessRobbed
    <2> QED BY <2>6, <2>9, <2>11, <2>12 DEF Inv
  <1>6. CASE ~empty
    <2>1. cur' = cur /\ (dropped' <=> dropped)
      BY <1>1, <1>2, <1>6 DEF TypeOK
    <2>2. Queued' = Queued
      BY <1>2, <2>1 DEF Queued
    <2>3. FlushAttended(flush[f], asked[f], owed, ToSet(Queued))
      BY <1>1, AttendedEach
    <2>4. fl \in Flush /\ FlushAttended(fl, asked[f], owed, ToSet(Queued))
      <3>1. CASE ~flush[f].again
        <4>1. fl = Idle
          BY <3>1
        <4>2. Idle \in Flush /\ Idle.todo = << >> /\ ~Idle.again
          BY DEF Idle, Flush
        <4> HIDE DEF fl
        <4> QED BY <1>2, <2>3, <3>1, <4>1, <4>2 DEF FlushAttended
      <3>2. CASE flush[f].again
        <4>1. fl = Begun
          BY <1>6, <3>2
        <4> HIDE DEF fl
        <4> QED BY <1>1, <2>3, <4>1, BegunFacts DEF FlushAttended
      <3> QED BY <3>1, <3>2
    <2> HIDE DEF fl
    <2>5. FlushAttended(fl, asked[f], owed', ToSet(Queued'))
      BY <1>2, <2>2, <2>4
    <2>6. Attended'
      BY <1>1, <1>2, <1>3, <1>4, <2>2, <2>5, AttendedStep
    <2>7. flush' \in [Flusher -> Flush] /\ dropped' \in BOOLEAN
      BY <1>2, <1>3, <1>4, <2>4
    <2>8. TypeOK'
      BY <1>1, <1>2, <2>1, <2>7 DEF TypeOK, Flush
    <2>9. Numbered' /\ Arranged' /\ DurableUnlessRobbed'
      BY <1>1, <1>2 DEF Numbered, Arranged, DurableUnlessRobbed
    <2>10. FlushableUnlessDropped'
      BY <1>1, <1>2, <2>1, <2>2 DEF FlushableUnlessDropped, Flushable
    <2> QED BY <2>6, <2>8, <2>9, <2>10 DEF Inv
  <1> QED BY <1>5, <1>6

LEMMA RestartKeeps == ASSUME Inv, Restart PROVE Inv'
  <1> DEFINE left == IF terminal THEN {} ELSE direct
  <1>1. TypeOK /\ Numbered /\ Arranged /\ Attended /\ DurableUnlessRobbed /\ FlushableUnlessDropped
    BY DEF Inv
  <1>2. /\ UNCHANGED <<rows, terminal, sent, copies, acked, owed, robbed, dropped, faults>>
        /\ crashes < MaxCrashes /\ crashes' = crashes + 1
        /\ array' = [g \in Array |-> IF g = 1 THEN ByPos(rows) ELSE << >>]
        /\ cur' = IF rows = {} THEN 0 ELSE 1
        /\ posA' = MaxPos(rows)
        /\ direct' = left /\ queue' = ByPos(left) /\ posD' = MaxPos(left)
        /\ flush' = [f \in Flusher |-> Idle] /\ asked' = [f \in Flusher |-> {}]
    BY DEF Restart, AwaitingMax
  <1>3. /\ IsFiniteSet(rows) /\ rows \in SUBSET Entry
        /\ \A r \in rows : r.pos \in Nat /\ r.k \in Nat /\ r.k <= Len(copies)
        /\ \A r, s \in rows : r # s => r.pos # s.pos
    <2>1. \A r \in Entry : r.pos \in Nat /\ r.k \in Nat
      BY DEF Entry
    <2> QED BY <1>1, <2>1 DEF TypeOK, Numbered
  <1>4. /\ IsFiniteSet(left) /\ left \in SUBSET Direct /\ left \subseteq direct
        /\ \A r \in left : r.pos \in Nat
        /\ \A r, s \in left : r # s => r.pos # s.pos
    <2>1. \A r \in Direct : r.pos \in Nat
      BY DEF Direct
    <2>2. IsFiniteSet(left)
      BY <1>1, FS_EmptySet DEF Numbered
    <2> QED BY <1>1, <2>1, <2>2 DEF TypeOK, Numbered
  <1> HIDE DEF left
  <1>5. /\ ByPos(rows) \in Seq(Entry) /\ ToSet(ByPos(rows)) = rows
        /\ \A i, j \in 1..Len(ByPos(rows)) : i < j => ByPos(rows)[i].pos < ByPos(rows)[j].pos
        /\ \A i, j \in 1..Len(ByPos(rows)) : i # j => ByPos(rows)[i] # ByPos(rows)[j]
        /\ \A i \in 1..Len(ByPos(rows)) : ByPos(rows)[i] \in rows
    BY <1>3, ByPosFacts
  <1>6. MaxPos(rows) \in Nat /\ \A r \in rows : r.pos <= MaxPos(rows)
    BY <1>3, MaxPosFacts
  <1>7. ByPos(left) \in Seq(Direct)
    BY <1>4, ByPosFacts
  <1>8. MaxPos(left) \in Nat /\ \A r \in left : r.pos <= MaxPos(left)
    BY <1>4, MaxPosFacts
  <1>9. 1 \in Array
    <2>1. Cardinality(Flusher) \in Nat
      BY SizesAssumption, FS_CardinalityType
    <2> QED BY <2>1 DEF Array
  <1>10. TypeOK'
    <2>1. array' \in [Array -> Seq(Entry)] /\ cur' \in Array \cup {0}
      BY <1>2, <1>5, <1>9
    <2>2. flush' \in [Flusher -> Flush]
      <3>1. Idle \in Flush
        BY DEF Idle, Flush
      <3> QED BY <1>2, <3>1
    <2>3. direct' \subseteq Direct /\ queue' \in Seq(Direct) /\ posA' \in Nat /\ posD' \in Nat
      BY <1>2, <1>4, <1>6, <1>7, <1>8
    <2>4. crashes' \in 0..MaxCrashes
      BY <1>1, <1>2, SizesAssumption DEF TypeOK
    <2>5. asked' \in [Flusher -> SUBSET Entry]
      BY <1>2
    <2> QED BY <1>1, <1>2, <2>1, <2>2, <2>3, <2>4, <2>5 DEF TypeOK, Flush
  <1>11. Numbered'
    BY <1>1, <1>2, <1>4, <1>6, <1>8 DEF Numbered
  <1>12. Arranged'
    <2>1. InOrder(ByPos(rows), MaxPos(rows), Len(copies))
      <3> DEFINE s == ByPos(rows)
      <3>1. /\ \A i \in 1..Len(s) : s[i] \in rows
            /\ \A i, j \in 1..Len(s) : i < j => s[i].pos < s[j].pos
            /\ \A i, j \in 1..Len(s) : i # j => s[i] # s[j]
        BY <1>5
      <3> HIDE DEF s
      <3>2. \A i \in 1..Len(s) : s[i].pos <= MaxPos(rows) /\ s[i].k <= Len(copies)
        BY <1>3, <1>6, <3>1
      <3>3. \A i, j \in 1..Len(s) : i # j => s[i].h # s[j].h
        BY <1>1, <3>1 DEF Numbered
      <3>4. ASSUME NEW i \in 1..Len(s), NEW j \in 1..Len(s), i < j
            PROVE  s[i].k < s[j].k /\ s[i].pos < s[j].pos
        <4>1. s[i] \in rows /\ s[j] \in rows /\ s[i].pos < s[j].pos /\ s[i] # s[j]
          <5>1. i # j
            BY <3>4
          <5> QED BY <3>1, <3>4, <5>1
        <4> QED BY <1>1, <4>1 DEF Numbered
      <3>5. InOrder(s, MaxPos(rows), Len(copies))
        BY <3>2, <3>3, <3>4 DEF InOrder
      <3> QED BY <3>5 DEF s
    <2>2. \A g \in Array : array'[g] = ByPos(rows) \/ array'[g] = << >>
      BY <1>2
    <2>3. Len(copies) \in Nat
      BY <1>1 DEF TypeOK
    <2> QED BY <1>2, <1>6, <2>1, <2>2, <2>3, EmptyInOrder DEF Arranged
  <1>13. Attended'
    BY <1>2, ToSetEmpty DEF Attended, Idle
  <1>14. ToSet(Queued') = rows
    <2>1. CASE rows = {}
      <3>1. cur' = 0
        BY <1>2, <2>1
      <3>2. Queued' = << >>
        BY <3>1 DEF Queued
      <3> QED BY <2>1, <3>2, ToSetEmpty
    <2>2. CASE rows # {}
      <3>1. cur' = 1 /\ array'[1] = ByPos(rows)
        BY <1>2, <1>9, <2>2
      <3>2. Queued' = ByPos(rows)
        BY <3>1 DEF Queued
      <3> QED BY <1>5, <3>2
    <2> QED BY <2>1, <2>2
  <1>15. DurableUnlessRobbed' /\ FlushableUnlessDropped'
    BY <1>1, <1>2, <1>14 DEF DurableUnlessRobbed, FlushableUnlessDropped, Flushable
  <1> QED BY <1>10, <1>11, <1>12, <1>13, <1>15 DEF Inv

LEMMA StutterKeeps == ASSUME Inv, UNCHANGED vars PROVE Inv'
  <1>1. Queued' = Queued
    BY DEF Queued, vars, queueVars
  <1> QED BY <1>1 DEF Inv, TypeOK, Numbered, Arranged, Attended, DurableUnlessRobbed,
                      FlushableUnlessDropped, Flushable, vars, queueVars

-----------------------------------------------------------------------------
(* Theorems.                                                               *)

LEMMA NextKeeps == Inv /\ [Next]_vars => Inv'
  <1> SUFFICES ASSUME Inv, [Next]_vars PROVE Inv'
    OBVIOUS
  <1>1. CASE \E n \in Nonce : Enqueue(n)
    BY <1>1, EnqueueKeeps
  <1>2. CASE \E h \in Hash : EnqueueAwaiting(h) \/ MarkContentAcked(h)
    BY <1>2, EnqueueAwaitingKeeps, MarkContentAckedKeeps
  <1>3. CASE \E f \in Flusher : Trigger(f) \/ FlushRefused(f) \/ FlushParked(f) \/ FlushEnd(f)
    BY <1>3, TriggerKeeps, FlushRefusedKeeps, FlushParkedKeeps, FlushEndKeeps
  <1>4. CASE ReapTerminal
    BY <1>4, ReapTerminalKeeps
  <1>5. CASE Restart
    BY <1>5, RestartKeeps
  <1>6. CASE UNCHANGED vars
    BY <1>6, StutterKeeps
  <1> QED BY <1>1, <1>2, <1>3, <1>4, <1>5, <1>6 DEF Next

\* Every state of the queue satisfies the invariant, whatever flushes, reaps, failed
\* statements and restarts there are.
THEOREM Invariance == Spec => []Inv
  BY InitKeeps, NextKeeps, PTL DEF Spec

\* Every variable keeps its type (the rows, arrays and flushes of DurableRetryQueue).
THEOREM TypeCorrect == Spec => []TypeOK
  <1>1. Inv => TypeOK
    BY DEF Inv
  <1> QED BY <1>1, Invariance, PTL

\* Content is parked in the order it was accepted, also after restarts (loadFromDb continues
\* the position counter of awaiting content).
THEOREM InOrderAlways == Spec => []ParkedInOrder
  <1>1. Inv => ParkedInOrder
    BY DEF Inv, Arranged, InOrder, ParkedInOrder
  <1> QED BY <1>1, Invariance, PTL

\* Accepted content keeps its row until it is parked, abandoned or acknowledged, unless a
\* DELETE meant for another takes it.
THEOREM Durable == Spec => []DurableUnlessRobbed
  <1>1. Inv => DurableUnlessRobbed
    BY DEF Inv
  <1> QED BY <1>1, Invariance, PTL

\* A flusher at rest has tried all that was queued when it was last asked: a coalesced
\* flushAwaitingContent is deferred, never dropped.
THEOREM Rerun == Spec => []RerunHonoured
  <1>1. Inv => RerunHonoured
    <2> SUFFICES ASSUME Inv, NEW f \in Flusher, ~flush[f].on
                 PROVE  asked[f] \cap owed \cap ToSet(Queued) = {}
      BY DEF RerunHonoured
    <2>1. Attended
      BY DEF Inv
    <2>2. ~flush[f].again /\ flush[f].todo = << >>
      BY <2>1 DEF Attended
    <2>3. asked[f] \cap owed \cap ToSet(Queued) \subseteq ToSet(<< >>)
      BY <2>1, <2>2 DEF Attended
    <2> QED BY <2>3, ToSetEmpty
  <1> QED BY <1>1, Invariance, PTL

\* Durable content that is owed is found by the next flush, unless a flush removed from
\* the map an array it had not drained (drainAwaitingToPark deletes by key).
THEOREM Found == Spec => []FlushableUnlessDropped
  <1>1. Inv => FlushableUnlessDropped
    BY DEF Inv
  <1> QED BY <1>1, Invariance, PTL

=============================================================================
