--------------------------- MODULE OrderedRecord ---------------------------
(***************************************************************************)
(* What a session promises its two sides: the relay puts the leaves in one *)
(* order, and each side's record is a part of that order from its start,   *)
(* which is only ever extended.  Once a side has gone on without knowing   *)
(* the place of a leaf the order is promised no more; a record is still    *)
(* never rewritten.  SessionRecord implements this.                        *)
(***************************************************************************)
EXTENDS Naturals, Sequences

CONSTANTS Party, Leaf

VARIABLES
    order,      \* the leaves as the relay ordered them
    record,     \* the record of each side
    astray      \* a side has gone on without the place of a leaf

vars == <<order, record, astray>>

\* t starts with s.
StartsWith(t, s) == Len(s) <= Len(t) /\ \A i \in 1..Len(s) : t[i] = s[i]

Init ==
    /\ order = << >>
    /\ record = [p \in Party |-> << >>]
    /\ astray = FALSE

\* The relay orders one more leaf.
Order ==
    /\ \E x \in Leaf : order' = Append(order, x)
    /\ UNCHANGED <<record, astray>>

\* A side extends its record, with one leaf or with a run that was held.
Extend(p) ==
    /\ record' = [record EXCEPT ![p] = record'[p]]
    /\ StartsWith(record'[p], record[p])
    /\ ~astray => StartsWith(order, record'[p])
    /\ UNCHANGED <<order, astray>>

GoAstray ==
    /\ astray' = TRUE
    /\ UNCHANGED <<order, record>>

Next == Order \/ GoAstray \/ \E p \in Party : Extend(p)

Spec == Init /\ [][Next]_vars

=============================================================================
