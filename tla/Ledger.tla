------------------------------- MODULE Ledger -------------------------------
(***************************************************************************)
(* What a restaurant promises of its tables: a ledger of claims, each of a *)
(* table for a time.  A claim is lent to a caller for a while, or booked.  *)
(* Nothing is lent or booked that meets another claim; a loan ends by      *)
(* itself or becomes a booking of the same table and time; and nobody's    *)
(* claim changes with what another does.                                   *)
(***************************************************************************)
EXTENDS Naturals

CONSTANT Row            \* the rows of the ledger

VARIABLES
    lent,       \* lent[h]: the claim lent to h, a set of at most one claim
    booked      \* booked[r]: the claim booked by r, a set of at most one claim

Clash(c, d) ==
    c.table = d.table /\ c.slot.start < d.slot.end /\ d.slot.start < c.slot.end

\* One claim at most, which meets none of those lent to L or booked by B.
Granted(claims, L, B) ==
    /\ \A c, d \in claims : c = d
    /\ \A c \in claims :
          /\ \A h \in L : \A d \in lent[h] : ~Clash(c, d)
          /\ \A r \in B : \A d \in booked[r] : ~Clash(c, d)

Init ==
    /\ lent = [h \in Row |-> {}]
    /\ booked = [r \in Row |-> {}]

Lend(h) ==
    /\ lent[h] = {}
    /\ Granted(lent'[h], Row, Row)
    /\ lent' = [lent EXCEPT ![h] = lent'[h]]
    /\ UNCHANGED booked

\* Time passes, or loans are not needed any more.
Lapse(S) ==
    /\ lent' = [h \in Row |-> IF h \in S THEN {} ELSE lent[h]]
    /\ UNCHANGED booked

\* Books, moves or gives up the claim of one reservation.
Book(r) ==
    /\ Granted(booked'[r], Row, Row \ {r})
    /\ booked' = [booked EXCEPT ![r] = booked'[r]]
    /\ UNCHANGED lent

\* A loan becomes a booking.
Pass(h, r) ==
    /\ lent[h] # {} /\ booked[r] = {}
    /\ booked' = [booked EXCEPT ![r] = lent[h]]
    /\ lent' = [lent EXCEPT ![h] = {}]

Next ==
    \/ \E h \in Row : Lend(h)
    \/ \E S \in SUBSET Row : Lapse(S)
    \/ \E r \in Row : Book(r)
    \/ \E h, r \in Row : Pass(h, r)

Spec == Init /\ [][Next]_<<lent, booked>>
=============================================================================
