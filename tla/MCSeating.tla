----------------------------- MODULE MCSeating -----------------------------
(***************************************************************************)
(* Arrivals over two tables and three slots, for every list of up to four  *)
(* claims.                                                                 *)
(***************************************************************************)
EXTENDS Arrivals

\* Table 1 seats 1 to 2 guests, table 2 seats 2 to 4.
MCTable == {1, 2}
MCCapacity == <<2, 4>>
MCMinCapacity == <<1, 2>>

\* A long slot, its first half and its second half.
MCSlot == {[start |-> 0, end |-> 2], [start |-> 0, end |-> 1], [start |-> 1, end |-> 2]}

MCArrival == [party : {1, 2, 4}, slot : MCSlot]

=============================================================================
