--------------------------- MODULE MCWaitingList ---------------------------
(* Small instances of WaitingList for TLC. *)
EXTENDS WaitingList

\* Table 1 seats 1 to 2 guests, table 2 seats 2 to 4.
MCTable == {1, 2}
MCCapacity == <<2, 4>>
MCMinCapacity == <<1, 2>>

MCSlot == {[start |-> 2, end |-> 4]}

=============================================================================
