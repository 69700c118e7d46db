---------------------------- MODULE MCFloorOps ----------------------------
(* Small instances of FloorOps for TLC. *)
EXTENDS FloorOps

\* Table 1 seats 1 to 2 guests, table 2 seats 2 to 4.
MCTable == {1, 2}
MCCapacity == <<2, 4>>
MCMinCapacity == <<1, 2>>

\* Two slots that overlap, and with a later one.
MCEarlySlot == {[start |-> 1, end |-> 3], [start |-> 2, end |-> 4]}
MCSlot == {[start |-> 1, end |-> 3], [start |-> 2, end |-> 4], [start |-> 3, end |-> 5]}

=============================================================================
