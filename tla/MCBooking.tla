----------------------------- MODULE MCBooking -----------------------------
(* Small instances of Booking for TLC. *)
EXTENDS Booking, TLC

\* A restaurant with the small table only.
MCOneTable == {1}
MCCapacity1 == <<2>>
MCMinCapacity1 == <<1>>

\* A restaurant without a floor plan.
MCNoTable == {}
MCNoCapacity == <<>>

\* The callers are interchangeable.
ClientSymmetry == Permutations(Client)

\* Two slots that overlap.
MCSlot == {[start |-> 2, end |-> 4], [start |-> 3, end |-> 5]}

=============================================================================
