------------------------------ MODULE Arrivals ------------------------------
(***************************************************************************)
(* What the placement algorithm of Seating promises, for every list of     *)
(* claims the database can hold: a state is such a list in its order of    *)
(* arrival, and a step lets one more claim arrive.  As in the database, a  *)
(* claim names a table only if it fits the party and no claim there        *)
(* overlaps it.                                                            *)
(***************************************************************************)
EXTENDS Seating

CONSTANTS
    Arrival,        \* the claims that may arrive: a party and its slot
    MaxItems        \* bound on the length of the list

ASSUME ArrivalAssumption ==
    /\ Arrival \subseteq [party : Nat, slot : [start : Nat, end : Nat]]
    /\ MaxItems \in Nat

VARIABLE items

\* Can this claim name this table besides the claims already there?
Placeable(t, slot) ==
    \A i \in DOMAIN items : items[i].table = t => ~Overlap(items[i].slot, slot)

Arrive(a, t) ==
    /\ Len(items) < MaxItems
    /\ t # NoTable => FitsParty(t, a.party) /\ Placeable(t, a.slot)
    /\ items' = Append(items, [party |-> a.party, slot |-> a.slot, table |-> t])

ArrivalInit == items = <<>>
ArrivalNext == \E a \in Arrival, t \in Table \cup {NoTable} : Arrive(a, t)
ArrivalSpec == ArrivalInit /\ [][ArrivalNext]_items

\* planUnassignedSeating makes a seating: no two parties share a table at one
\* time, every party it places fits its table, and every claim that names a
\* table keeps it.
PlanSound ==
    LET plan == planUnassignedSeating(items)
    IN  /\ DOMAIN plan = DOMAIN items
        /\ \A i \in DOMAIN items :
              /\ items[i].table # NoTable => plan[i] = items[i].table
              /\ plan[i] # NoTable => FitsParty(plan[i], items[i].party)
              /\ \A j \in DOMAIN items :
                    i # j /\ plan[i] = plan[j] /\ plan[i] # NoTable =>
                        ~Overlap(items[i].slot, items[j].slot)

\* The two forms of findUnassignedSeatingConflict agree: when an arriving
\* party is accepted without a table, some table can be fixed for it without
\* leaving any party of its window unseated (if there is a floor plan at all).
VerdictHasWitness ==
    \A a \in Arrival :
        Table # {} /\ ~findUnassignedSeatingConflict(items, a.party, a.slot, NoTable) =>
            \E t \in Table :
                /\ FitsParty(t, a.party) /\ Placeable(t, a.slot)
                /\ ~findUnassignedSeatingConflict(items, a.party, a.slot, t)

=============================================================================
