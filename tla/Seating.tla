------------------------------ MODULE Seating ------------------------------
(***************************************************************************)
(* The pure placement algorithm of the floor plan                          *)
(* (modules/floor-plan/unassigned-seating.ts and the table filters of      *)
(* table-allocation.service.ts).                                           *)
(*                                                                         *)
(* A table is a number, which stands for both its id and its name: the     *)
(* code breaks ties by either.  A claim that names no table has NoTable.   *)
(* The whole restaurant is one section and one active default floor plan.  *)
(***************************************************************************)
EXTENDS Naturals, Sequences

CONSTANTS
    Table,          \* the active tables of the floor plan; {} is "no floor plan"
    Capacity,       \* table -> largest party it seats
    MinCapacity     \* table -> smallest party it seats

NoTable == 0

ASSUME TableAssumption ==
    /\ Table \subseteq Nat \ {NoTable}
    /\ Capacity \in [Table -> Nat]
    /\ MinCapacity \in [Table -> Nat]

(***************************************************************************)
(* Slots are half-open intervals [start, end).                             *)
(***************************************************************************)
Overlap(a, b) == a.start < b.end /\ b.start < a.end

FitsParty(t, party) == Capacity[t] >= party /\ MinCapacity[t] <= party

\* The best-fit order: smallest capacity first, then minCapacity, then id.
TableBefore(t, u) ==
    \/ Capacity[t] < Capacity[u]
    \/ Capacity[t] = Capacity[u] /\ MinCapacity[t] < MinCapacity[u]
    \/ Capacity[t] = Capacity[u] /\ MinCapacity[t] = MinCapacity[u] /\ t < u

\* The first table of a set in that order, NoTable if there is none.
BestFit(tables) ==
    LET First(t) == \A u \in tables \ {t} : TableBefore(t, u)
    IN  IF \E t \in tables : First(t) THEN CHOOSE t \in tables : First(t) ELSE NoTable

(***************************************************************************)
(* planUnassignedSeating: items (in order of arrival) that name a table    *)
(* occupy it first; each other item then takes the smallest free table     *)
(* that fits it.  The plan maps the index of an item to its table, and to  *)
(* NoTable when no table absorbs it (the code's `blocked` list).           *)
(***************************************************************************)
IsFree(items, plan, t, slot) ==
    \A i \in DOMAIN plan : plan[i] = t => ~Overlap(items[i].slot, slot)

\* Mutant: a single pass, in which a late assigned item may land on a table
\* already lent to an unassigned one.
planInOnePass(items) ==
    LET plan[n \in 0..Len(items)] ==
            IF n = 0 THEN <<>>
            ELSE LET seat == IF items[n].table # NoTable THEN items[n].table
                             ELSE BestFit({t \in Table :
                                        /\ FitsParty(t, items[n].party)
                                        /\ IsFree(items, plan[n - 1], t, items[n].slot)})
                 IN Append(plan[n - 1], seat)
    IN  plan[Len(items)]

\* An item that names no table takes the smallest one left to it, or none.
SeatNext(items, plan, n) ==
    IF items[n].table # NoTable THEN plan
    ELSE LET seat == BestFit({t \in Table :
                                /\ FitsParty(t, items[n].party)
                                /\ IsFree(items, plan, t, items[n].slot)})
         IN  [i \in DOMAIN plan \cup {n} |-> IF i = n THEN seat ELSE plan[i]]

planUnassignedSeating(items) ==
    LET plan[n \in 0..Len(items)] ==
            IF n = 0
            THEN [i \in {k \in DOMAIN items : items[k].table # NoTable} |-> items[i].table]
            ELSE SeatNext(items, plan[n - 1], n)
    IN  plan[Len(items)]

\* Does the window touch an item that no table absorbs?
isWindowBlocked(items, plan, slot) ==
    \E i \in DOMAIN plan : plan[i] = NoTable /\ Overlap(items[i].slot, slot)

\* Mutant: looks at the tables named by items, not at the plan.
hasUnnamedSeatFor(items, plan, party, slot) ==
    \E t \in Table : /\ FitsParty(t, party)
                     /\ \A i \in DOMAIN items : items[i].table = t => ~Overlap(items[i].slot, slot)

hasSeatFor(items, plan, party, slot) ==
    \E t \in Table : FitsParty(t, party) /\ IsFree(items, plan, t, slot)

(***************************************************************************)
(* The verdict shared by creation, modification and allocation, for a      *)
(* party arriving now.  With a table the party is fixed there and only the *)
(* others can be blocked; without one it comes last and needs a seat,      *)
(* unless the restaurant has no floor plan.                                *)
(***************************************************************************)
findUnassignedSeatingConflict(items, party, slot, table) ==
    IF table # NoTable
    THEN LET all == Append(items, [party |-> party, slot |-> slot, table |-> table])
         IN  isWindowBlocked(all, planUnassignedSeating(all), slot)
    ELSE LET plan == planUnassignedSeating(items)
         IN  \/ isWindowBlocked(items, plan, slot)
             \/ Table # {} /\ ~hasSeatFor(items, plan, party, slot)

=============================================================================
