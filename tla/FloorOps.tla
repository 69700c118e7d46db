------------------------------ MODULE FloorOps ------------------------------
(***************************************************************************)
(* The dashboard's moves between tables (table-allocation.service.ts)      *)
(* running beside the booking core.  reallocate reads the reservation and  *)
(* checks the table against it BEFORE its transaction and never reads it   *)
(* again: under the lock it still decides with that copy.                  *)
(***************************************************************************)
EXTENDS Booking

CONSTANT Staff      \* dashboard users who move reservations

VARIABLES
    moves,          \* per user, the reallocate call in flight
    staleMove       \* history: a move was written from an outdated copy

floorVars == <<vars, moves, staleMove>>

NoMove == [resv |-> NoRow, table |-> NoTable, slot |-> AnySlot, party |-> 0]

\* The exclusion constraint reservations_no_overlap_active of the database.
OverlapConstraint(rows) ==
    \A r, s \in Id :
        /\ r # s /\ Blocking(rows[r]) /\ Blocking(rows[s])
        /\ rows[r].table = rows[s].table /\ rows[r].table # NoTable
        => ~Overlap(rows[r].slot, rows[s].slot)

\* reallocate up to its transaction: the reservation, in any state, and a
\* table that takes its party.
BeginReallocate(u, r, t) ==
    /\ moves[u].resv = NoRow
    /\ resvs[r].state # "NONE"
    /\ FitsParty(t, resvs[r].party)
    /\ moves' = [moves EXCEPT ![u] = [resv |-> r, table |-> t, slot |-> resvs[r].slot,
                                      party |-> resvs[r].party]]
    /\ UNCHANGED <<vars, staleMove>>

CopyIsStale(m) == resvs[m.resv].slot # m.slot \/ resvs[m.resv].party # m.party

\* Mutant: the planner's verdict alone.
MovePlanned(m, at) ==
    ~findUnassignedSeatingConflict(SeatingItems(clock, m.resv, NoRow), m.party, m.slot, m.table)

\* The checks reallocate makes under the lock, all on its copy.
MoveAllowed(m, at) ==
    /\ ~findUnassignedSeatingConflict(SeatingItems(clock, m.resv, NoRow),
                                      m.party, m.slot, m.table)
    /\ isTableAvailable(m.table, m.slot, at, m.resv, NoRow)

CommitReallocate(u, at) ==
    LET m == moves[u]
        moved == [resvs EXCEPT ![m.resv].table = m.table]
    IN  /\ m.resv # NoRow
        /\ MoveAllowed(m, at)
        /\ OverlapConstraint(moved)
        /\ resvs' = moved
        /\ staleMove' = (staleMove \/ CopyIsStale(m))
        /\ moves' = [moves EXCEPT ![u] = NoMove]
        /\ UNCHANGED <<clock, holds, lastId, reqs>>

RefuseReallocate(u) ==
    /\ moves[u].resv # NoRow
    /\ moves' = [moves EXCEPT ![u] = NoMove]
    /\ UNCHANGED <<vars, staleMove>>

\* releaseTable takes no lock and looks at no state.
ReleaseTable(r) ==
    /\ resvs[r].state # "NONE" /\ resvs[r].table # NoTable
    /\ resvs' = [resvs EXCEPT ![r].table = NoTable]
    /\ UNCHANGED <<clock, holds, lastId, reqs, moves, staleMove>>

FloorInit == Init /\ moves = [u \in Staff |-> NoMove] /\ staleMove = FALSE

FloorNext ==
    \/ Next /\ UNCHANGED <<moves, staleMove>>
    \/ \E u \in Staff :
          \/ \E r \in Id, t \in Table : BeginReallocate(u, r, t)
          \/ \E at \in TxStart : CommitReallocate(u, at)
          \/ RefuseReallocate(u)
    \/ \E r \in Id : ReleaseTable(r)

FloorSpec == FloorInit /\ [][FloorNext]_floorVars

\* Moves keep the promises of the booking core as long as no move is written
\* from an outdated copy of its reservation: an outdated copy is the only way
\* a move can put two claims on one table or a party where it does not fit.
MovesSafeUnlessStale == staleMove \/ (TableExclusive /\ TableFits)

\* reallocate locks the new table and checks the intervals
\* (reservation-service-contract-matrix.md), so the table of a live hold is
\* not given away.
MoveRespectsHolds == HoldsRespected

=============================================================================
