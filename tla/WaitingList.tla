---------------------------- MODULE WaitingList ----------------------------
(***************************************************************************)
(* The waiting list (waiting-list.service.ts) and the copilot's recovery   *)
(* of a delay (service-copilot-delay-recovery.service.ts) beside the       *)
(* booking core.  A recovery moves a late reservation to another table and *)
(* gives its table to a waiting party; it can be reverted.                 *)
(*                                                                         *)
(* A recovery takes row locks on the reservation, the entry and the two    *)
(* tables, not the restaurant's advisory lock.  Every other writer locks   *)
(* the row of the table it takes too, so its transaction is one step; what *)
(* it recalculates before that, the plan, is outdated by then.             *)
(***************************************************************************)
EXTENDS Booking, FiniteSets

CONSTANTS
    Customer,       \* people who wait, told apart by their phone number
    Manager,        \* dashboard users who recover delays
    Operation,      \* operation ids of recoveries
    Delay,          \* reported delays
    MaxPerSlot,     \* waitingListMaxEntriesPerSlot
    MaxEntries      \* bound on the entries ever created

ASSUME WaitingListAssumption ==
    /\ Customer # {} /\ Operation # {}
    /\ Delay \subseteq Nat \ {0}
    /\ MaxPerSlot \in Nat /\ MaxEntries \in Nat

VARIABLES
    entries,        \* waiting_list_entries
    lastEntry,      \* number of the last entry created
    plans,          \* per manager, the recovery being applied
    recoveries,     \* per operation, its audit record and that of its reversal
    given           \* history: the reservations made for each entry

listVars == <<entries, lastEntry, plans, recoveries, given>>
allVars == <<vars, listVars>>

Entry == 1..MaxEntries
NoEntry == 0
EntryStatus == {"NONE", "PENDING", "PROMOTED", "CANCELLED", "EXPIRED"}

EntryRow == [status : EntryStatus, customer : Customer, party : Nat, slot : Interval,
             position : Nat, resv : Id \cup {NoRow}]
PlanRow == [op : Operation, resv : Id \cup {NoRow}, delay : Nat,
            alternative : Table \cup {NoTable}, entry : Entry \cup {NoEntry}]
RecoveryRow == [status : {"none", "applied", "reverted"}, resv : Id \cup {NoRow},
                entry : Entry \cup {NoEntry}, promoted : Id \cup {NoRow},
                original : Table \cup {NoTable}, alternative : Table \cup {NoTable},
                originalSlot : Interval, appliedSlot : Interval]

NoEntryRow == [status |-> "NONE", customer |-> CHOOSE c \in Customer : TRUE, party |-> 0,
               slot |-> AnySlot, position |-> 0, resv |-> NoRow]
NoPlan == [op |-> CHOOSE o \in Operation : TRUE, resv |-> NoRow, delay |-> 0,
           alternative |-> NoTable, entry |-> NoEntry]
NoRecovery == [status |-> "none", resv |-> NoRow, entry |-> NoEntry, promoted |-> NoRow,
               original |-> NoTable, alternative |-> NoTable,
               originalSlot |-> AnySlot, appliedSlot |-> AnySlot]

ListInit ==
    /\ Init
    /\ entries = [e \in Entry |-> NoEntryRow]
    /\ lastEntry = NoEntry
    /\ plans = [u \in Manager |-> NoPlan]
    /\ recoveries = [o \in Operation |-> NoRecovery]
    /\ given = [e \in Entry |-> {}]

\* Waiting, and not past expiresAt, which is the start of the slot.
Waiting(e) == entries[e].status = "PENDING" /\ entries[e].slot.start > clock

\* The partial unique index on pending entries, expired or not.
PendingUnique(rows) ==
    \A d, e \in Entry :
        /\ d # e /\ rows[d].status = "PENDING" /\ rows[e].status = "PENDING"
        /\ rows[d].customer = rows[e].customer
        => rows[d].slot.start # rows[e].slot.start

SetEntry(e, status) == [entries EXCEPT ![e].status = status]

(***************************************************************************)
(* The waiting list                                                        *)
(***************************************************************************)
WaitingAt(start) == {e \in Entry : Waiting(e) /\ entries[e].slot.start = start}

RoomAt(start) == Cardinality(WaitingAt(start)) < MaxPerSlot

\* The route refuses a slot in the past or with a table left for the party;
\* join then counts under the slot's own advisory lock.
Join(c, party, slot) ==
    LET e == lastEntry + 1
        rows == [entries EXCEPT ![e] =
                    [status |-> "PENDING", customer |-> c, party |-> party, slot |-> slot,
                     position |-> Cardinality(WaitingAt(slot.start)) + 1, resv |-> NoRow]]
    IN  /\ lastEntry < MaxEntries
        /\ clock < slot.start
        /\ allocate(party, slot, clock, NoRow) = NoTable
        /\ RoomAt(slot.start)
        /\ PendingUnique(rows)
        /\ entries' = rows /\ lastEntry' = e
        /\ UNCHANGED <<vars, plans, recoveries, given>>

\* The customer's link: a promoted entry is refused.
CancelByToken(e) ==
    /\ entries[e].status = "PENDING"
    /\ entries' = SetEntry(e, "CANCELLED")
    /\ UNCHANGED <<vars, lastEntry, plans, recoveries, given>>

\* The staff may also cancel a promoted entry; its reservation stays.
CancelByStaff(e) ==
    /\ entries[e].status \in {"PENDING", "PROMOTED"}
    /\ entries' = SetEntry(e, "CANCELLED")
    /\ UNCHANGED <<vars, lastEntry, plans, recoveries, given>>

\* Both promotions: the reservation row, the entry and the history.
GivenTo(e, r) ==
    /\ entries' = [entries EXCEPT ![e].status = "PROMOTED", ![e].resv = r]
    /\ given' = [given EXCEPT ![e] = @ \cup {r}]

\* A replay on a promoted entry answers with its reservation and changes nothing.
PromoteEntry(e, at) ==
    LET t == allocate(entries[e].party, entries[e].slot, at, NoRow)
    IN  /\ Waiting(e)
        /\ t # NoTable
        /\ InsertReservation("CONFIRMED", t, entries[e].slot, entries[e].party)
        /\ GivenTo(e, NewId)
        /\ UNCHANGED <<lastEntry, plans, recoveries>>

Stale(e) == entries[e].status = "PENDING" /\ entries[e].slot.start <= clock

\* The delayed job of one entry.
ExpireEntry(e) ==
    /\ Stale(e)
    /\ entries' = SetEntry(e, "EXPIRED")
    /\ UNCHANGED <<vars, lastEntry, plans, recoveries, given>>

\* Mutant: waits for the end of the slot.
CleanupFinished ==
    LET Over(e) == entries[e].status = "PENDING" /\ entries[e].slot.end <= clock
    IN  /\ \E e \in Entry : Over(e)
        /\ entries' = [e \in Entry |-> IF Over(e) THEN [entries[e] EXCEPT !.status = "EXPIRED"]
                                       ELSE entries[e]]
        /\ UNCHANGED <<vars, lastEntry, plans, recoveries, given>>

\* The repeated job of the scheduler.
CleanupExpired ==
    /\ \E e \in Entry : Stale(e)
    /\ entries' = [e \in Entry |-> IF Stale(e) THEN [entries[e] EXCEPT !.status = "EXPIRED"]
                                   ELSE entries[e]]
    /\ UNCHANGED <<vars, lastEntry, plans, recoveries, given>>

(***************************************************************************)
(* The recovery of a delay                                                 *)
(***************************************************************************)
Delayed(slot, d) == [start |-> slot.start + d, end |-> slot.end + d]

Recoverable(r) == resvs[r].state = "CONFIRMED" /\ resvs[r].table # NoTable

\* simulate: the best other table at the delayed time, ...
Alternative(r, d) ==
    BestFit({t \in Table \ {resvs[r].table} :
                /\ FitsParty(t, resvs[r].party)
                /\ isTableAvailable(t, Delayed(resvs[r].slot, d), clock, NoRow, NoRow)})

\* ... and the first waiting party, by position and age, for the table it leaves.
\* An entry that has not expired starts in the future, so it is offered its own slot.
Offered(r) ==
    LET fits == {e \in Entry :
                    /\ Waiting(e) /\ entries[e].slot.start <= resvs[r].slot.start
                    /\ FitsParty(resvs[r].table, entries[e].party)
                    /\ isTableAvailable(resvs[r].table, entries[e].slot, clock, r, NoRow)}
        before(d, e) == \/ entries[d].position < entries[e].position
                        \/ entries[d].position = entries[e].position /\ d <= e
        first(e) == \A d \in fits : before(e, d)
    IN  IF \E e \in fits : first(e) THEN CHOOSE e \in fits : first(e) ELSE NoEntry

\* apply up to its transaction.
BeginApply(u, o, r, d) ==
    /\ plans[u] = NoPlan
    /\ recoveries[o].status = "none"
    /\ Recoverable(r)
    /\ Alternative(r, d) # NoTable /\ Offered(r) # NoEntry
    /\ plans' = [plans EXCEPT ![u] = [op |-> o, resv |-> r, delay |-> d,
                    alternative |-> Alternative(r, d), entry |-> Offered(r)]]
    /\ UNCHANGED <<vars, entries, lastEntry, recoveries, given>>

\* Mutant: trusts the alternative table of the plan.
OriginalStillFree(p, at) ==
    isTableAvailable(resvs[p.resv].table, entries[p.entry].slot, at, p.resv, NoRow)

\* Both tables are checked again under their locks, for the rows read then.
TablesStillFree(p, at) ==
    /\ isTableAvailable(p.alternative, Delayed(resvs[p.resv].slot, p.delay), at, p.resv, NoRow)
    /\ isTableAvailable(resvs[p.resv].table, entries[p.entry].slot, at, p.resv, NoRow)

TablesStillFit(p) ==
    /\ FitsParty(p.alternative, resvs[p.resv].party)
    /\ FitsParty(resvs[p.resv].table, entries[p.entry].party)

CommitApply(u, at) ==
    LET p == plans[u]
        cur == resvs[p.resv]
        e == entries[p.entry]
    IN  /\ p # NoPlan
        /\ lastId < MaxRows
        /\ recoveries[p.op].status = "none"
        /\ Recoverable(p.resv) /\ Waiting(p.entry)
        /\ p.alternative # cur.table
        /\ TablesStillFit(p) /\ TablesStillFree(p, at)
        /\ resvs' = [resvs EXCEPT
              ![p.resv] = [@ EXCEPT !.table = p.alternative, !.slot = Delayed(cur.slot, p.delay)],
              ![NewId] = [state |-> "CONFIRMED", status |-> "CONFIRMED", table |-> cur.table,
                          slot |-> e.slot, party |-> e.party, hold |-> NoRow, test |-> FALSE]]
        /\ lastId' = NewId
        /\ GivenTo(p.entry, NewId)
        /\ recoveries' = [recoveries EXCEPT ![p.op] =
              [status |-> "applied", resv |-> p.resv, entry |-> p.entry, promoted |-> NewId,
               original |-> cur.table, alternative |-> p.alternative,
               originalSlot |-> cur.slot, appliedSlot |-> Delayed(cur.slot, p.delay)]]
        /\ plans' = [plans EXCEPT ![u] = NoPlan]
        /\ UNCHANGED <<clock, holds, reqs, lastEntry>>

\* A conflict, a failed transaction, or the replay of an operation that another
\* request has applied.
EndApply(u) ==
    /\ plans[u] # NoPlan
    /\ plans' = [plans EXCEPT ![u] = NoPlan]
    /\ UNCHANGED <<vars, entries, lastEntry, recoveries, given>>

\* Mutant: looks at the reservations only.
ReservationsUnchanged(rec) ==
    /\ resvs[rec.resv].state = "CONFIRMED" /\ resvs[rec.resv].table = rec.alternative
    /\ resvs[rec.resv].slot = rec.appliedSlot
    /\ resvs[rec.promoted].state = "CONFIRMED"
    /\ resvs[rec.promoted].table = rec.original

\* revert's `unchanged`, which does not look at the size of the parties.
Unchanged(rec) ==
    /\ resvs[rec.resv].state = "CONFIRMED" /\ resvs[rec.resv].table = rec.alternative
    /\ resvs[rec.resv].slot = rec.appliedSlot
    /\ resvs[rec.promoted].state = "CONFIRMED" /\ resvs[rec.promoted].status = "CONFIRMED"
    /\ resvs[rec.promoted].table = rec.original
    /\ resvs[rec.promoted].slot = entries[rec.entry].slot
    /\ entries[rec.entry].status = "PROMOTED" /\ entries[rec.entry].resv = rec.promoted
    /\ entries[rec.entry].slot.start > clock

\* Mutant: forgets the waiting party's reservation.
KeepPromoted(r) == resvs[r]

\* The lifecycle's transition of the waiting party's reservation.
CancelPromoted(r) ==
    [resvs[r] EXCEPT !.state = "CANCELLED",
                     !.status = TransitionStatus("CANCELLED", resvs[r].status)]

Revert(o, at) ==
    LET rec == recoveries[o]
        rows == [entries EXCEPT ![rec.entry] = [@ EXCEPT !.status = "PENDING", !.resv = NoRow]]
    IN  /\ rec.status = "applied"
        /\ Unchanged(rec)
        /\ isTableAvailable(rec.original, rec.originalSlot, at, rec.promoted, NoRow)
        /\ "CANCELLED" \in ValidTransitions[resvs[rec.promoted].state]
        /\ PendingUnique(rows)
        /\ resvs' = [resvs EXCEPT
              ![rec.promoted] = CancelPromoted(rec.promoted),
              ![rec.resv] = [@ EXCEPT !.table = rec.original, !.slot = rec.originalSlot]]
        /\ entries' = rows
        /\ recoveries' = [recoveries EXCEPT ![o].status = "reverted"]
        /\ UNCHANGED <<clock, holds, lastId, reqs, lastEntry, plans, given>>

(***************************************************************************)
(* Specification                                                           *)
(***************************************************************************)
NextWaiting ==
    \/ \E c \in Customer, party \in Party, slot \in Slot : Join(c, party, slot)
    \/ \E e \in Entry :
          \/ CancelByToken(e)
          \/ CancelByStaff(e)
          \/ \E at \in TxStart : PromoteEntry(e, at)
          \/ ExpireEntry(e)
    \/ CleanupExpired

NextRecovery ==
    \/ \E u \in Manager :
          \/ \E o \in Operation, r \in Id, d \in Delay : BeginApply(u, o, r, d)
          \/ \E at \in TxStart : CommitApply(u, at)
          \/ EndApply(u)
    \/ \E o \in Operation, at \in TxStart : Revert(o, at)

ListNext == (Next /\ UNCHANGED listVars) \/ NextWaiting \/ NextRecovery

\* The cleanup is a repeated job and time passes; the delayed job of an entry
\* may be lost with the queue.
ListSpec ==
    ListInit /\ [][ListNext]_allVars
    /\ WF_allVars(CleanupExpired) /\ WF_allVars(Tick /\ UNCHANGED listVars)

(***************************************************************************)
(* Properties                                                              *)
(***************************************************************************)

ListTypeOK ==
    /\ TypeOK
    /\ entries \in [Entry -> EntryRow]
    /\ lastEntry \in 0..MaxEntries
    /\ plans \in [Manager -> PlanRow]
    /\ recoveries \in [Operation -> RecoveryRow]
    /\ given \in [Entry -> SUBSET Id]

\* A waiting party is given one table: whatever promotions, recoveries,
\* reversals and cancellations raced for its entry, the only reservation made
\* for it that is still active is the one its entry names.
OnePromotion ==
    \A e \in Entry : \A r \in given[e] :
        resvs[r].state \in ActiveStates => entries[e].resv = r

Reverted(r) == \E o \in Operation : recoveries[o].status = "reverted" /\ recoveries[o].resv = r

\* Recoveries and their reversals, outside the advisory lock and from a plan
\* that may be outdated, never promise a table twice; and a recovery puts no
\* party on a table that does not take it, also when a party changed size
\* meanwhile.  A reversal may: `unchanged` does not compare the size.
RecoverySafe ==
    /\ TableExclusive
    /\ \A r \in Id :
          resvs[r].state \in ActiveStates /\ resvs[r].table # NoTable /\ ~Reverted(r) =>
              FitsParty(resvs[r].table, resvs[r].party)

\* An entry the customer or the staff cancelled, or that expired, stays so: no
\* plan made before brings it back.
EntryFinal ==
    [][\A e \in Entry :
        entries[e].status \in {"CANCELLED", "EXPIRED"} => entries'[e] = entries[e]]_allVars

\* Nobody waits for a slot that has begun: the cleanup ends such an entry.
StaleEntriesEnd == \A e \in Entry : Stale(e) ~> entries[e].status # "PENDING"

=============================================================================
