------------------------------ MODULE Booking ------------------------------
(***************************************************************************)
(* The booking core of the API: temporary holds on tables and reservations *)
(* of one restaurant, written concurrently by the public pages, the voice  *)
(* agent, MCP clients, the staff dashboard and the expiry workers.         *)
(*                                                                         *)
(* Every transaction that takes capacity first takes the restaurant's      *)
(* advisory lock, so its body is one step.  What is not atomic is what the *)
(* code reads BEFORE that lock: the hold and the table a request was       *)
(* validated against, and the transaction's start time `at` (JavaScript's  *)
(* `now` captured on entry, and SQL's NOW()), which is stale by the time   *)
(* the lock is granted.                                                    *)
(*                                                                         *)
(* Rows are numbered in creation order.  A booking without a hold creates  *)
(* a synthetic hold in the same transaction: it gets the same number.      *)
(***************************************************************************)
EXTENDS Seating

CONSTANTS
    Client,             \* concurrent callers of createReservation
    Slot,               \* the slots that are offered
    Party,              \* party sizes
    Mode,               \* kinds of createReservation request explored
    Feature,            \* other operations explored
    Target,             \* lifecycle states that reservations are moved to
    ManualValidation,   \* policy.requireManualValidation
    HoldTtl,            \* policy.holdTtlSeconds
    MealTime,           \* resolved service duration, for walk-ins
    MaxWait,            \* longest a transaction may wait for its locks
    MaxRows,            \* bound on the rows ever created
    MaxTime             \* bound on the clock

NoRow == 0
Id == 1..MaxRows
Modes == {"hold", "test", "direct", "staff", "overbook"}
Features == {"holdOn", "allocated", "walkIn", "allocateTable", "modify", "partySize"}
Interval == {s \in [start : Nat, end : Nat] : s.start < s.end}

ActiveStates == {"PENDING", "CONFIRMED", "SEATED"}
ReservationStates ==
    ActiveStates \cup {"HONORED", "CANCELLED", "NO_SHOW", "FAILED", "EXPIRED"}

ASSUME BookingAssumption ==
    /\ Slot \subseteq Interval /\ Slot # {}
    /\ Party \subseteq Nat \ {0} /\ Party # {}
    /\ Mode \subseteq Modes /\ Feature \subseteq Features
    /\ Target \subseteq ReservationStates
    /\ ManualValidation \in BOOLEAN
    /\ HoldTtl \in Nat \ {0} /\ MealTime \in Nat \ {0}
    /\ MaxWait \in Nat /\ MaxRows \in Nat /\ MaxTime \in Nat

VARIABLES
    clock,      \* wall-clock time
    holds,      \* agentic_holds (type HOLD)
    resvs,      \* reservations
    lastId,     \* number of the last row created
    reqs        \* per client, the createReservation call in flight

vars == <<clock, holds, resvs, lastId, reqs>>

(***************************************************************************)
(* Rows                                                                    *)
(***************************************************************************)
HoldStatus == {"NONE", "ACTIVE", "CONSUMED", "EXPIRED"}
ReservationStatus == {"CONFIRMED", "SEATED", "CANCELLED", "NO_SHOW"}

Hold == [status : HoldStatus, table : Table \cup {NoTable}, slot : Interval,
         party : Nat, expiresAt : Nat, resv : Id \cup {NoRow}]

Reservation == [state : ReservationStates \cup {"NONE"}, status : ReservationStatus,
                table : Table \cup {NoTable}, slot : Interval, party : Nat,
                hold : Id \cup {NoRow}, test : BOOLEAN]

Request == [mode : Modes \cup {"idle"}, hold : Id \cup {NoRow},
            table : Table \cup {NoTable}, slot : Interval, party : Nat, at : Nat]

AnySlot == CHOOSE s \in Slot : TRUE
NoHold == [status |-> "NONE", table |-> NoTable, slot |-> AnySlot, party |-> 0,
           expiresAt |-> 0, resv |-> NoRow]
NoReservation == [state |-> "NONE", status |-> "CONFIRMED", table |-> NoTable,
                  slot |-> AnySlot, party |-> 0, hold |-> NoRow, test |-> FALSE]
Idle == [mode |-> "idle", hold |-> NoRow, table |-> NoTable, slot |-> AnySlot,
         party |-> 0, at |-> 0]

\* ACTIVE and not expired at `now`; an expired row the worker has not swept
\* keeps status ACTIVE.
Live(h, now) == h.status = "ACTIVE" /\ h.expiresAt > now

\* The reservations that occupy capacity.
Blocking(r) == r.state \in ActiveStates /\ ~r.test

\* The possible start times of a transaction that runs now.
TxStart == {t \in 0..MaxTime : t <= clock /\ clock <= t + MaxWait}

NewId == lastId + 1

(***************************************************************************)
(* Capacity queries                                                        *)
(***************************************************************************)

\* loadSeatingItems: what the planner sees at `now`, in order of arrival.
SeatingItems(now, exResv, exHold) ==
    LET IsResv(i) == i # exResv /\ Blocking(resvs[i])
        IsHold(i) == i # exHold /\ Live(holds[i], now)
        Seen(i) == IsResv(i) \/ IsHold(i)
        ids == SelectSeq([i \in 1..lastId |-> i], Seen)
        Item(i) == IF IsResv(i)
                   THEN [party |-> resvs[i].party, slot |-> resvs[i].slot, table |-> resvs[i].table]
                   ELSE [party |-> holds[i].party, slot |-> holds[i].slot, table |-> holds[i].table]
    IN  [k \in DOMAIN ids |-> Item(ids[k])]

hasConflictingReservation(t, slot, exResv) ==
    \E r \in Id \ {exResv} :
        Blocking(resvs[r]) /\ resvs[r].table = t /\ Overlap(resvs[r].slot, slot)

hasConflictingHold(t, slot, at, exHold) ==
    \E h \in Id \ {exHold} :
        Live(holds[h], at) /\ holds[h].table = t /\ Overlap(holds[h].slot, slot)

isTableAvailable(t, slot, at, exResv, exHold) ==
    /\ ~hasConflictingReservation(t, slot, exResv)
    /\ ~hasConflictingHold(t, slot, at, exHold)

\* The best-fit table for a party, or NoTable.
allocate(party, slot, at, exResv) ==
    IF findUnassignedSeatingConflict(SeatingItems(clock, exResv, NoRow), party, slot, NoTable)
    THEN NoTable
    ELSE BestFit({t \in Table : /\ FitsParty(t, party)
                                /\ isTableAvailable(t, slot, at, exResv, NoRow)})

assertTableAvailableForSeating(t, party, slot, at, exResv) ==
    /\ ~findUnassignedSeatingConflict(SeatingItems(clock, exResv, NoRow), party, slot, t)
    /\ FitsParty(t, party)
    /\ isTableAvailable(t, slot, at, exResv, NoRow)

\* Without a floor plan, any claim at all on an overlapping window blocks.
SlotFreeOfClaims(slot, now, exResv, exHold) ==
    /\ ~\E r \in Id \ {exResv} : Blocking(resvs[r]) /\ Overlap(resvs[r].slot, slot)
    /\ ~\E h \in Id \ {exHold} : Live(holds[h], now) /\ Overlap(holds[h].slot, slot)

(***************************************************************************)
(* Holds                                                                   *)
(***************************************************************************)

\* createHold refuses while a hold row of that table and start is ACTIVE,
\* expired or not.
NoActiveHoldAt(t, start) ==
    ~\E h \in Id : /\ holds[h].status = "ACTIVE"
                   /\ holds[h].table = t /\ holds[h].slot.start = start

InsertHold(t, slot, party, at) ==
    /\ lastId < MaxRows
    /\ lastId' = NewId
    /\ holds' = [holds EXCEPT ![NewId] =
                    [status |-> "ACTIVE", table |-> t, slot |-> slot, party |-> party,
                     expiresAt |-> at + HoldTtl, resv |-> NoRow]]
    /\ UNCHANGED <<clock, resvs, reqs>>

\* createHold with the table chosen by allocate.
CreateHold(slot, party, at) ==
    LET t == allocate(party, slot, at, NoRow)
    IN  /\ at < slot.start
        /\ t # NoTable
        /\ NoActiveHoldAt(t, slot.start)
        /\ InsertHold(t, slot, party, at)

\* createHold with a table preferred by the caller.
CreateHoldOn(t, slot, party, at) ==
    /\ at < slot.start
    /\ assertTableAvailableForSeating(t, party, slot, at, NoRow)
    /\ NoActiveHoldAt(t, slot.start)
    /\ InsertHold(t, slot, party, at)

Overdue(h) == holds[h].status = "ACTIVE" /\ holds[h].expiresAt < clock

\* The delayed job of one hold.
ExpireOne(h) ==
    /\ Overdue(h)
    /\ holds' = [holds EXCEPT ![h].status = "EXPIRED"]
    /\ UNCHANGED <<clock, resvs, lastId, reqs>>

\* Mutant: the sweep only selects holds without a table.
ExpireOverdueUnassigned ==
    /\ \E h \in Id : Overdue(h) /\ holds[h].table = NoTable
    /\ holds' = [h \in Id |-> IF Overdue(h) /\ holds[h].table = NoTable
                              THEN [holds[h] EXCEPT !.status = "EXPIRED"] ELSE holds[h]]
    /\ UNCHANGED <<clock, resvs, lastId, reqs>>

\* The periodic sweep.
ExpireOverdue ==
    /\ \E h \in Id : Overdue(h)
    /\ holds' = [h \in Id |-> IF Overdue(h) THEN [holds[h] EXCEPT !.status = "EXPIRED"]
                              ELSE holds[h]]
    /\ UNCHANGED <<clock, resvs, lastId, reqs>>

(***************************************************************************)
(* createReservation: the call reads its hold and its table, opens the     *)
(* transaction at time `at` and waits for the advisory lock                *)
(* (BeginReservation); granted, it re-validates and writes                 *)
(* (CommitReservation) or throws (RefuseReservation).                      *)
(***************************************************************************)

\* The public confirmation keeps the hold's table if it is still free and
\* otherwise looks for another one.
TableForHold(h) ==
    IF isTableAvailable(holds[h].table, holds[h].slot, clock, NoRow, h)
    THEN holds[h].table
    ELSE allocate(holds[h].party, holds[h].slot, clock, NoRow)

\* Mutant: books the slot the caller asks for, whatever the slot of its hold.
BeginWithAskedSlot(c, mode) ==
    /\ reqs[c].mode = "idle" /\ mode \in {"hold", "test"}
    /\ \E h \in Id, slot \in Slot :
          /\ Live(holds[h], clock) /\ clock < slot.start /\ TableForHold(h) # NoTable
          /\ reqs' = [reqs EXCEPT ![c] =
               [mode |-> mode, hold |-> h, table |-> TableForHold(h), slot |-> slot,
                party |-> holds[h].party, at |-> clock]]
    /\ UNCHANGED <<clock, holds, resvs, lastId>>

BeginReservation(c, mode) ==
    /\ reqs[c].mode = "idle"
    /\ \/ /\ mode \in {"hold", "test"}
          /\ \E h \in Id :
                /\ Live(holds[h], clock)
                /\ clock < holds[h].slot.start
                /\ TableForHold(h) # NoTable
                /\ reqs' = [reqs EXCEPT ![c] =
                     [mode |-> mode, hold |-> h, table |-> TableForHold(h),
                      slot |-> holds[h].slot, party |-> holds[h].party, at |-> clock]]
       \/ /\ mode \in {"direct", "staff", "overbook"}
          /\ \E slot \in Slot, party \in Party :
                /\ clock < slot.start
                /\ reqs' = [reqs EXCEPT ![c] =
                     [mode |-> mode, hold |-> NoRow, table |-> NoTable,
                      slot |-> slot, party |-> party, at |-> clock]]
    /\ UNCHANGED <<clock, holds, resvs, lastId>>

\* Mutant: trusts the lookup made before the lock for the status.
HoldUnexpired(q) == holds[q.hold].expiresAt > q.at

\* The hold must still be ACTIVE, and not expired at the transaction's start.
HoldStillConsumable(q) == Live(holds[q.hold], q.at)

\* Mutant: trusts the table found before the lock.
TableTrusted(q, t) == t # NoTable => FitsParty(t, q.party)

\* The table found before the lock must still be free under it.
TableStillFree(q, t) ==
    t # NoTable => FitsParty(t, q.party) /\ isTableAvailable(t, q.slot, q.at, NoRow, q.hold)

\* Staff bookings are given a table under the lock.
TableOf(q) ==
    IF q.mode = "staff" /\ Table # {} THEN allocate(q.party, q.slot, q.at, NoRow) ELSE q.table

Overbooked(q) == q.mode = "overbook"

\* Mutant: only looks at tables, as if every restaurant had a floor plan.
TablesGranted(q) ==
    \/ Overbooked(q)
    \/ /\ q.mode = "staff" /\ Table # {} => TableOf(q) # NoTable
       /\ TableStillFree(q, TableOf(q))

CapacityGranted(q) ==
    \/ Overbooked(q)
    \/ /\ ~findUnassignedSeatingConflict(SeatingItems(q.at, NoRow, q.hold),
                                         q.party, q.slot, q.table)
       /\ q.mode = "staff" /\ Table # {} => TableOf(q) # NoTable
       /\ TableStillFree(q, TableOf(q))
       /\ Table = {} => SlotFreeOfClaims(q.slot, q.at, NoRow, q.hold)

InitialState(q) == IF ManualValidation /\ q.mode # "test" THEN "PENDING" ELSE "CONFIRMED"

\* The hold rows after the transaction: the caller's hold is consumed, or
\* overdue holds of the slot and party are expired and the synthetic hold of
\* the booking is created and consumed, or (overbooking) nothing.
HoldsAfter(q) ==
    IF q.hold # NoRow
    THEN [holds EXCEPT ![q.hold] = [@ EXCEPT !.status = "CONSUMED", !.resv = NewId]]
    ELSE IF Overbooked(q) THEN holds
    ELSE [h \in Id |->
            IF h = NewId
            THEN [status |-> "CONSUMED", table |-> NoTable, slot |-> q.slot, party |-> q.party,
                  expiresAt |-> q.at + HoldTtl, resv |-> NewId]
            ELSE IF /\ holds[h].status = "ACTIVE" /\ holds[h].expiresAt < q.at
                    /\ holds[h].party = q.party /\ holds[h].slot.start = q.slot.start
            THEN [holds[h] EXCEPT !.status = "EXPIRED"]
            ELSE holds[h]]

ConsumedHold(q) ==
    IF q.hold # NoRow THEN q.hold ELSE IF Overbooked(q) THEN NoRow ELSE NewId

CommitReservation(c) ==
    LET q == reqs[c]
    IN  /\ q.mode # "idle"
        /\ lastId < MaxRows
        /\ clock <= q.at + MaxWait
        /\ CapacityGranted(q)
        /\ q.hold # NoRow => HoldStillConsumable(q)
        /\ lastId' = NewId
        /\ holds' = HoldsAfter(q)
        /\ resvs' = [resvs EXCEPT ![NewId] =
                        [state |-> InitialState(q), status |-> "CONFIRMED", table |-> TableOf(q),
                         slot |-> q.slot, party |-> q.party, hold |-> ConsumedHold(q),
                         test |-> q.mode = "test"]]
        /\ reqs' = [reqs EXCEPT ![c] = Idle]
        /\ UNCHANGED clock

\* The transaction throws: a refusal, a timeout or a lost connection.
RefuseReservation(c) ==
    /\ reqs[c].mode # "idle"
    /\ reqs' = [reqs EXCEPT ![c] = Idle]
    /\ UNCHANGED <<clock, holds, resvs, lastId>>

(***************************************************************************)
(* The other writers of reservations                                       *)
(***************************************************************************)
InsertReservation(state, t, slot, party) ==
    /\ lastId < MaxRows
    /\ lastId' = NewId
    /\ resvs' = [resvs EXCEPT ![NewId] =
                    [state |-> state, status |-> state, table |-> t, slot |-> slot,
                     party |-> party, hold |-> NoRow, test |-> FALSE]]
    /\ UNCHANGED <<clock, holds, reqs>>

\* The voice agent's create, and the promotion of a waiting-list entry.
CreateAllocated(slot, party, at) ==
    LET t == allocate(party, slot, at, NoRow)
    IN  /\ at < slot.start
        /\ t # NoTable
        /\ InsertReservation("CONFIRMED", t, slot, party)

\* A walk-in is seated at once, from the time its request arrived.
CreateWalkIn(t, party, at) ==
    LET slot == [start |-> at, end |-> at + MealTime]
    IN  /\ assertTableAvailableForSeating(t, party, slot, at, NoRow)
        /\ InsertReservation("SEATED", t, slot, party)

\* The staff gives a table to a reservation that has none.
AllocateTable(r, at) ==
    LET t == allocate(resvs[r].party, resvs[r].slot, at, r)
    IN  /\ resvs[r].state # "NONE" /\ resvs[r].table = NoTable
        /\ t # NoTable
        /\ resvs' = [resvs EXCEPT ![r].table = t]
        /\ UNCHANGED <<clock, holds, lastId, reqs>>

\* Moving a reservation in time or size: the planner's verdict with its
\* present table, then a fresh best-fit table if it had one.
ModifyReservation(r, slot, party, at) ==
    LET cur == resvs[r]
        t == IF cur.table = NoTable THEN NoTable ELSE allocate(party, slot, at, r)
    IN  /\ cur.state \in {"PENDING", "CONFIRMED"}
        /\ clock < slot.start
        /\ cur.slot # slot \/ cur.party # party
        /\ ~findUnassignedSeatingConflict(SeatingItems(clock, r, NoRow), party, slot, cur.table)
        /\ cur.table # NoTable => t # NoTable
        /\ cur.table = NoTable /\ Table = {} => SlotFreeOfClaims(slot, clock, r, NoRow)
        /\ resvs' = [resvs EXCEPT ![r] = [@ EXCEPT !.slot = slot, !.party = party, !.table = t]]
        /\ UNCHANGED <<clock, holds, lastId, reqs>>

\* Mutant: changes the size without looking for a table again.
UpdatePartySizeInPlace(r, party, at) ==
    /\ resvs[r].state \in ActiveStates /\ resvs[r].party # party
    /\ resvs' = [resvs EXCEPT ![r].party = party]
    /\ UNCHANGED <<clock, holds, lastId, reqs>>

\* The dashboard's change of party size: a seated party keeps its table, any
\* other one is given a best-fit table.
UpdatePartySize(r, party, at) ==
    LET cur == resvs[r]
        t == IF cur.state = "SEATED" \/ Table = {} THEN cur.table
             ELSE allocate(party, cur.slot, at, r)
    IN  /\ cur.state \in ActiveStates /\ cur.party # party
        /\ cur.state = "SEATED" =>
              /\ cur.table # NoTable /\ clock < cur.slot.end
              /\ assertTableAvailableForSeating(
                    cur.table, party, [start |-> clock, end |-> cur.slot.end], at, r)
        /\ cur.state # "SEATED" /\ Table # {} => t # NoTable
        /\ cur.state # "SEATED" /\ Table = {} => SlotFreeOfClaims(cur.slot, clock, r, NoRow)
        /\ resvs' = [resvs EXCEPT ![r] = [@ EXCEPT !.party = party, !.table = t]]
        /\ UNCHANGED <<clock, holds, lastId, reqs>>

(***************************************************************************)
(* Lifecycle                                                               *)
(***************************************************************************)
\* Mutant: a cancelled reservation may be confirmed again.
RevivingTransitions ==
    [s \in ReservationStates |->
        CASE s = "PENDING"   -> {"CONFIRMED", "CANCELLED", "EXPIRED", "FAILED"}
          [] s = "CONFIRMED" -> {"SEATED", "CANCELLED", "NO_SHOW", "EXPIRED", "FAILED"}
          [] s = "SEATED"    -> {"HONORED", "NO_SHOW"}
          [] s = "CANCELLED" -> {"CONFIRMED"}
          [] OTHER           -> {}]

ValidTransitions ==
    [s \in ReservationStates |->
        CASE s = "PENDING"   -> {"CONFIRMED", "CANCELLED", "EXPIRED", "FAILED"}
          [] s = "CONFIRMED" -> {"SEATED", "CANCELLED", "NO_SHOW", "EXPIRED", "FAILED"}
          [] s = "SEATED"    -> {"HONORED", "NO_SHOW"}
          [] OTHER           -> {}]

\* Mutant: the status column falls back to CONFIRMED.
StatusFallsBack(to, previous) == IF to \in ReservationStatus THEN to ELSE "CONFIRMED"

\* The historical status column: states it cannot express keep the old value.
TransitionStatus(to, previous) == IF to \in ReservationStatus THEN to ELSE previous

Transition(r, to, at) ==
    LET cur == resvs[r]
    IN  /\ cur.state # "NONE" /\ to \in ValidTransitions[cur.state]
        /\ to = "SEATED" =>
              /\ cur.table # NoTable /\ at < cur.slot.end
              /\ assertTableAvailableForSeating(
                    cur.table, cur.party, [start |-> at, end |-> cur.slot.end], at, r)
        /\ to \in {"HONORED", "NO_SHOW"} => cur.slot.start <= at
        /\ resvs' = [resvs EXCEPT ![r] = [@ EXCEPT !.state = to, !.status = TransitionStatus(to, cur.status)]]
        /\ UNCHANGED <<clock, holds, lastId, reqs>>

(***************************************************************************)
(* Specification                                                           *)
(***************************************************************************)
Tick ==
    /\ clock < MaxTime
    /\ clock' = clock + 1
    /\ UNCHANGED <<holds, resvs, lastId, reqs>>

Init ==
    /\ clock = 0
    /\ holds = [h \in Id |-> NoHold]
    /\ resvs = [r \in Id |-> NoReservation]
    /\ lastId = 0
    /\ reqs = [c \in Client |-> Idle]

NextHold ==
    \/ \E slot \in Slot, party \in Party, at \in TxStart :
          \/ CreateHold(slot, party, at)
          \/ /\ "holdOn" \in Feature
             /\ \E t \in Table : CreateHoldOn(t, slot, party, at)
    \/ \E h \in Id : ExpireOne(h)
    \/ ExpireOverdue

NextCreate ==
    \E c \in Client :
        \/ \E mode \in Mode : BeginReservation(c, mode)
        \/ CommitReservation(c)
        \/ RefuseReservation(c)

NextReservation ==
    \E at \in TxStart :
        \/ /\ "allocated" \in Feature
           /\ \E slot \in Slot, party \in Party : CreateAllocated(slot, party, at)
        \/ /\ "walkIn" \in Feature
           /\ \E t \in Table, party \in Party : CreateWalkIn(t, party, at)
        \/ /\ "allocateTable" \in Feature
           /\ \E r \in Id : AllocateTable(r, at)
        \/ /\ "modify" \in Feature
           /\ \E r \in Id, slot \in Slot, party \in Party : ModifyReservation(r, slot, party, at)
        \/ /\ "partySize" \in Feature
           /\ \E r \in Id, party \in Party : UpdatePartySize(r, party, at)
        \/ \E r \in Id, to \in Target : Transition(r, to, at)

Next == Tick \/ NextHold \/ NextCreate \/ NextReservation

\* The sweep is a repeated job of the scheduler and time passes; nobody owes
\* the system a booking, a confirmation or a transition.
Spec == Init /\ [][Next]_vars /\ WF_vars(ExpireOverdue) /\ WF_vars(Tick)

(***************************************************************************)
(* Properties                                                              *)
(***************************************************************************)

TypeOK ==
    /\ clock \in 0..MaxTime
    /\ holds \in [Id -> Hold]
    /\ resvs \in [Id -> Reservation]
    /\ lastId \in 0..MaxRows
    /\ reqs \in [Client -> Request]

\* No table is ever promised twice: two claims on one table (reservations
\* that occupy capacity, holds that have not expired) never overlap in time,
\* although a request decides with a clock and a table read before its lock.
ReservationsDisjoint ==
    \A r, s \in Id :
        /\ r # s /\ Blocking(resvs[r]) /\ Blocking(resvs[s])
        /\ resvs[r].table = resvs[s].table /\ resvs[r].table # NoTable
        => ~Overlap(resvs[r].slot, resvs[s].slot)

HoldsDisjoint ==
    \A g, h \in Id :
        /\ g # h /\ Live(holds[g], clock) /\ Live(holds[h], clock)
        /\ holds[g].table = holds[h].table /\ holds[g].table # NoTable
        => ~Overlap(holds[g].slot, holds[h].slot)

HoldsRespected ==
    \A r, h \in Id :
        /\ Blocking(resvs[r]) /\ Live(holds[h], clock)
        /\ resvs[r].table = holds[h].table /\ resvs[r].table # NoTable
        => ~Overlap(resvs[r].slot, holds[h].slot)

TableExclusive == ReservationsDisjoint /\ HoldsDisjoint /\ HoldsRespected

\* A hold is spent at most once: the hold a reservation names is CONSUMED
\* and points back to that reservation, whatever requests, sweeps and
\* expiry jobs raced for it.
HoldConsumedOnce ==
    \A r \in Id :
        resvs[r].hold # NoRow =>
            /\ holds[resvs[r].hold].status = "CONSUMED"
            /\ holds[resvs[r].hold].resv = r

\* A party is never put on a table that does not take it, through creation,
\* allocation, moves and changes of size.
TableFits ==
    \A r \in Id :
        resvs[r].state \in ActiveStates /\ resvs[r].table # NoTable =>
            FitsParty(resvs[r].table, resvs[r].party)

\* Without a floor plan the restaurant takes one party at a time: bookings that
\* went through the capacity checks (all but overbookings, which have no hold)
\* never overlap.
NoPlanExclusive ==
    Table = {} =>
        \A r, s \in Id :
            /\ r # s /\ Blocking(resvs[r]) /\ Blocking(resvs[s])
            /\ resvs[r].hold # NoRow /\ resvs[s].hold # NoRow
            => ~Overlap(resvs[r].slot, resvs[s].slot)

\* The two lifecycle columns agree: a reservation the reminders and the SMS
\* replies treat as firm (both columns CONFIRMED) is in state CONFIRMED, and
\* no cancelled, missed or seated one keeps an older status.
StatusAgrees ==
    \A r \in Id :
        /\ resvs[r].state \in ReservationStatus => resvs[r].status = resvs[r].state
        /\ resvs[r].state = "HONORED" => resvs[r].status = "SEATED"
        /\ resvs[r].state \in {"PENDING", "FAILED", "EXPIRED"} => resvs[r].status = "CONFIRMED"

\* Capacity once given up is never taken back by the same row: a hold that is
\* no longer ACTIVE and a reservation in a terminal state stay that way.
NeverRevived ==
    [][\A i \in Id :
        /\ holds[i].status \notin {"NONE", "ACTIVE"} => holds'[i] = holds[i]
        /\ resvs[i].state \notin ActiveStates \cup {"NONE"} =>
               resvs'[i].state = resvs[i].state]_vars

\* The refinement mapping: a hold lends its table as long as it is live, and a
\* reservation books its table as long as it occupies capacity.
ClaimOf(row) == IF row.table = NoTable THEN {} ELSE {[table |-> row.table, slot |-> row.slot]}
lent == [h \in Id |-> IF Live(holds[h], clock) THEN ClaimOf(holds[h]) ELSE {}]
booked == [r \in Id |-> IF Blocking(resvs[r]) THEN ClaimOf(resvs[r]) ELSE {}]

Ledger == INSTANCE Ledger WITH Row <- Id

\* The booking core implements a ledger of claims in which lending, booking and
\* confirming are atomic: although a confirmation finds its hold and its table
\* before the lock and decides with an old clock, what it books is either what
\* was lent to it and still is, or a table that is free at that very moment; and
\* no step of one caller changes what another was promised.
LedgerKept == Ledger!Spec

\* An expired hold that nobody consumed in time is swept.
OverdueHoldsSwept == \A h \in Id : Overdue(h) ~> holds[h].status # "ACTIVE"

=============================================================================
