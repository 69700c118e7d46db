--------------------------- MODULE BookingProofs ---------------------------
(***************************************************************************)
(* Proofs about Booking, about what runs beside it, FloorOps and           *)
(* WaitingList, and about the placement algorithm they share, for every    *)
(* floor plan, every set of callers, staff and people who wait, every slot *)
(* and party size, and every value of the bounds.                          *)
(***************************************************************************)
EXTENDS FloorOps, WaitingList, Arrivals, FiniteSetTheorems, WellFoundedInduction, TLAPS

(***************************************************************************)
(* What the operators of the model return                                  *)
(***************************************************************************)

\* BestFit chooses from the set it is given.
LEMMA BestFitChosen ==
    ASSUME NEW S, BestFit(S) # NoTable
    PROVE  BestFit(S) \in S
BY DEF BestFit

\* allocate returns a table of the floor plan that takes the party and is free.
LEMMA AllocateFree ==
    ASSUME NEW party, NEW slot, NEW at, NEW ex, allocate(party, slot, at, ex) # NoTable
    PROVE  /\ allocate(party, slot, at, ex) \in Table
           /\ FitsParty(allocate(party, slot, at, ex), party)
           /\ isTableAvailable(allocate(party, slot, at, ex), slot, at, ex, NoRow)
<1> DEFINE S == {t \in Table : /\ FitsParty(t, party)
                               /\ isTableAvailable(t, slot, at, ex, NoRow)}
<1>1. allocate(party, slot, at, ex) = BestFit(S)
  BY DEF allocate
<1>2. BestFit(S) \in S
  BY <1>1, BestFitChosen
<1> QED
  BY <1>1, <1>2

\* allocate never leaves the floor plan.
LEMMA AllocateType ==
    ASSUME NEW party, NEW slot, NEW at, NEW ex
    PROVE  allocate(party, slot, at, ex) \in Table \cup {NoTable}
BY AllocateFree

LEMMA SlotFacts == Slot \subseteq Interval /\ AnySlot \in Interval
BY BookingAssumption DEF AnySlot

LEMMA TxStartFacts ==
    ASSUME clock \in 0..MaxTime, NEW at \in TxStart
    PROVE  at \in Nat /\ at <= clock
BY BookingAssumption DEF TxStart

\* The window of a walk-in is an interval.
LEMMA MealInterval ==
    ASSUME NEW at \in Nat
    PROVE  [start |-> at, end |-> at + MealTime] \in Interval
BY BookingAssumption DEF Interval

(***************************************************************************)
(* Type correctness                                                        *)
(***************************************************************************)
LEMMA InitType == Init => TypeOK
BY SlotFacts, BookingAssumption
   DEF Init, TypeOK, NoHold, NoReservation, Idle, Hold, Reservation, Request,
       HoldStatus, ReservationStatus, NoRow, NoTable

LEMMA HoldType ==
    ASSUME TypeOK, NextHold
    PROVE  TypeOK'
<1>1. ASSUME NEW t \in Table, NEW slot \in Slot, NEW party \in Party, NEW at \in TxStart,
             InsertHold(t, slot, party, at)
      PROVE  TypeOK'
  <2>1. at + HoldTtl \in Nat /\ NewId \in Id /\ NewId \in 0..MaxRows
    BY <1>1, TxStartFacts, BookingAssumption DEF TypeOK, InsertHold, NewId, Id
  <2>2. [status |-> "ACTIVE", table |-> t, slot |-> slot, party |-> party,
         expiresAt |-> at + HoldTtl, resv |-> NoRow] \in Hold
    BY <2>1, SlotFacts, BookingAssumption DEF Hold, HoldStatus
  <2> QED
    BY <1>1, <2>1, <2>2 DEF TypeOK, InsertHold
<1>2. ASSUME NEW slot \in Slot, NEW party \in Party, NEW at \in TxStart,
             CreateHold(slot, party, at)
      PROVE  TypeOK'
  BY <1>1, <1>2, AllocateFree DEF CreateHold
<1>3. ASSUME NEW slot \in Slot, NEW party \in Party, NEW at \in TxStart, NEW t \in Table,
             CreateHoldOn(t, slot, party, at)
      PROVE  TypeOK'
  BY <1>1, <1>3 DEF CreateHoldOn
<1>4. ASSUME NEW h \in Id, ExpireOne(h)
      PROVE  TypeOK'
  BY <1>4 DEF ExpireOne, TypeOK, Hold, HoldStatus
<1>5. CASE ExpireOverdue
  BY <1>5 DEF ExpireOverdue, TypeOK, Hold, HoldStatus
<1> QED
  BY <1>2, <1>3, <1>4, <1>5 DEF NextHold

LEMMA CreateType ==
    ASSUME TypeOK, NextCreate
    PROVE  TypeOK'
<1>1. Idle \in Request
  BY SlotFacts DEF Idle, Request
<1>2. ASSUME NEW c \in Client, NEW mode \in Mode, BeginReservation(c, mode)
      PROVE  TypeOK'
  <2>1. mode \in Modes
    BY BookingAssumption
  <2>2. ASSUME NEW h \in Id,
               reqs' = [reqs EXCEPT ![c] =
                     [mode |-> mode, hold |-> h, table |-> TableForHold(h),
                      slot |-> holds[h].slot, party |-> holds[h].party, at |-> clock]]
        PROVE  TypeOK'
    <3>1. TableForHold(h) \in Table \cup {NoTable}
      BY AllocateType DEF TableForHold, TypeOK, Hold
    <3> QED
      BY <1>2, <2>1, <2>2, <3>1, BookingAssumption
         DEF BeginReservation, TypeOK, Request, Hold
  <2>3. ASSUME NEW slot \in Slot, NEW party \in Party,
               reqs' = [reqs EXCEPT ![c] =
                     [mode |-> mode, hold |-> NoRow, table |-> NoTable,
                      slot |-> slot, party |-> party, at |-> clock]]
        PROVE  TypeOK'
    BY <1>2, <2>1, <2>3, SlotFacts, BookingAssumption DEF BeginReservation, TypeOK, Request
  <2> QED
    BY <1>2, <2>2, <2>3 DEF BeginReservation
<1>3. ASSUME NEW c \in Client, CommitReservation(c)
      PROVE  TypeOK'
  <2> DEFINE q == reqs[c]
  <2>1. q \in Request /\ q.at + HoldTtl \in Nat
    BY <1>3, BookingAssumption DEF TypeOK, Request
  <2>2. NewId \in Id /\ NewId \in 0..MaxRows
    BY <1>3, BookingAssumption DEF TypeOK, CommitReservation, NewId, Id
  <2>3. holds' \in [Id -> Hold]
    <3>1. CASE q.hold # NoRow
      <4>1. q.hold \in Id
        BY <2>1, <3>1 DEF Request
      <4>2. [holds[q.hold] EXCEPT !.status = "CONSUMED", !.resv = NewId] \in Hold
        <5>1. holds[q.hold] \in Hold
          BY <4>1 DEF TypeOK
        <5> QED
          BY <2>2, <5>1 DEF Hold, HoldStatus
      <4> QED
        BY <1>3, <3>1, <4>1, <4>2 DEF CommitReservation, HoldsAfter, TypeOK
    <3>2. CASE q.hold = NoRow
      BY <1>3, <2>1, <2>2, <3>2
         DEF CommitReservation, HoldsAfter, TypeOK, Hold, HoldStatus, Request
    <3> QED
      BY <3>1, <3>2
  <2>4. TableOf(q) \in Table \cup {NoTable}
    BY <2>1, AllocateType DEF TableOf, Request
  <2>5. ConsumedHold(q) \in Id \cup {NoRow}
    BY <2>1, <2>2 DEF ConsumedHold, Request
  <2>6. InitialState(q) \in ReservationStates
    BY DEF InitialState, ReservationStates, ActiveStates
  <2>7. resvs' \in [Id -> Reservation]
    BY <1>3, <2>1, <2>2, <2>4, <2>5, <2>6
       DEF CommitReservation, TypeOK, Reservation, ReservationStatus, Request
  <2> QED
    BY <1>1, <1>3, <2>2, <2>3, <2>7 DEF CommitReservation, TypeOK
<1>4. ASSUME NEW c \in Client, RefuseReservation(c)
      PROVE  TypeOK'
  BY <1>1, <1>4 DEF RefuseReservation, TypeOK
<1> QED
  BY <1>2, <1>3, <1>4 DEF NextCreate

LEMMA InsertReservationType ==
    ASSUME TypeOK, NEW state \in {"CONFIRMED", "SEATED"}, NEW t \in Table, NEW slot \in Interval,
           NEW party \in Nat, InsertReservation(state, t, slot, party)
    PROVE  TypeOK'
<1>1. NewId \in Id /\ NewId \in 0..MaxRows
  BY BookingAssumption DEF TypeOK, InsertReservation, NewId, Id
<1>2. [state |-> state, status |-> state, table |-> t, slot |-> slot,
       party |-> party, hold |-> NoRow, test |-> FALSE] \in Reservation
  BY DEF Reservation, ReservationStates, ActiveStates, ReservationStatus
<1> QED
  BY <1>1, <1>2 DEF TypeOK, InsertReservation

LEMMA ReservationType ==
    ASSUME TypeOK, NextReservation
    PROVE  TypeOK'
<1>1. Party \subseteq Nat
  BY BookingAssumption
<1>2. ASSUME NEW at \in TxStart, NEW slot \in Slot, NEW party \in Party,
             CreateAllocated(slot, party, at)
      PROVE  TypeOK'
  BY <1>1, <1>2, AllocateFree, SlotFacts, InsertReservationType DEF CreateAllocated
<1>3. ASSUME NEW at \in TxStart, NEW t \in Table, NEW party \in Party,
             CreateWalkIn(t, party, at)
      PROVE  TypeOK'
  BY <1>1, <1>3, TxStartFacts, MealInterval, InsertReservationType DEF CreateWalkIn, TypeOK
<1>4. ASSUME NEW at \in TxStart, NEW r \in Id, AllocateTable(r, at)
      PROVE  TypeOK'
  BY <1>4, AllocateType DEF AllocateTable, TypeOK, Reservation
<1>5. ASSUME NEW at \in TxStart, NEW r \in Id, NEW slot \in Slot, NEW party \in Party,
             ModifyReservation(r, slot, party, at)
      PROVE  TypeOK'
  <2> DEFINE cur == resvs[r]
             t == IF cur.table = NoTable THEN NoTable ELSE allocate(party, slot, at, r)
             new == [cur EXCEPT !.slot = slot, !.party = party, !.table = t]
  <2>1. t \in Table \cup {NoTable}
    BY AllocateType
  <2>2. new \in Reservation
    BY <2>1, SlotFacts, BookingAssumption DEF TypeOK, Reservation
  <2> QED
    BY <1>5, <2>2 DEF ModifyReservation, TypeOK
<1>6. ASSUME NEW at \in TxStart, NEW r \in Id, NEW party \in Party,
             UpdatePartySize(r, party, at)
      PROVE  TypeOK'
  <2> DEFINE cur == resvs[r]
             t == IF cur.state = "SEATED" \/ Table = {} THEN cur.table
                  ELSE allocate(party, cur.slot, at, r)
             new == [cur EXCEPT !.party = party, !.table = t]
  <2>1. t \in Table \cup {NoTable}
    BY AllocateType DEF TypeOK, Reservation
  <2>2. new \in Reservation
    BY <2>1, BookingAssumption DEF TypeOK, Reservation
  <2> QED
    BY <1>6, <2>2 DEF UpdatePartySize, TypeOK
<1>7. ASSUME NEW at \in TxStart, NEW r \in Id, NEW to \in Target, Transition(r, to, at)
      PROVE  TypeOK'
  <2> DEFINE new == [resvs[r] EXCEPT !.state = to, !.status = TransitionStatus(to, resvs[r].status)]
  <2>1. TransitionStatus(to, resvs[r].status) \in ReservationStatus
    BY DEF TransitionStatus, TypeOK, Reservation
  <2>2. new \in Reservation
    BY <2>1, BookingAssumption DEF TypeOK, Reservation
  <2> QED
    BY <1>7, <2>2 DEF Transition, TypeOK
<1> QED
  BY <1>2, <1>3, <1>4, <1>5, <1>6, <1>7 DEF NextReservation

LEMMA TickType ==
    ASSUME TypeOK, Tick
    PROVE  TypeOK'
BY BookingAssumption DEF Tick, TypeOK

LEMMA NextType == TypeOK /\ [Next]_vars => TypeOK'
<1> SUFFICES ASSUME TypeOK, [Next]_vars PROVE TypeOK'
  OBVIOUS
<1>1. CASE UNCHANGED vars
  BY <1>1 DEF vars, TypeOK
<1> QED
  BY <1>1, TickType, HoldType, CreateType, ReservationType DEF Next

\* Every reachable state is well typed: in particular tables come from the
\* floor plan and links name rows.
THEOREM TypeCorrect == Spec => []TypeOK
BY InitType, NextType, PTL DEF Spec

(***************************************************************************)
(* The inductive invariant.  TableExclusive is inductive only together     *)
(* with what is known of the calls in flight: their clock is in the past,  *)
(* so a hold that is live now was live for them, and only a call that      *)
(* confirms a hold carries a table.  HoldConsumedOnce needs that rows not  *)
(* yet created are empty.                                                  *)
(***************************************************************************)
ReqsSane ==
    \A c \in Client :
        /\ reqs[c].at <= clock
        /\ reqs[c].mode \notin {"hold", "test"} => reqs[c].table = NoTable /\ reqs[c].hold = NoRow

FreshRows ==
    \A i \in Id : i > lastId => holds[i].status = "NONE" /\ resvs[i].state = "NONE"

\* What the steps keep whether or not tables are exclusive.
LinkInv == TypeOK /\ ReqsSane /\ FreshRows /\ HoldConsumedOnce

IInv == LinkInv /\ TableExclusive

LEMMA IdFacts == NoRow \notin Id /\ Id \subseteq Nat
BY BookingAssumption DEF Id, NoRow

LEMMA NewIdFacts ==
    ASSUME TypeOK, lastId < MaxRows
    PROVE  NewId \in Id /\ NewId > lastId /\ \A i \in Id : i > NewId => i > lastId
BY BookingAssumption DEF TypeOK, NewId, Id

LEMMA OverlapSymmetric ==
    ASSUME NEW a, NEW b, Overlap(a, b)
    PROVE  Overlap(b, a)
BY DEF Overlap

LEMMA InitIInv == Init => IInv
<1> SUFFICES ASSUME Init PROVE IInv
  OBVIOUS
<1>1. TypeOK
  BY InitType
<1>2. ReqsSane
  BY BookingAssumption DEF Init, ReqsSane, Idle
<1>3. FreshRows
  BY DEF Init, FreshRows, NoHold, NoReservation
<1>4. TableExclusive
  BY DEF Init, TableExclusive, ReservationsDisjoint, HoldsDisjoint, HoldsRespected,
         NoReservation, NoTable, NoHold
<1>5. HoldConsumedOnce
  BY DEF Init, HoldConsumedOnce, NoReservation
<1> QED
  BY <1>1, <1>2, <1>3, <1>4, <1>5 DEF IInv, LinkInv

(***************************************************************************)
(* TableExclusive is preserved by a step that writes one reservation which *)
(* meets no other claim on its table, and leaves live no hold that was not *)
(* live before.                                                            *)
(***************************************************************************)
LEMMA ClaimStep ==
    ASSUME TypeOK, TableExclusive,
           NEW r \in Id, NEW new \in Reservation,
           resvs' = [resvs EXCEPT ![r] = new],
           \A h \in Id : Live(holds'[h], clock') =>
               /\ Live(holds[h], clock)
               /\ holds'[h].table = holds[h].table /\ holds'[h].slot = holds[h].slot,
           Blocking(new) /\ new.table # NoTable =>
               /\ ~hasConflictingReservation(new.table, new.slot, r)
               /\ \A h \in Id : Live(holds'[h], clock') /\ holds[h].table = new.table =>
                      ~Overlap(holds[h].slot, new.slot)
    PROVE  TableExclusive'
<1>1. \A s \in Id : resvs'[s] = IF s = r THEN new ELSE resvs[s]
  BY DEF TypeOK
<1>2. ReservationsDisjoint'
  <2> SUFFICES ASSUME NEW p \in Id, NEW s \in Id, p # s,
                      Blocking(resvs'[p]), Blocking(resvs'[s]),
                      resvs'[p].table = resvs'[s].table, resvs'[p].table # NoTable
               PROVE  ~Overlap(resvs'[p].slot, resvs'[s].slot)
    BY DEF ReservationsDisjoint, Blocking
  <2>1. CASE p = r
    BY <1>1, <2>1, OverlapSymmetric DEF hasConflictingReservation
  <2>2. CASE s = r
    BY <1>1, <2>2, OverlapSymmetric DEF hasConflictingReservation
  <2>3. CASE p # r /\ s # r
    BY <1>1, <2>3 DEF TableExclusive, ReservationsDisjoint
  <2> QED
    BY <2>1, <2>2, <2>3
<1>3. HoldsDisjoint'
  BY DEF TableExclusive, HoldsDisjoint, Live
<1>4. HoldsRespected'
  <2> SUFFICES ASSUME NEW p \in Id, NEW h \in Id,
                      Blocking(resvs'[p]), Live(holds'[h], clock'),
                      resvs'[p].table = holds'[h].table, resvs'[p].table # NoTable
               PROVE  ~Overlap(resvs'[p].slot, holds'[h].slot)
    BY DEF HoldsRespected, Blocking, Live
  <2>1. CASE p = r
    BY <1>1, <2>1, OverlapSymmetric
  <2>2. CASE p # r
    BY <1>1, <2>2 DEF TableExclusive, HoldsRespected
  <2> QED
    BY <2>1, <2>2
<1> QED
  BY <1>2, <1>3, <1>4 DEF TableExclusive

\* A step that writes no reservation and leaves live no hold that was not.
LEMMA NoClaimStep ==
    ASSUME TableExclusive, UNCHANGED resvs,
           \A h \in Id : Live(holds'[h], clock') =>
               /\ Live(holds[h], clock)
               /\ holds'[h].table = holds[h].table /\ holds'[h].slot = holds[h].slot
    PROVE  TableExclusive'
BY DEF TableExclusive, ReservationsDisjoint, HoldsDisjoint, HoldsRespected, Live, Blocking

\* A hold that is live now was live at any earlier time.
LEMMA LiveEarlier ==
    ASSUME TypeOK, NEW h \in Id, NEW at \in Nat, at <= clock, Live(holds[h], clock)
    PROVE  Live(holds[h], at)
BY BookingAssumption DEF Live, TypeOK, Hold

(***************************************************************************)
(* Holds                                                                   *)
(***************************************************************************)
LEMMA InsertHoldStep ==
    ASSUME LinkInv, NEW t \in Table, NEW slot \in Slot, NEW party \in Party, NEW at \in TxStart,
           isTableAvailable(t, slot, at, NoRow, NoRow),
           InsertHold(t, slot, party, at)
    PROVE  ReqsSane' /\ FreshRows' /\ HoldConsumedOnce' /\ (TableExclusive => TableExclusive')
<1> DEFINE new == [status |-> "ACTIVE", table |-> t, slot |-> slot, party |-> party,
                   expiresAt |-> at + HoldTtl, resv |-> NoRow]
<1>1. NewId \in Id /\ NewId > lastId /\ \A i \in Id : i > NewId => i > lastId
  BY NewIdFacts DEF LinkInv, InsertHold
<1>2. \A h \in Id : holds'[h] = IF h = NewId THEN new ELSE holds[h]
  BY <1>1 DEF InsertHold, LinkInv, TypeOK
<1>3. ReqsSane'
  BY DEF LinkInv, ReqsSane, InsertHold
<1>4. FreshRows'
  BY <1>1, <1>2, IdFacts DEF LinkInv, FreshRows, InsertHold, TypeOK, NewId
<1>5. at \in Nat /\ at <= clock
  BY TxStartFacts DEF LinkInv, TypeOK
<1>6. \A h \in Id : Live(holds[h], clock) /\ holds[h].table = t => ~Overlap(holds[h].slot, slot)
  BY <1>5, LiveEarlier, IdFacts DEF LinkInv, isTableAvailable, hasConflictingHold
<1>7. \A r \in Id : Blocking(resvs[r]) /\ resvs[r].table = t => ~Overlap(resvs[r].slot, slot)
  BY IdFacts DEF isTableAvailable, hasConflictingReservation
<1>8. ASSUME TableExclusive
      PROVE  TableExclusive'
  <2>1. ReservationsDisjoint'
    BY <1>8 DEF TableExclusive, ReservationsDisjoint, InsertHold, Blocking
  <2>2. HoldsDisjoint'
    BY <1>2, <1>6, <1>8, OverlapSymmetric DEF TableExclusive, HoldsDisjoint, InsertHold, Live
  <2>3. HoldsRespected'
    BY <1>2, <1>7, <1>8 DEF TableExclusive, HoldsRespected, InsertHold, Live, Blocking
  <2> QED
    BY <2>1, <2>2, <2>3 DEF TableExclusive
<1>9. HoldConsumedOnce'
  <2>1. \A r \in Id : resvs[r].hold # NewId
    BY <1>1, IdFacts DEF LinkInv, HoldConsumedOnce, FreshRows
  <2> QED
    BY <1>2, <2>1 DEF LinkInv, HoldConsumedOnce, InsertHold, TypeOK, Reservation
<1> QED
  BY <1>3, <1>4, <1>8, <1>9

\* A step that only ends ACTIVE holds.
LEMMA ExpireStep ==
    ASSUME LinkInv, UNCHANGED <<clock, resvs, lastId, reqs>>,
           \A h \in Id : \/ holds'[h] = holds[h]
                         \/ /\ holds[h].status = "ACTIVE"
                            /\ holds'[h].status = "EXPIRED"
    PROVE  ReqsSane' /\ FreshRows' /\ HoldConsumedOnce' /\ (TableExclusive => TableExclusive')
<1>1. ReqsSane'
  BY DEF LinkInv, ReqsSane
<1>2. FreshRows'
  BY DEF LinkInv, FreshRows
<1>3. TableExclusive => TableExclusive'
  BY NoClaimStep DEF LinkInv, Live
<1>4. HoldConsumedOnce'
  BY DEF LinkInv, HoldConsumedOnce, TypeOK, Reservation
<1> QED
  BY <1>1, <1>2, <1>3, <1>4

LEMMA HoldStep ==
    ASSUME LinkInv, NextHold
    PROVE  ReqsSane' /\ FreshRows' /\ HoldConsumedOnce' /\ (TableExclusive => TableExclusive')
<1>1. ASSUME NEW slot \in Slot, NEW party \in Party, NEW at \in TxStart,
             CreateHold(slot, party, at)
      PROVE  ReqsSane' /\ FreshRows' /\ HoldConsumedOnce' /\ (TableExclusive => TableExclusive')
  BY <1>1, AllocateFree, InsertHoldStep DEF CreateHold
<1>2. ASSUME NEW slot \in Slot, NEW party \in Party, NEW at \in TxStart, NEW t \in Table,
             CreateHoldOn(t, slot, party, at)
      PROVE  ReqsSane' /\ FreshRows' /\ HoldConsumedOnce' /\ (TableExclusive => TableExclusive')
  BY <1>2, InsertHoldStep DEF CreateHoldOn, assertTableAvailableForSeating
<1>3. ASSUME NEW h \in Id, ExpireOne(h)
      PROVE  ReqsSane' /\ FreshRows' /\ HoldConsumedOnce' /\ (TableExclusive => TableExclusive')
  BY <1>3, ExpireStep DEF ExpireOne, Overdue, LinkInv, TypeOK, Hold
<1>4. CASE ExpireOverdue
  BY <1>4, ExpireStep DEF ExpireOverdue, Overdue, LinkInv, TypeOK, Hold
<1> QED
  BY <1>1, <1>2, <1>3, <1>4 DEF NextHold

(***************************************************************************)
(* Reservations                                                            *)
(***************************************************************************)

\* A step that writes one reservation, without touching its link to a hold,
\* on a table that was found free for it.
LEMMA ReservationStep ==
    ASSUME LinkInv, UNCHANGED <<clock, holds, reqs>>, lastId' >= lastId, lastId' \in Nat,
           NEW r \in Id, r <= lastId', NEW new \in Reservation,
           new.hold \in {NoRow, resvs[r].hold},
           resvs' = [resvs EXCEPT ![r] = new],
           NEW at \in Nat, at <= clock,
           TableExclusive /\ Blocking(new) /\ new.table # NoTable =>
               isTableAvailable(new.table, new.slot, at, r, NoRow)
    PROVE  ReqsSane' /\ FreshRows' /\ HoldConsumedOnce' /\ (TableExclusive => TableExclusive')
<1>1. ReqsSane'
  BY DEF LinkInv, ReqsSane
<1>2. FreshRows'
  BY IdFacts DEF LinkInv, FreshRows, TypeOK
<1>3. ASSUME TableExclusive
      PROVE  TableExclusive'
  <2>1. ASSUME Blocking(new), new.table # NoTable,
               NEW h \in Id, Live(holds[h], clock), holds[h].table = new.table
        PROVE  ~Overlap(holds[h].slot, new.slot)
    BY <1>3, <2>1, LiveEarlier, IdFacts DEF LinkInv, isTableAvailable, hasConflictingHold
  <2> QED
    BY <1>3, <2>1, ClaimStep DEF LinkInv, isTableAvailable, Live
<1>4. HoldConsumedOnce'
  BY DEF LinkInv, HoldConsumedOnce, TypeOK
<1> QED
  BY <1>1, <1>2, <1>3, <1>4

\* A reservation that keeps its table and slot, and did occupy capacity if it
\* does afterwards, needs no further check.
LEMMA KeepsPlace ==
    ASSUME LinkInv, TableExclusive,
           NEW r \in Id, NEW new \in Reservation, Blocking(new), new.table # NoTable,
           Blocking(resvs[r]), new.table = resvs[r].table, new.slot = resvs[r].slot
    PROVE  isTableAvailable(new.table, new.slot, clock, r, NoRow)
<1>1. ~hasConflictingReservation(new.table, new.slot, r)
  BY DEF LinkInv, TableExclusive, ReservationsDisjoint, hasConflictingReservation
<1>2. ~hasConflictingHold(new.table, new.slot, clock, NoRow)
  BY OverlapSymmetric DEF LinkInv, TableExclusive, HoldsRespected, hasConflictingHold
<1> QED
  BY <1>1, <1>2 DEF isTableAvailable

\* A new reservation on a table that was found free.
LEMMA InsertReservationStep ==
    ASSUME LinkInv, NEW state \in {"CONFIRMED", "SEATED"}, NEW t \in Table, NEW slot \in Interval,
           NEW party \in Nat, NEW at \in TxStart,
           isTableAvailable(t, slot, at, NoRow, NoRow),
           InsertReservation(state, t, slot, party)
    PROVE  ReqsSane' /\ FreshRows' /\ HoldConsumedOnce' /\ (TableExclusive => TableExclusive')
<1> DEFINE new == [state |-> state, status |-> state, table |-> t, slot |-> slot,
                   party |-> party, hold |-> NoRow, test |-> FALSE]
<1> USE DEF LinkInv
<1>1. NewId \in Id /\ NewId > lastId /\ lastId' = NewId /\ NewId \in Nat
  BY NewIdFacts, IdFacts DEF InsertReservation
<1>2. new \in Reservation
  BY DEF Reservation, ReservationStates, ActiveStates, ReservationStatus
<1>3. isTableAvailable(t, slot, at, NewId, NoRow)
  BY IdFacts DEF isTableAvailable, hasConflictingReservation
<1>4. lastId' >= lastId /\ NewId <= lastId' /\ lastId' \in Nat /\ at \in Nat /\ at <= clock
  BY <1>1, TxStartFacts, BookingAssumption DEF TypeOK
<1>5. resvs' = [resvs EXCEPT ![NewId] = new] /\ UNCHANGED <<clock, holds, reqs>>
  BY DEF InsertReservation
<1> QED
  BY <1>1, <1>2, <1>3, <1>4, <1>5, ReservationStep

LEMMA NextReservationStep ==
    ASSUME LinkInv, NextReservation
    PROVE  ReqsSane' /\ FreshRows' /\ HoldConsumedOnce' /\ (TableExclusive => TableExclusive')
<1> DEFINE Goal == ReqsSane' /\ FreshRows' /\ HoldConsumedOnce' /\ (TableExclusive => TableExclusive')
<1> USE DEF LinkInv
<1>0. clock \in Nat /\ clock <= clock /\ lastId \in Nat
  BY BookingAssumption DEF TypeOK
<1>1. ASSUME NEW at \in TxStart PROVE at \in Nat /\ at <= clock
  BY TxStartFacts DEF TypeOK
<1>2. Party \subseteq Nat
  BY BookingAssumption
<1>3. ASSUME NEW at \in TxStart, NEW slot \in Slot, NEW party \in Party,
             CreateAllocated(slot, party, at)
      PROVE  Goal
  BY <1>2, <1>3, AllocateFree, SlotFacts, InsertReservationStep DEF CreateAllocated
<1>4. ASSUME NEW at \in TxStart, NEW t \in Table, NEW party \in Party,
             CreateWalkIn(t, party, at)
      PROVE  Goal
  BY <1>1, <1>2, <1>4, MealInterval, InsertReservationStep
     DEF CreateWalkIn, assertTableAvailableForSeating
<1>5. ASSUME NEW at \in Nat, at <= clock, NEW r \in Id, NEW new \in Reservation,
             resvs[r].state # "NONE",
             resvs' = [resvs EXCEPT ![r] = new], UNCHANGED <<clock, holds, lastId, reqs>>,
             new.hold = resvs[r].hold,
             TableExclusive /\ Blocking(new) /\ new.table # NoTable =>
                 isTableAvailable(new.table, new.slot, at, r, NoRow)
      PROVE  Goal
  <2>1. r <= lastId
    BY <1>0, <1>5, IdFacts DEF FreshRows
  <2>2. lastId' >= lastId /\ lastId' \in Nat /\ r <= lastId'
    BY <1>0, <1>5, <2>1
  <2>3. new.hold \in {NoRow, resvs[r].hold} /\ UNCHANGED <<clock, holds, reqs>>
    BY <1>5
  <2> QED
    BY <1>5, <2>2, <2>3, ReservationStep
<1>6. ASSUME NEW at \in TxStart, NEW r \in Id, AllocateTable(r, at)
      PROVE  Goal
  <2> DEFINE t == allocate(resvs[r].party, resvs[r].slot, at, r)
             new == [resvs[r] EXCEPT !.table = t]
  <2>1. new \in Reservation /\ new.table = t /\ new.slot = resvs[r].slot
        /\ new.hold = resvs[r].hold
    BY AllocateType DEF TypeOK, Reservation
  <2>2. t # NoTable => isTableAvailable(t, resvs[r].slot, at, r, NoRow)
    BY AllocateFree
  <2>3. resvs' = [resvs EXCEPT ![r] = new] /\ UNCHANGED <<clock, holds, lastId, reqs>>
        /\ resvs[r].state # "NONE"
    BY <1>6 DEF AllocateTable
  <2> HIDE DEF t, new
  <2> QED
    BY <1>1, <1>5, <2>1, <2>2, <2>3
<1>7. ASSUME NEW at \in TxStart, NEW r \in Id, NEW slot \in Slot, NEW party \in Party,
             ModifyReservation(r, slot, party, at)
      PROVE  Goal
  <2> DEFINE cur == resvs[r]
             t == IF cur.table = NoTable THEN NoTable ELSE allocate(party, slot, at, r)
             new == [cur EXCEPT !.slot = slot, !.party = party, !.table = t]
  <2>1. t \in Table \cup {NoTable}
    BY AllocateType
  <2>2. new \in Reservation /\ new.table = t /\ new.slot = slot /\ new.hold = cur.hold
    BY <2>1, SlotFacts, BookingAssumption DEF TypeOK, Reservation
  <2>3. t # NoTable => isTableAvailable(t, slot, at, r, NoRow)
    BY AllocateFree
  <2>4. resvs' = [resvs EXCEPT ![r] = new] /\ UNCHANGED <<clock, holds, lastId, reqs>>
        /\ cur.state # "NONE"
    BY <1>7 DEF ModifyReservation
  <2> HIDE DEF t, new
  <2> QED
    BY <1>1, <1>5, <2>2, <2>3, <2>4
<1>8. ASSUME NEW at \in TxStart, NEW r \in Id, NEW party \in Party,
             UpdatePartySize(r, party, at)
      PROVE  Goal
  <2> DEFINE cur == resvs[r]
             t == IF cur.state = "SEATED" \/ Table = {} THEN cur.table
                  ELSE allocate(party, cur.slot, at, r)
             new == [cur EXCEPT !.party = party, !.table = t]
  <2>1. t \in Table \cup {NoTable}
    BY AllocateType DEF TypeOK, Reservation
  <2>2. /\ new \in Reservation /\ new.table = t /\ new.slot = cur.slot /\ new.hold = cur.hold
        /\ new.state = cur.state /\ new.test = cur.test
    BY <2>1, BookingAssumption DEF TypeOK, Reservation
  <2>3. resvs' = [resvs EXCEPT ![r] = new] /\ UNCHANGED <<clock, holds, lastId, reqs>>
        /\ cur.state \in ActiveStates
    BY <1>8 DEF UpdatePartySize
  <2>4. CASE t = cur.table
    <3>1. TableExclusive /\ Blocking(new) /\ new.table # NoTable =>
              isTableAvailable(new.table, new.slot, clock, r, NoRow)
      BY <2>2, <2>4, KeepsPlace DEF Blocking
    <3> HIDE DEF t, new
    <3> QED
      BY <1>0, <1>5, <2>2, <2>3, <3>1 DEF ActiveStates
  <2>5. CASE t # cur.table
    <3>1. t # NoTable => isTableAvailable(t, cur.slot, at, r, NoRow)
      BY <2>5, AllocateFree
    <3> HIDE DEF t, new
    <3> QED
      BY <1>1, <1>5, <2>2, <2>3, <3>1 DEF ActiveStates
  <2> QED
    BY <2>4, <2>5
<1>9. ASSUME NEW at \in TxStart, NEW r \in Id, NEW to \in Target, Transition(r, to, at)
      PROVE  Goal
  <2> DEFINE cur == resvs[r]
             new == [cur EXCEPT !.state = to, !.status = TransitionStatus(to, cur.status)]
  <2>1. TransitionStatus(to, cur.status) \in ReservationStatus
    BY DEF TransitionStatus, TypeOK, Reservation
  <2>2. /\ new \in Reservation /\ new.table = cur.table /\ new.slot = cur.slot
        /\ new.hold = cur.hold /\ new.state = to /\ new.test = cur.test
    BY <2>1, BookingAssumption DEF TypeOK, Reservation
  <2>3. resvs' = [resvs EXCEPT ![r] = new] /\ UNCHANGED <<clock, holds, lastId, reqs>>
        /\ cur.state # "NONE" /\ to \in ValidTransitions[cur.state]
    BY <1>9 DEF Transition
  <2>4. cur.state \in ReservationStates
    BY <2>3 DEF TypeOK, Reservation
  <2>5. to \in ActiveStates => cur.state \in ActiveStates
    BY <2>3, <2>4 DEF ValidTransitions, ActiveStates, ReservationStates
  <2>6. TableExclusive /\ Blocking(new) /\ new.table # NoTable =>
            isTableAvailable(new.table, new.slot, clock, r, NoRow)
    BY <2>2, <2>5, KeepsPlace DEF Blocking
  <2> HIDE DEF new
  <2> QED
    BY <1>0, <1>5, <2>2, <2>3, <2>6
<1> QED
  BY <1>3, <1>4, <1>6, <1>7, <1>8, <1>9 DEF NextReservation

(***************************************************************************)
(* createReservation                                                       *)
(***************************************************************************)
LEMMA CommitStep ==
    ASSUME LinkInv, NEW c \in Client, CommitReservation(c)
    PROVE  ReqsSane' /\ FreshRows' /\ HoldConsumedOnce' /\ (TableExclusive => TableExclusive')
<1> DEFINE q == reqs[c]
           new == [state |-> InitialState(q), status |-> "CONFIRMED", table |-> TableOf(q),
                   slot |-> q.slot, party |-> q.party, hold |-> ConsumedHold(q),
                   test |-> q.mode = "test"]
<1> USE DEF LinkInv
<1>1. NewId \in Id /\ NewId > lastId /\ \A i \in Id : i > NewId => i > lastId
  BY NewIdFacts DEF CommitReservation
<1>2. q \in Request /\ q.at \in Nat /\ q.at <= clock /\ q.hold \in Id \cup {NoRow}
  BY DEF TypeOK, Request, ReqsSane
<1>3. new \in Reservation
  <2>1. TableOf(q) \in Table \cup {NoTable}
    BY <1>2, AllocateType DEF TableOf, Request
  <2>2. ConsumedHold(q) \in Id \cup {NoRow}
    BY <1>1, <1>2 DEF ConsumedHold
  <2>3. InitialState(q) \in ReservationStates
    BY DEF InitialState, ReservationStates, ActiveStates
  <2> QED
    BY <1>2, <2>1, <2>2, <2>3 DEF Reservation, ReservationStatus, Request
<1>4. /\ resvs' = [resvs EXCEPT ![NewId] = new] /\ holds' = HoldsAfter(q)
      /\ lastId' = NewId /\ clock' = clock
  BY DEF CommitReservation
\* What becomes of each hold.
<1>5. \A h \in Id :
        \/ holds'[h] = holds[h] /\ h # ConsumedHold(q)
        \/ /\ h = ConsumedHold(q)
           /\ holds[h].status \in {"NONE", "ACTIVE"}
           /\ holds'[h].status = "CONSUMED" /\ holds'[h].resv = NewId
        \/ /\ h # ConsumedHold(q)
           /\ holds[h].status = "ACTIVE" /\ holds'[h].status = "EXPIRED"
  <2>1. CASE q.hold # NoRow
    <3>1. q.hold \in Id /\ holds[q.hold].status = "ACTIVE"
      BY <1>2, <2>1 DEF CommitReservation, HoldStillConsumable, Live
    <3>2. holds' = [holds EXCEPT ![q.hold] = [@ EXCEPT !.status = "CONSUMED", !.resv = NewId]]
      BY <1>4, <2>1 DEF HoldsAfter
    <3> QED
      BY <2>1, <3>1, <3>2 DEF TypeOK, Hold, ConsumedHold
  <2>2. CASE q.hold = NoRow /\ Overbooked(q)
    BY <1>4, <2>2, IdFacts DEF HoldsAfter, ConsumedHold
  <2>3. CASE q.hold = NoRow /\ ~Overbooked(q)
    <3>1. holds[NewId].status = "NONE"
      BY <1>1 DEF FreshRows
    <3> QED
      BY <1>1, <1>4, <2>3, <3>1 DEF HoldsAfter, ConsumedHold, TypeOK, Hold
  <2> QED
    BY <2>1, <2>2, <2>3
<1>6. ReqsSane'
  BY <1>4, BookingAssumption DEF CommitReservation, ReqsSane, Idle, TypeOK
<1>7. FreshRows'
  <2>1. \A i \in Id : i > NewId => i # ConsumedHold(q)
    BY <1>1, <1>2, <1>4, IdFacts
       DEF ConsumedHold, FreshRows, CommitReservation, HoldStillConsumable, Live
  <2> QED
    BY <1>1, <1>3, <1>4, <1>5, <2>1, IdFacts DEF FreshRows, TypeOK
<1>8. ASSUME TableExclusive
      PROVE  TableExclusive'
  <2>1. ASSUME TableOf(q) # NoTable
        PROVE  isTableAvailable(TableOf(q), q.slot, q.at, NoRow, q.hold)
    <3>1. ~Overbooked(q)
      BY <2>1 DEF Overbooked, ReqsSane, TableOf
    <3> QED
      BY <2>1, <3>1 DEF CommitReservation, CapacityGranted, TableStillFree
  <2>2. \A h \in Id : Live(holds'[h], clock') =>
            holds'[h] = holds[h] /\ Live(holds[h], clock) /\ h # q.hold
    BY <1>4, <1>5, IdFacts DEF Live, ConsumedHold
  <2>3. ASSUME new.table # NoTable
        PROVE  /\ ~hasConflictingReservation(new.table, new.slot, NewId)
               /\ \A h \in Id : Live(holds'[h], clock') /\ holds[h].table = new.table =>
                      ~Overlap(holds[h].slot, new.slot)
    <3>1. isTableAvailable(new.table, new.slot, q.at, NoRow, q.hold)
      BY <2>1, <2>3
    <3> HIDE DEF new
    <3> QED
      BY <1>2, <2>2, <3>1, LiveEarlier, IdFacts
         DEF isTableAvailable, hasConflictingReservation, hasConflictingHold
  <2> HIDE DEF new
  <2> QED
    BY <1>1, <1>3, <1>4, <1>8, <2>2, <2>3, ClaimStep
<1>9. HoldConsumedOnce'
  <2>1. \A r \in Id : resvs[r].hold # NoRow => resvs[r].hold \in Id
                                               /\ resvs[r].hold # ConsumedHold(q)
    BY <1>1, <1>5 DEF HoldConsumedOnce, TypeOK, Reservation
  <2>2. \A r \in Id : resvs'[r] = IF r = NewId THEN new ELSE resvs[r]
    BY <1>1, <1>4 DEF TypeOK
  <2>3. new.hold = ConsumedHold(q) /\ new.hold \in Id \cup {NoRow}
    BY <1>1, <1>2 DEF ConsumedHold
  <2> HIDE DEF new
  <2> QED
    BY <1>5, <2>1, <2>2, <2>3 DEF HoldConsumedOnce
<1> QED
  BY <1>6, <1>7, <1>8, <1>9

LEMMA CreateStep ==
    ASSUME LinkInv, NextCreate
    PROVE  ReqsSane' /\ FreshRows' /\ HoldConsumedOnce' /\ (TableExclusive => TableExclusive')
<1>1. ASSUME NEW c \in Client, UNCHANGED <<clock, holds, resvs, lastId>>, ReqsSane'
      PROVE  ReqsSane' /\ FreshRows' /\ HoldConsumedOnce' /\ (TableExclusive => TableExclusive')
  BY <1>1 DEF LinkInv, FreshRows, TableExclusive, ReservationsDisjoint, HoldsDisjoint,
              HoldsRespected, HoldConsumedOnce, Blocking, Live
<1>2. ASSUME NEW c \in Client, NEW mode \in Mode, BeginReservation(c, mode)
      PROVE  ReqsSane'
  <2>1. clock <= clock /\ clock' = clock
    BY <1>2, BookingAssumption DEF BeginReservation, LinkInv, TypeOK
  <2>2. ASSUME NEW q, reqs' = [reqs EXCEPT ![c] = q], q.at = clock,
               q.mode \notin {"hold", "test"} => q.table = NoTable /\ q.hold = NoRow
        PROVE  ReqsSane'
    <3>1. \A d \in Client : reqs'[d] = IF d = c THEN q ELSE reqs[d]
      BY <2>2 DEF LinkInv, TypeOK
    <3> QED
      BY <2>1, <2>2, <3>1 DEF LinkInv, ReqsSane
  <2>3. CASE mode \in {"hold", "test"}
    <3> DEFINE q(h) == [mode |-> mode, hold |-> h, table |-> TableForHold(h),
                        slot |-> holds[h].slot, party |-> holds[h].party, at |-> clock]
    <3>1. PICK h \in Id : reqs' = [reqs EXCEPT ![c] = q(h)]
      BY <1>2, <2>3 DEF BeginReservation
    <3>2. q(h).at = clock /\ q(h).mode = mode
      OBVIOUS
    <3> HIDE DEF q
    <3> QED
      BY <2>2, <2>3, <3>1, <3>2
  <2>4. CASE mode \notin {"hold", "test"}
    <3> DEFINE q(slot, party) == [mode |-> mode, hold |-> NoRow, table |-> NoTable,
                                  slot |-> slot, party |-> party, at |-> clock]
    <3>1. PICK slot \in Slot, party \in Party : reqs' = [reqs EXCEPT ![c] = q(slot, party)]
      BY <1>2, <2>4 DEF BeginReservation
    <3>2. /\ q(slot, party).at = clock
          /\ q(slot, party).table = NoTable /\ q(slot, party).hold = NoRow
      OBVIOUS
    <3> HIDE DEF q
    <3> QED
      BY <2>2, <3>1, <3>2
  <2> QED
    BY <2>3, <2>4
<1>3. ASSUME NEW c \in Client, RefuseReservation(c)
      PROVE  ReqsSane'
  BY <1>3, BookingAssumption DEF RefuseReservation, LinkInv, ReqsSane, TypeOK, Idle
<1> QED
  BY <1>1, <1>2, <1>3, CommitStep DEF NextCreate, BeginReservation, RefuseReservation

LEMMA TickStep ==
    ASSUME LinkInv, Tick
    PROVE  ReqsSane' /\ FreshRows' /\ HoldConsumedOnce' /\ (TableExclusive => TableExclusive')
<1>1. ReqsSane'
  BY BookingAssumption DEF LinkInv, ReqsSane, Tick, TypeOK, Request
<1>2. FreshRows' /\ HoldConsumedOnce'
  BY DEF LinkInv, FreshRows, HoldConsumedOnce, Tick
<1>3. TableExclusive => TableExclusive'
  <2>1. \A h \in Id : Live(holds[h], clock + 1) => Live(holds[h], clock)
    BY BookingAssumption DEF LinkInv, Live, TypeOK, Hold
  <2> QED
    BY <2>1, NoClaimStep DEF LinkInv, Tick
<1> QED
  BY <1>1, <1>2, <1>3

LEMMA NextLinkInv ==
    ASSUME LinkInv, [Next]_vars
    PROVE  LinkInv' /\ (TableExclusive => TableExclusive')
<1>1. TypeOK'
  BY NextType DEF LinkInv
<1>2. CASE UNCHANGED vars
  BY <1>2 DEF LinkInv, vars, TypeOK, ReqsSane, FreshRows, TableExclusive, ReservationsDisjoint,
              HoldsDisjoint, HoldsRespected, HoldConsumedOnce, Blocking, Live
<1>3. CASE Next
  BY <1>1, <1>3, TickStep, HoldStep, CreateStep, NextReservationStep DEF Next, LinkInv
<1> QED
  BY <1>2, <1>3

LEMMA NextIInv == IInv /\ [Next]_vars => IInv'
BY NextLinkInv DEF IInv

THEOREM InvariantHolds == Spec => []IInv
BY InitIInv, NextIInv, PTL DEF Spec

\* No table is promised twice, for every floor plan and every number of
\* concurrent callers, although createReservation decides with a clock, a hold
\* and a table it read before it was granted the restaurant's lock.
THEOREM TablesExclusive == Spec => []TableExclusive
<1>1. IInv => TableExclusive
  BY DEF IInv, LinkInv
<1> QED
  BY <1>1, InvariantHolds, PTL

\* Every hold is spent at most once, however confirmations, expiry jobs and
\* sweeps interleave.
THEOREM HoldsConsumedOnce == Spec => []HoldConsumedOnce
<1>1. IInv => HoldConsumedOnce
  BY DEF IInv, LinkInv
<1> QED
  BY <1>1, InvariantHolds, PTL

(***************************************************************************)
(* What every step makes of each row.  A reservation is only written in a  *)
(* way that puts it on a table that takes it (or leaves party and table    *)
(* alone), keeps its two columns in agreement and, without a floor plan,   *)
(* keeps it apart from the other bookings.                                 *)
(***************************************************************************)
RowFits(v) ==
    v.state \in ActiveStates /\ v.table # NoTable => FitsParty(v.table, v.party)

RowAgrees(v) ==
    /\ v.state \in ReservationStatus => v.status = v.state
    /\ v.state = "HONORED" => v.status = "SEATED"
    /\ v.state \in {"PENDING", "FAILED", "EXPIRED"} => v.status = "CONFIRMED"

RowAlone(r, v) ==
    Table = {} /\ Blocking(v) /\ v.hold # NoRow =>
        \A s \in Id \ {r} : Blocking(resvs[s]) /\ resvs[s].hold # NoRow =>
            ~Overlap(resvs[s].slot, v.slot)

FitsOrKept(r, v) ==
    RowFits(v) \/ /\ resvs[r].state \in ActiveStates
                  /\ v.table = resvs[r].table /\ v.party = resvs[r].party

\* Without a floor plan nothing allocates a table, so no hold is ever ACTIVE and
\* every call that takes capacity goes through SlotFreeOfClaims.
NoPlanNoHold ==
    Table = {} =>
        /\ \A h \in Id : holds[h].status # "ACTIVE"
        /\ \A c \in Client : reqs[c].hold = NoRow

Lawful(r, v) ==
    /\ FitsOrKept(r, v)
    /\ RowAgrees(resvs[r]) => RowAgrees(v)
    /\ NoPlanNoHold /\ RowAlone(r, resvs[r]) => RowAlone(r, v)
    /\ resvs[r].state \notin ActiveStates \cup {"NONE"} => v.state = resvs[r].state
    /\ v.state # "NONE"

RowInv == IInv /\ TableFits /\ StatusAgrees /\ NoPlanNoHold /\ NoPlanExclusive

LEMMA RowFacts ==
    ASSUME RowInv, NEW r \in Id
    PROVE  RowFits(resvs[r]) /\ RowAgrees(resvs[r]) /\ RowAlone(r, resvs[r])
BY DEF RowInv, TableFits, StatusAgrees, NoPlanExclusive, RowFits, RowAgrees, RowAlone

LEMMA RowType ==
    ASSUME LinkInv, NEW r \in Id
    PROVE  resvs[r] \in Reservation
BY DEF LinkInv, TypeOK

\* The writers of reservations touch nothing else but the row counter.
LEMMA ReservationFrame == NextReservation => UNCHANGED <<clock, holds, reqs>>
<1> SUFFICES ASSUME NEW at \in TxStart,
        \/ \E slot \in Slot, party \in Party : CreateAllocated(slot, party, at)
        \/ \E t \in Table, party \in Party : CreateWalkIn(t, party, at)
        \/ \E r \in Id : AllocateTable(r, at)
        \/ \E r \in Id, slot \in Slot, party \in Party : ModifyReservation(r, slot, party, at)
        \/ \E r \in Id, party \in Party : UpdatePartySize(r, party, at)
        \/ \E r \in Id, to \in Target : Transition(r, to, at)
    PROVE  UNCHANGED <<clock, holds, reqs>>
  BY DEF NextReservation
<1> QED
  BY DEF CreateAllocated, CreateWalkIn, InsertReservation, AllocateTable, ModifyReservation,
         UpdatePartySize, Transition

LEMMA InsertLawful ==
    ASSUME LinkInv, NEW state \in {"CONFIRMED", "SEATED"}, NEW t \in Table, NEW slot, NEW party,
           FitsParty(t, party), InsertReservation(state, t, slot, party)
    PROVE  \E r \in Id, v \in [state : {state}, status : {state}, table : {t}, slot : {slot},
                               party : {party}, hold : {NoRow}, test : {FALSE}] :
               resvs' = [resvs EXCEPT ![r] = v] /\ Lawful(r, v)
<1> DEFINE v == [state |-> state, status |-> state, table |-> t, slot |-> slot,
                 party |-> party, hold |-> NoRow, test |-> FALSE]
<1>1. NewId \in Id /\ resvs[NewId].state = "NONE"
  BY NewIdFacts DEF InsertReservation, LinkInv, FreshRows
<1>2. Lawful(NewId, v)
  BY <1>1 DEF Lawful, FitsOrKept, RowFits, RowAgrees, RowAlone, ReservationStatus
<1>3. resvs' = [resvs EXCEPT ![NewId] = v]
  BY DEF InsertReservation
<1>4. v \in [state : {state}, status : {state}, table : {t}, slot : {slot},
             party : {party}, hold : {NoRow}, test : {FALSE}]
  OBVIOUS
<1> HIDE DEF v
<1> QED
  BY <1>1, <1>2, <1>3, <1>4

LEMMA ReservationLawful ==
    ASSUME LinkInv, NextReservation
    PROVE  \E r \in Id : \E v : resvs' = [resvs EXCEPT ![r] = v] /\ Lawful(r, v)
<1> DEFINE Goal == \E r \in Id : \E v : resvs' = [resvs EXCEPT ![r] = v] /\ Lawful(r, v)
<1>1. ASSUME NEW at \in TxStart, NEW slot \in Slot, NEW party \in Party,
             CreateAllocated(slot, party, at)
      PROVE  Goal
  BY <1>1, AllocateFree, InsertLawful DEF CreateAllocated
<1>2. ASSUME NEW at \in TxStart, NEW t \in Table, NEW party \in Party,
             CreateWalkIn(t, party, at)
      PROVE  Goal
  BY <1>2, InsertLawful DEF CreateWalkIn, assertTableAvailableForSeating
<1>3. ASSUME NEW at \in TxStart, NEW r \in Id, AllocateTable(r, at)
      PROVE  Goal
  <2> DEFINE t == allocate(resvs[r].party, resvs[r].slot, at, r)
             v == [resvs[r] EXCEPT !.table = t]
  <2>1. /\ v.state = resvs[r].state /\ v.status = resvs[r].status /\ v.table = t
        /\ v.slot = resvs[r].slot /\ v.party = resvs[r].party
        /\ v.hold = resvs[r].hold /\ v.test = resvs[r].test
    BY RowType DEF Reservation
  <2>2. t # NoTable => FitsParty(t, resvs[r].party)
    BY AllocateFree
  <2>3. resvs' = [resvs EXCEPT ![r] = v]
    BY <1>3 DEF AllocateTable
  <2>4. RowAlone(r, resvs[r]) => RowAlone(r, v)
    <3>1. Blocking(v) <=> Blocking(resvs[r])
      BY <2>1 DEF Blocking
    <3> QED
      BY <2>1, <3>1 DEF RowAlone
  <2>5. (RowAgrees(resvs[r]) => RowAgrees(v)) /\ RowFits(v)
    BY <2>1, <2>2 DEF RowAgrees, RowFits
  <2>6. v.state # "NONE"
    BY <1>3, <2>1 DEF AllocateTable
  <2> HIDE DEF t, v
  <2> QED
    BY <2>1, <2>3, <2>4, <2>5, <2>6 DEF Lawful, FitsOrKept
<1>4. ASSUME NEW at \in TxStart, NEW r \in Id, NEW slot \in Slot, NEW party \in Party,
             ModifyReservation(r, slot, party, at)
      PROVE  Goal
  <2> DEFINE cur == resvs[r]
             t == IF cur.table = NoTable THEN NoTable ELSE allocate(party, slot, at, r)
             v == [cur EXCEPT !.slot = slot, !.party = party, !.table = t]
  <2>1. /\ v.state = cur.state /\ v.status = cur.status /\ v.table = t /\ v.slot = slot
        /\ v.party = party /\ v.hold = cur.hold /\ v.test = cur.test
    BY RowType DEF Reservation
  <2>2. t # NoTable => FitsParty(t, party)
    BY AllocateFree
  <2>3. Table = {} => SlotFreeOfClaims(slot, clock, r, NoRow)
    BY <1>4, RowType DEF ModifyReservation, Reservation
  <2>4. RowAlone(r, v)
    BY <2>1, <2>3, OverlapSymmetric DEF RowAlone, SlotFreeOfClaims
  <2>5. resvs' = [resvs EXCEPT ![r] = v] /\ v.state \in {"PENDING", "CONFIRMED"}
    BY <1>4, <2>1 DEF ModifyReservation
  <2>6. (RowAgrees(resvs[r]) => RowAgrees(v)) /\ RowFits(v)
    BY <2>1, <2>2 DEF RowAgrees, RowFits
  <2> HIDE DEF t, v
  <2> QED
    BY <2>1, <2>4, <2>5, <2>6 DEF Lawful, FitsOrKept
<1>5. ASSUME NEW at \in TxStart, NEW r \in Id, NEW party \in Party,
             UpdatePartySize(r, party, at)
      PROVE  Goal
  <2> DEFINE cur == resvs[r]
             t == IF cur.state = "SEATED" \/ Table = {} THEN cur.table
                  ELSE allocate(party, cur.slot, at, r)
             v == [cur EXCEPT !.party = party, !.table = t]
  <2>1. /\ v.state = cur.state /\ v.status = cur.status /\ v.table = t /\ v.slot = cur.slot
        /\ v.party = party /\ v.hold = cur.hold /\ v.test = cur.test
    BY RowType DEF Reservation
  <2>2. t # NoTable => FitsParty(t, party)
    <3>1. CASE cur.state = "SEATED"
      BY <1>5, <3>1 DEF UpdatePartySize, assertTableAvailableForSeating
    <3>2. CASE cur.state # "SEATED"
      BY <3>2, RowType, AllocateFree DEF Reservation
    <3> QED
      BY <3>1, <3>2
  <2>3. resvs' = [resvs EXCEPT ![r] = v]
    BY <1>5 DEF UpdatePartySize
  <2>4. RowAlone(r, resvs[r]) => RowAlone(r, v)
    <3>1. Blocking(v) <=> Blocking(resvs[r])
      BY <2>1 DEF Blocking
    <3> QED
      BY <2>1, <3>1 DEF RowAlone
  <2>5. (RowAgrees(resvs[r]) => RowAgrees(v)) /\ RowFits(v)
    BY <2>1, <2>2 DEF RowAgrees, RowFits
  <2>6. v.state # "NONE"
    BY <1>5, <2>1 DEF UpdatePartySize, ActiveStates
  <2> HIDE DEF t, v
  <2> QED
    BY <2>1, <2>3, <2>4, <2>5, <2>6 DEF Lawful, FitsOrKept
<1>6. ASSUME NEW at \in TxStart, NEW r \in Id, NEW to \in Target, Transition(r, to, at)
      PROVE  Goal
  <2> DEFINE cur == resvs[r]
             v == [cur EXCEPT !.state = to, !.status = TransitionStatus(to, cur.status)]
  <2>1. /\ v.state = to /\ v.status = TransitionStatus(to, cur.status) /\ v.table = cur.table
        /\ v.slot = cur.slot /\ v.party = cur.party /\ v.hold = cur.hold /\ v.test = cur.test
    BY RowType DEF Reservation
  <2>2. resvs' = [resvs EXCEPT ![r] = v] /\ cur.state # "NONE" /\ to \in ValidTransitions[cur.state]
    BY <1>6 DEF Transition
  <2>3. cur.state \in ReservationStates
    BY <2>2, RowType DEF Reservation
  <2>4. /\ cur.state \in ActiveStates
        /\ to = "SEATED" => cur.state = "CONFIRMED"
        /\ to = "HONORED" => cur.state = "SEATED"
        /\ to \in {"FAILED", "EXPIRED"} => cur.state \in {"PENDING", "CONFIRMED"}
        /\ to # "PENDING"
    BY <2>2, <2>3 DEF ValidTransitions, ActiveStates, ReservationStates
  <2>5. RowAgrees(cur) => RowAgrees(v)
    BY <2>1, <2>4 DEF RowAgrees, TransitionStatus, ReservationStatus
  <2>6. RowAlone(r, cur) => RowAlone(r, v)
    <3>1. Blocking(v) => Blocking(cur)
      BY <2>1, <2>4 DEF Blocking
    <3> QED
      BY <2>1, <3>1 DEF RowAlone
  <2>7. v.state # "NONE"
    BY <2>1, <2>2, <2>3 DEF ValidTransitions, ReservationStates, ActiveStates
  <2> HIDE DEF v
  <2> QED
    BY <2>1, <2>2, <2>4, <2>5, <2>6, <2>7 DEF Lawful, FitsOrKept
<1> QED
  BY <1>1, <1>2, <1>3, <1>4, <1>5, <1>6 DEF NextReservation

LEMMA CommitLawful ==
    ASSUME LinkInv, NEW c \in Client, CommitReservation(c)
    PROVE  \E r \in Id : \E v : resvs' = [resvs EXCEPT ![r] = v] /\ Lawful(r, v)
<1> DEFINE q == reqs[c]
           v == [state |-> InitialState(q), status |-> "CONFIRMED", table |-> TableOf(q),
                 slot |-> q.slot, party |-> q.party, hold |-> ConsumedHold(q),
                 test |-> q.mode = "test"]
<1>1. NewId \in Id /\ resvs[NewId].state = "NONE"
  BY NewIdFacts DEF CommitReservation, LinkInv, FreshRows
<1>2. resvs' = [resvs EXCEPT ![NewId] = v] /\ CapacityGranted(q)
  BY DEF CommitReservation
<1>3. RowFits(v)
  <2>1. CASE Overbooked(q)
    BY <2>1 DEF Overbooked, RowFits, LinkInv, ReqsSane, TableOf
  <2>2. CASE ~Overbooked(q)
    BY <1>2, <2>2 DEF CapacityGranted, TableStillFree, RowFits
  <2> QED
    BY <2>1, <2>2
<1>4. RowAgrees(v)
  BY DEF RowAgrees, InitialState, ReservationStatus
<1>5. NoPlanNoHold => RowAlone(NewId, v)
  <2> SUFFICES ASSUME NoPlanNoHold, Table = {}, v.hold # NoRow PROVE RowAlone(NewId, v)
    BY DEF RowAlone
  <2>1. q.hold = NoRow
    BY DEF NoPlanNoHold
  <2>2. SlotFreeOfClaims(q.slot, q.at, NoRow, q.hold)
    BY <1>2, <2>1 DEF CapacityGranted, ConsumedHold
  <2> QED
    BY <2>2, IdFacts DEF SlotFreeOfClaims, RowAlone
<1>6. v.state # "NONE"
  BY DEF InitialState
<1> HIDE DEF v
<1> QED
  BY <1>1, <1>2, <1>3, <1>4, <1>5, <1>6 DEF Lawful, FitsOrKept

\* Every step writes at most one reservation, and lawfully.
LEMMA StepLawful ==
    ASSUME LinkInv, [Next]_vars
    PROVE  \/ UNCHANGED resvs
           \/ \E r \in Id : \E v : resvs' = [resvs EXCEPT ![r] = v] /\ Lawful(r, v)
<1>1. CASE UNCHANGED vars \/ Tick
  BY <1>1 DEF vars, Tick
<1>2. CASE NextHold
  BY <1>2 DEF NextHold, CreateHold, CreateHoldOn, InsertHold, ExpireOne, ExpireOverdue
<1>3. CASE NextCreate
  BY <1>3, CommitLawful DEF NextCreate, BeginReservation, RefuseReservation
<1> QED
  BY <1>1, <1>2, <1>3, ReservationLawful DEF Next

\* What a step makes of each hold: a row that did not exist is created consumed or
\* on a table of the floor plan, and an ACTIVE hold ends where it was.
LEMMA HoldWritten ==
    ASSUME LinkInv, [Next]_vars, NEW h \in Id
    PROVE  \/ holds'[h] = holds[h]
           \/ /\ holds[h].status = "NONE"
              /\ \/ holds'[h].status = "CONSUMED"
                 \/ holds'[h].status = "ACTIVE" /\ holds'[h].table \in Table
           \/ /\ holds[h].status = "ACTIVE" /\ holds'[h].status \in {"CONSUMED", "EXPIRED"}
              /\ holds'[h].table = holds[h].table /\ holds'[h].slot = holds[h].slot
<1> DEFINE Created == /\ holds[h].status = "NONE"
                      /\ \/ holds'[h].status = "CONSUMED"
                         \/ holds'[h].status = "ACTIVE" /\ holds'[h].table \in Table
           Ended == /\ holds[h].status = "ACTIVE" /\ holds'[h].status \in {"CONSUMED", "EXPIRED"}
                    /\ holds'[h].table = holds[h].table /\ holds'[h].slot = holds[h].slot
<1> USE DEF LinkInv
<1>1. CASE UNCHANGED holds
  BY <1>1
<1>2. ASSUME NEW slot \in Slot, NEW party \in Party, NEW at \in TxStart, NEW t \in Table,
             InsertHold(t, slot, party, at)
      PROVE  holds'[h] = holds[h] \/ Created
  BY <1>2, NewIdFacts DEF InsertHold, TypeOK, FreshRows
<1>3. CASE NextHold
  <2>1. ASSUME NEW g \in Id, ExpireOne(g)
        PROVE  holds'[h] = holds[h] \/ Ended
    BY <2>1 DEF ExpireOne, Overdue, TypeOK, Hold
  <2>2. ASSUME ExpireOverdue
        PROVE  holds'[h] = holds[h] \/ Ended
    BY <2>2 DEF ExpireOverdue, Overdue, TypeOK, Hold
  <2>3. ASSUME NEW slot \in Slot, NEW party \in Party, NEW at \in TxStart,
               CreateHold(slot, party, at)
        PROVE  holds'[h] = holds[h] \/ Created
    BY <1>2, <2>3, AllocateFree DEF CreateHold
  <2>4. ASSUME NEW slot \in Slot, NEW party \in Party, NEW at \in TxStart, NEW t \in Table,
               CreateHoldOn(t, slot, party, at)
        PROVE  holds'[h] = holds[h] \/ Created
    BY <1>2, <2>4 DEF CreateHoldOn
  <2> HIDE DEF Created, Ended
  <2>5. holds'[h] = holds[h] \/ Created \/ Ended
    BY <1>3, <2>1, <2>2, <2>3, <2>4 DEF NextHold
  <2> QED
    BY <2>5 DEF Created, Ended
<1>4. ASSUME NEW c \in Client, CommitReservation(c)
      PROVE  holds'[h] = holds[h] \/ Created \/ Ended
  <2> DEFINE q == reqs[c]
  <2>1. holds' = HoldsAfter(q) /\ q.hold \in Id \cup {NoRow}
    BY <1>4 DEF CommitReservation, TypeOK, Request
  <2>2. CASE q.hold # NoRow
    <3>1. q.hold \in Id /\ holds[q.hold].status = "ACTIVE"
      BY <1>4, <2>1, <2>2 DEF CommitReservation, HoldStillConsumable, Live
    <3>2. holds' = [holds EXCEPT ![q.hold] = [@ EXCEPT !.status = "CONSUMED", !.resv = NewId]]
      BY <2>1, <2>2 DEF HoldsAfter
    <3> QED
      BY <2>2, <3>1, <3>2 DEF TypeOK, Hold
  <2>3. CASE q.hold = NoRow
    <3>1. NewId \in Id /\ holds[NewId].status = "NONE"
      BY <1>4, NewIdFacts DEF CommitReservation, FreshRows
    <3> QED
      BY <2>1, <2>3, <3>1 DEF HoldsAfter, TypeOK, Hold
  <2> QED
    BY <2>2, <2>3
<1>5. CASE NextCreate
  <2>1. ASSUME NEW c \in Client, NEW mode \in Mode, BeginReservation(c, mode)
        PROVE  UNCHANGED holds
    BY <2>1 DEF BeginReservation
  <2>2. ASSUME NEW c \in Client, RefuseReservation(c)
        PROVE  UNCHANGED holds
    BY <2>2 DEF RefuseReservation
  <2> QED
    BY <1>1, <1>4, <1>5, <2>1, <2>2 DEF NextCreate
<1>6. CASE NextReservation
  BY <1>1, <1>6, ReservationFrame
<1> QED
  BY <1>1, <1>3, <1>5, <1>6 DEF Next, Tick, vars

\* Only a hold that is ACTIVE, or a row that did not exist, is written; and
\* without a floor plan none becomes ACTIVE.
LEMMA StepHolds ==
    ASSUME LinkInv, [Next]_vars, NEW h \in Id
    PROVE  \/ holds'[h] = holds[h]
           \/ /\ holds[h].status \in {"NONE", "ACTIVE"}
              /\ Table = {} => holds'[h].status # "ACTIVE"
BY HoldWritten

\* Without a floor plan no call ever carries a hold.
LEMMA NoPlanStep ==
    ASSUME LinkInv, NoPlanNoHold, [Next]_vars
    PROVE  NoPlanNoHold'
<1> SUFFICES ASSUME Table = {} PROVE NoPlanNoHold'
  BY DEF NoPlanNoHold
<1>1. \A h \in Id : holds'[h].status # "ACTIVE"
  BY StepHolds DEF NoPlanNoHold
<1>2. \A c \in Client : reqs'[c].hold = NoRow
  <2>1. ASSUME NEW c \in Client, NEW mode \in Mode, BeginReservation(c, mode)
        PROVE  \E q : reqs' = [reqs EXCEPT ![c] = q] /\ q.hold = NoRow
    <3>1. mode \notin {"hold", "test"}
      BY <2>1 DEF BeginReservation, NoPlanNoHold, Live
    <3> DEFINE q(slot, party) == [mode |-> mode, hold |-> NoRow, table |-> NoTable,
                                  slot |-> slot, party |-> party, at |-> clock]
    <3>2. PICK slot \in Slot, party \in Party : reqs' = [reqs EXCEPT ![c] = q(slot, party)]
      BY <2>1, <3>1 DEF BeginReservation
    <3>3. q(slot, party).hold = NoRow
      OBVIOUS
    <3> HIDE DEF q
    <3> QED
      BY <3>2, <3>3
  <2>2. ASSUME NEW c \in Client, CommitReservation(c) \/ RefuseReservation(c)
        PROVE  \E q : reqs' = [reqs EXCEPT ![c] = q] /\ q.hold = NoRow
    <3>1. reqs' = [reqs EXCEPT ![c] = Idle] /\ Idle.hold = NoRow
      BY <2>2 DEF CommitReservation, RefuseReservation, Idle
    <3> QED
      BY <3>1
  <2>3. ASSUME NEW c \in Client, NEW q, reqs' = [reqs EXCEPT ![c] = q], q.hold = NoRow
        PROVE  \A d \in Client : reqs'[d].hold = NoRow
    BY <2>3 DEF NoPlanNoHold, LinkInv, TypeOK
  <2>4. CASE NextCreate
    BY <2>1, <2>2, <2>3, <2>4 DEF NextCreate
  <2>5. CASE UNCHANGED reqs
    BY <2>5 DEF NoPlanNoHold
  <2>6. CASE NextHold
    <3>1. UNCHANGED reqs
      BY <2>6 DEF NextHold, CreateHold, CreateHoldOn, InsertHold, ExpireOne, ExpireOverdue
    <3> QED
      BY <2>5, <3>1
  <2>7. CASE NextReservation
    BY <2>5, <2>7, ReservationFrame
  <2> QED
    BY <2>4, <2>5, <2>6, <2>7 DEF Next, Tick, vars
<1> QED
  BY <1>1, <1>2 DEF NoPlanNoHold

LEMMA InitRowInv == Init => RowInv
BY InitIInv DEF Init, RowInv, TableFits, StatusAgrees, NoPlanNoHold, NoPlanExclusive, Blocking,
                NoHold, NoReservation, Idle, ActiveStates, ReservationStatus

\* One reservation is written lawfully.
LEMMA LawfulStep ==
    ASSUME RowInv, IInv', NoPlanNoHold',
           NEW r \in Id, NEW v, resvs' = [resvs EXCEPT ![r] = v], Lawful(r, v)
    PROVE  RowInv'
<1>1. \A s \in Id : resvs'[s] = IF s = r THEN v ELSE resvs[s]
  BY DEF RowInv, IInv, LinkInv, TypeOK
<1>2. RowFits(v) /\ RowAgrees(v) /\ RowAlone(r, v)
  BY RowFacts DEF RowInv, Lawful, FitsOrKept, RowFits
<1>3. TableFits' /\ StatusAgrees'
  BY <1>1, <1>2 DEF RowInv, RowFits, RowAgrees, TableFits, StatusAgrees
<1>4. NoPlanExclusive'
  BY <1>1, <1>2, OverlapSymmetric DEF RowInv, RowAlone, NoPlanExclusive, Blocking
<1> QED
  BY <1>3, <1>4 DEF RowInv

LEMMA NextRowInv == RowInv /\ [Next]_vars => RowInv'
<1> SUFFICES ASSUME RowInv, [Next]_vars PROVE RowInv'
  OBVIOUS
<1>1. IInv' /\ NoPlanNoHold'
  BY NextIInv, NoPlanStep DEF RowInv, IInv
<1>2. CASE UNCHANGED resvs
  BY <1>1, <1>2 DEF RowInv, TableFits, StatusAgrees, NoPlanExclusive, Blocking
<1> QED
  BY <1>1, <1>2, LawfulStep, StepLawful DEF RowInv, IInv

THEOREM RowInvariantHolds == Spec => []RowInv
BY InitRowInv, NextRowInv, PTL DEF Spec

\* No party is ever on a table that does not take it, whichever of creation,
\* allocation, modification, change of size or seating put it there.
THEOREM TablesFit == Spec => []TableFits
<1>1. RowInv => TableFits
  BY DEF RowInv
<1> QED
  BY <1>1, RowInvariantHolds, PTL

\* A restaurant without a floor plan takes one checked booking at a time, for
\* every set of slots and callers, whatever is moved or resized.
THEOREM NoPlanTakesOne == Spec => []NoPlanExclusive
<1>1. RowInv => NoPlanExclusive
  BY DEF RowInv
<1> QED
  BY <1>1, RowInvariantHolds, PTL

\* The lifecycle state and the historical status column never contradict each
\* other, for any set of transitions asked of them.
THEOREM StatusesAgree == Spec => []StatusAgrees
<1>1. RowInv => StatusAgrees
  BY DEF RowInv
<1> QED
  BY <1>1, RowInvariantHolds, PTL

\* No step brings a hold or a reservation back to life.
LEMMA StepRevivesNothing ==
    ASSUME LinkInv, [Next]_vars, NEW i \in Id
    PROVE  /\ holds[i].status \notin {"NONE", "ACTIVE"} => holds'[i] = holds[i]
           /\ resvs[i].state \notin ActiveStates \cup {"NONE"} =>
                  resvs'[i].state = resvs[i].state
<1>1. holds[i].status \notin {"NONE", "ACTIVE"} => holds'[i] = holds[i]
  BY StepHolds
<1>2. \A r \in Id : \A v : resvs' = [resvs EXCEPT ![r] = v] /\ Lawful(r, v) =>
          (resvs[i].state \notin ActiveStates \cup {"NONE"} => resvs'[i].state = resvs[i].state)
  BY DEF Lawful, LinkInv, TypeOK
<1> QED
  BY <1>1, <1>2, StepLawful

\* A hold that was consumed or expired and a reservation in a terminal state
\* never come back to life.
THEOREM NothingRevived == Spec => NeverRevived
<1>1. IInv /\ [Next]_vars =>
        [\A i \in Id :
            /\ holds[i].status \notin {"NONE", "ACTIVE"} => holds'[i] = holds[i]
            /\ resvs[i].state \notin ActiveStates \cup {"NONE"} =>
                   resvs'[i].state = resvs[i].state]_vars
  BY StepRevivesNothing DEF IInv
<1> QED
  BY <1>1, InvariantHolds, PTL DEF Spec, NeverRevived

(***************************************************************************)
(* The booking core implements Ledger.  Beyond tables being exclusive this *)
(* needs to know what a confirmation found before its lock: the hold it    *)
(* carries was not moved since, and the table it carries is the hold's own *)
(* (CallsCarry), because a live hold's table is free but for the hold      *)
(* itself, and every live hold is on a table (HoldsPlaced).                *)
(***************************************************************************)
HoldsPlaced == \A h \in Id : holds[h].status = "ACTIVE" => holds[h].table \in Table

Carries(q) ==
    q.hold # NoRow =>
        /\ holds[q.hold].status # "NONE"
        /\ q.table = holds[q.hold].table /\ q.slot = holds[q.hold].slot

CallsCarry == \A c \in Client : Carries(reqs[c])

LedgerInv == IInv /\ HoldsPlaced /\ CallsCarry

LEMMA InitLedgerInv == Init => LedgerInv
<1> SUFFICES ASSUME Init PROVE LedgerInv
  OBVIOUS
<1>1. HoldsPlaced /\ CallsCarry
  BY DEF Init, HoldsPlaced, CallsCarry, Carries, NoHold, Idle
<1> QED
  BY <1>1, InitIInv DEF LedgerInv

\* The table of a live hold is free, but for the hold.
LEMMA LiveHoldFree ==
    ASSUME LedgerInv, NEW h \in Id, Live(holds[h], clock)
    PROVE  TableForHold(h) = holds[h].table
<1>1. holds[h].table \in Table /\ holds[h].table # NoTable
  BY TableAssumption DEF LedgerInv, HoldsPlaced, Live
<1>2. ~hasConflictingReservation(holds[h].table, holds[h].slot, NoRow)
  BY <1>1 DEF LedgerInv, IInv, TableExclusive, HoldsRespected, hasConflictingReservation
<1>3. ~hasConflictingHold(holds[h].table, holds[h].slot, clock, h)
  BY <1>1 DEF LedgerInv, IInv, TableExclusive, HoldsDisjoint, hasConflictingHold
<1> QED
  BY <1>2, <1>3 DEF TableForHold, isTableAvailable

\* What becomes of the calls in flight: at most one is started, with a live hold
\* and its table, or ended.
LEMMA CallWritten ==
    ASSUME LedgerInv, [Next]_vars, NEW d \in Client
    PROVE  \/ reqs'[d] = reqs[d]
           \/ reqs'[d].hold = NoRow
           \/ UNCHANGED holds /\ Carries(reqs'[d])
<1> DEFINE Goal == \/ reqs'[d] = reqs[d]
                   \/ reqs'[d].hold = NoRow
                   \/ UNCHANGED holds /\ Carries(reqs'[d])
<1> USE DEF LedgerInv, IInv, LinkInv
<1>1. CASE UNCHANGED reqs
  BY <1>1
<1>2. ASSUME NEW c \in Client, CommitReservation(c) \/ RefuseReservation(c)
      PROVE  Goal
  BY <1>2 DEF CommitReservation, RefuseReservation, Idle, TypeOK
<1>3. ASSUME NEW c \in Client, NEW mode \in Mode, BeginReservation(c, mode)
      PROVE  Goal
  <2>1. CASE mode \in {"hold", "test"}
    <3>1. PICK h \in Id :
              /\ Live(holds[h], clock)
              /\ reqs' = [reqs EXCEPT ![c] =
                     [mode |-> mode, hold |-> h, table |-> TableForHold(h),
                      slot |-> holds[h].slot, party |-> holds[h].party, at |-> clock]]
      BY <1>3, <2>1 DEF BeginReservation
    <3>2. TableForHold(h) = holds[h].table /\ holds[h].status = "ACTIVE"
      BY <3>1, LiveHoldFree DEF Live
    <3> QED
      BY <1>3, <3>1, <3>2 DEF BeginReservation, Carries, TypeOK
  <2>2. CASE mode \notin {"hold", "test"}
    BY <1>3, <2>2 DEF BeginReservation, TypeOK
  <2> QED
    BY <2>1, <2>2
<1>4. CASE NextHold
  BY <1>1, <1>4 DEF NextHold, CreateHold, CreateHoldOn, InsertHold, ExpireOne, ExpireOverdue
<1>5. CASE NextReservation
  BY <1>1, <1>5, ReservationFrame
<1> HIDE DEF Goal, LedgerInv, IInv, LinkInv
<1>6. CASE NextCreate
  BY <1>2, <1>3, <1>6 DEF NextCreate, Goal
<1>7. CASE UNCHANGED vars \/ Tick
  BY <1>1, <1>7 DEF vars, Tick, Goal
<1>8. Goal
  BY <1>4, <1>5, <1>6, <1>7 DEF Next, Goal
<1> QED
  BY <1>8 DEF Goal

LEMMA NextLedgerInv == LedgerInv /\ [Next]_vars => LedgerInv'
<1> SUFFICES ASSUME LedgerInv, [Next]_vars PROVE LedgerInv'
  OBVIOUS
<1>1. IInv' /\ LinkInv
  BY NextIInv DEF LedgerInv, IInv
<1>2. HoldsPlaced'
  BY <1>1, HoldWritten DEF LedgerInv, HoldsPlaced
<1>3. ASSUME NEW d \in Client
      PROVE  reqs'[d].hold # NoRow =>
                 /\ holds'[reqs'[d].hold].status # "NONE"
                 /\ reqs'[d].table = holds'[reqs'[d].hold].table
                 /\ reqs'[d].slot = holds'[reqs'[d].hold].slot
  <2>1. reqs[d].hold \in Id \cup {NoRow} /\ Carries(reqs[d])
    BY <1>1 DEF LedgerInv, LinkInv, TypeOK, Request, CallsCarry
  <2>2. CASE reqs'[d] = reqs[d]
    <3>1. CASE reqs[d].hold = NoRow
      BY <2>2, <3>1 DEF Carries
    <3>2. CASE reqs[d].hold # NoRow
      <4> DEFINE h == reqs[d].hold
      <4>1. /\ holds'[h].status # "NONE"
            /\ holds'[h].table = holds[h].table /\ holds'[h].slot = holds[h].slot
        BY <1>1, <2>1, <3>2, HoldWritten DEF Carries
      <4> QED
        BY <2>1, <2>2, <3>2, <4>1 DEF Carries
    <3> QED
      BY <3>1, <3>2
  <2>3. CASE reqs'[d].hold = NoRow
    BY <2>3 DEF Carries
  <2>4. CASE UNCHANGED holds /\ Carries(reqs'[d])
    BY <2>4 DEF Carries
  <2> QED
    BY <2>2, <2>3, <2>4, CallWritten
<1>4. CallsCarry'
  BY <1>3 DEF CallsCarry, Carries
<1> QED
  BY <1>1, <1>2, <1>4 DEF LedgerInv

(***************************************************************************)
(* The steps of the ledger.                                                *)
(***************************************************************************)
LEMMA LedgerValues ==
    /\ DOMAIN lent = Id /\ DOMAIN booked = Id
    /\ lent = [h \in Id |-> lent[h]] /\ booked = [r \in Id |-> booked[r]]
    /\ \A h \in Id : lent[h] = IF Live(holds[h], clock) THEN ClaimOf(holds[h]) ELSE {}
    /\ \A r \in Id : booked[r] = IF Blocking(resvs[r]) THEN ClaimOf(resvs[r]) ELSE {}
BY DEF lent, booked

LEMMA LedgerValuesNext ==
    /\ DOMAIN lent' = Id /\ DOMAIN booked' = Id
    /\ lent' = [h \in Id |-> lent'[h]] /\ booked' = [r \in Id |-> booked'[r]]
    /\ \A h \in Id : lent'[h] = IF Live(holds'[h], clock') THEN ClaimOf(holds'[h]) ELSE {}
    /\ \A r \in Id : booked'[r] = IF Blocking(resvs'[r]) THEN ClaimOf(resvs'[r]) ELSE {}
BY DEF lent, booked, Live, Blocking, ClaimOf

\* Rows that are unchanged book what they booked.
LEMMA SameBookings ==
    ASSUME NEW r \in Id, resvs'[r] = resvs[r]
    PROVE  booked'[r] = booked[r]
BY LedgerValues, LedgerValuesNext

\* As long as time does not pass, holds that are unchanged lend what they lent.
LEMMA SameLoans ==
    ASSUME clock' = clock, NEW h \in Id, holds'[h] = holds[h]
    PROVE  lent'[h] = lent[h]
BY LedgerValues, LedgerValuesNext

LEMMA NoLoan ==
    ASSUME NEW h \in Id
    PROVE  /\ ~Live(holds[h], clock) => lent[h] = {}
           /\ ~Live(holds'[h], clock') => lent'[h] = {}
BY LedgerValues, LedgerValuesNext

\* Holds that end lend nothing more.
LEMMA LapseStep ==
    ASSUME UNCHANGED resvs, \A h \in Id : lent'[h] \in {lent[h], {}}
    PROVE  \E S \in SUBSET Id : Ledger!Lapse(S)
<1>1. booked' = booked
  BY LedgerValues, LedgerValuesNext, SameBookings
<1>2. PICK S \in SUBSET Id : S = {h \in Id : lent'[h] = {}}
  OBVIOUS
<1>3. lent' = [h \in Id |-> IF h \in S THEN {} ELSE lent[h]]
  BY <1>2, LedgerValuesNext
<1> QED
  BY <1>1, <1>3 DEF Ledger!Lapse

\* A live hold's claim that was not there before meets no other.
LEMMA LendStep ==
    ASSUME TableExclusive', UNCHANGED resvs, NEW h \in Id, lent[h] = {},
           \A g \in Id \ {h} : lent'[g] = lent[g]
    PROVE  Ledger!Lend(h)
<1>1. booked' = booked
  BY LedgerValues, LedgerValuesNext, SameBookings
<1>2. lent' = [lent EXCEPT ![h] = lent'[h]]
  BY LedgerValues, LedgerValuesNext
<1>3. Ledger!Granted(lent'[h], Id, Id)
  <2>1. \A c, d \in lent'[h] : c = d
    BY LedgerValuesNext DEF ClaimOf
  <2>2. ASSUME NEW c \in lent'[h], NEW g \in Id, NEW d \in lent[g]
        PROVE  ~Ledger!Clash(c, d)
    <3>1. g # h /\ d \in lent'[g]
      BY <2>2
    <3> QED
      BY <2>2, <3>1, LedgerValuesNext
         DEF TableExclusive, HoldsDisjoint, Ledger!Clash, ClaimOf, Live, Overlap
  <2>3. ASSUME NEW c \in lent'[h], NEW r \in Id, NEW d \in booked[r]
        PROVE  ~Ledger!Clash(c, d)
    BY <1>1, <2>3, LedgerValuesNext
       DEF TableExclusive, HoldsRespected, Ledger!Clash, ClaimOf, Live, Blocking, Overlap
  <2> QED
    BY <2>1, <2>2, <2>3 DEF Ledger!Granted
<1> QED
  BY <1>1, <1>2, <1>3 DEF Ledger!Lend

\* One reservation is written; what it books meets no other claim.
LEMMA BookStep ==
    ASSUME TableExclusive', NEW r \in Id,
           \A s \in Id \ {r} : resvs'[s] = resvs[s],
           \A h \in Id : lent'[h] = lent[h]
    PROVE  Ledger!Book(r)
<1>1. lent' = lent
  BY LedgerValues, LedgerValuesNext
<1>2. booked' = [booked EXCEPT ![r] = booked'[r]]
  BY LedgerValues, LedgerValuesNext, SameBookings
<1>3. Ledger!Granted(booked'[r], Id, Id \ {r})
  <2>1. \A c, d \in booked'[r] : c = d
    BY LedgerValuesNext DEF ClaimOf
  <2>2. ASSUME NEW c \in booked'[r], NEW h \in Id, NEW d \in lent[h]
        PROVE  ~Ledger!Clash(c, d)
    BY <1>1, <2>2, LedgerValuesNext
       DEF TableExclusive, HoldsRespected, Ledger!Clash, ClaimOf, Live, Blocking, Overlap
  <2>3. ASSUME NEW c \in booked'[r], NEW s \in Id \ {r}, NEW d \in booked[s]
        PROVE  ~Ledger!Clash(c, d)
    <3>1. d \in booked'[s]
      BY <2>3, SameBookings
    <3> QED
      BY <2>3, <3>1, LedgerValuesNext
         DEF TableExclusive, ReservationsDisjoint, Ledger!Clash, ClaimOf, Blocking, Overlap
  <2> QED
    BY <2>1, <2>2, <2>3 DEF Ledger!Granted
<1> QED
  BY <1>1, <1>2, <1>3 DEF Ledger!Book

\* createReservation: what was lent is passed on, or what is booked is free now.
LEMMA ConfirmStep ==
    ASSUME LedgerInv, TableExclusive', NEW c \in Client, CommitReservation(c)
    PROVE  Ledger!Next
<1> DEFINE q == reqs[c]
           new == [state |-> InitialState(q), status |-> "CONFIRMED", table |-> TableOf(q),
                   slot |-> q.slot, party |-> q.party, hold |-> ConsumedHold(q),
                   test |-> q.mode = "test"]
<1>1. /\ NewId \in Id /\ resvs[NewId].state = "NONE" /\ holds[NewId].status = "NONE"
      /\ q \in Request /\ q.at \in Nat /\ q.at <= clock /\ q.hold \in Id \cup {NoRow}
  BY NewIdFacts DEF LedgerInv, IInv, LinkInv, FreshRows, TypeOK, Request, ReqsSane, CommitReservation
<1>2. /\ resvs' = [resvs EXCEPT ![NewId] = new] /\ holds' = HoldsAfter(q) /\ clock' = clock
  BY DEF CommitReservation
<1>3. \A s \in Id : resvs'[s] = IF s = NewId THEN new ELSE resvs[s]
  BY <1>1, <1>2 DEF LedgerInv, IInv, LinkInv, TypeOK
<1>4. booked[NewId] = {} /\ clock' = clock
  BY <1>1, <1>2, LedgerValues DEF Blocking, ActiveStates
<1>5. ASSUME \A h \in Id : lent'[h] = lent[h]
      PROVE  Ledger!Next
  <2>1. Ledger!Book(NewId)
    BY <1>1, <1>3, <1>5, BookStep
  <2> QED
    BY <1>1, <2>1 DEF Ledger!Next
<1>6. CASE q.hold = NoRow
  <2>1. ASSUME NEW h \in Id
        PROVE  \/ holds'[h] = holds[h]
               \/ ~Live(holds[h], clock) /\ ~Live(holds'[h], clock)
    <3>1. \/ holds'[h] = holds[h]
          \/ holds[h].status = "NONE" /\ holds'[h].status = "CONSUMED"
          \/ holds[h].expiresAt < q.at /\ holds'[h].status = "EXPIRED"
      BY <1>1, <1>2, <1>6 DEF HoldsAfter, LedgerInv, IInv, LinkInv, TypeOK, Hold
    <3>2. holds[h].expiresAt \in Nat /\ clock \in Nat
      BY BookingAssumption DEF LedgerInv, IInv, LinkInv, TypeOK, Hold
    <3> QED
      BY <1>1, <3>1, <3>2 DEF Live
  <2>2. \A h \in Id : lent'[h] = lent[h]
    BY <1>2, <2>1, LedgerValues, LedgerValuesNext
  <2> QED
    BY <1>5, <2>2
<1>7. CASE q.hold # NoRow
  <2> DEFINE h == q.hold
  <2>1. h \in Id /\ holds[h].status = "ACTIVE" /\ holds[h].table \in Table
    BY <1>1, <1>7 DEF CommitReservation, HoldStillConsumable, Live, LedgerInv, HoldsPlaced
  <2>2. q.table = holds[h].table /\ q.slot = holds[h].slot /\ q.mode \in {"hold", "test"}
    BY <1>7 DEF LedgerInv, IInv, LinkInv, CallsCarry, Carries, ReqsSane
  <2>3. \A g \in Id : /\ g # h => holds'[g] = holds[g]
                      /\ g = h => holds'[g].status = "CONSUMED"
    BY <1>2, <1>7, <2>1 DEF HoldsAfter, LedgerInv, IInv, LinkInv, TypeOK, Hold
  <2>4. \A g \in Id : lent'[g] = IF g = h THEN {} ELSE lent[g]
    <3>1. \A g \in Id : g # h => lent'[g] = lent[g]
      BY <1>4, <2>3, SameLoans
    <3>2. lent'[h] = {}
      BY <2>1, <2>3, NoLoan DEF Live
    <3> QED
      BY <3>1, <3>2
  <2>5. CASE ~Live(holds[h], clock)
    <3>1. lent[h] = {}
      BY <2>1, <2>5, LedgerValues
    <3> QED
      BY <1>5, <2>4, <3>1
  <2>6. CASE Live(holds[h], clock) /\ q.mode = "test"
    <3>0. ~Blocking(new)
      BY <2>6 DEF Blocking
    <3> HIDE DEF new
    <3>1. booked'[NewId] = {}
      BY <1>1, <1>3, <3>0, LedgerValuesNext
    <3>2. booked' = booked
      BY <1>1, <1>3, <1>4, <3>1, LedgerValues, LedgerValuesNext, SameBookings
    <3>3. lent' = [g \in Id |-> IF g \in {h} THEN {} ELSE lent[g]]
      BY <2>4, LedgerValuesNext
    <3>4. Ledger!Lapse({h}) /\ {h} \in SUBSET Id
      BY <2>1, <3>2, <3>3 DEF Ledger!Lapse
    <3> QED
      BY <3>4 DEF Ledger!Next
  <2>7. CASE Live(holds[h], clock) /\ q.mode = "hold"
    <3>1. TableOf(q) = q.table /\ InitialState(q) \in {"PENDING", "CONFIRMED"} /\ q.table # NoTable
      BY <2>1, <2>2, <2>7, TableAssumption DEF TableOf, InitialState
    <3>2. Blocking(new) /\ ClaimOf(new) = ClaimOf(holds[h])
      BY <2>2, <2>7, <3>1 DEF Blocking, ActiveStates, ClaimOf
    <3>3. lent[h] = ClaimOf(holds[h]) /\ lent[h] # {}
      BY <2>1, <2>2, <2>7, <3>1, LedgerValues DEF ClaimOf
    <3> HIDE DEF new
    <3>4. booked'[NewId] = lent[h]
      BY <1>1, <1>3, <3>2, <3>3, LedgerValuesNext
    <3>5. booked' = [booked EXCEPT ![NewId] = lent[h]]
      BY <1>1, <1>3, <3>4, LedgerValues, LedgerValuesNext, SameBookings
    <3>6. lent' = [lent EXCEPT ![h] = {}]
      BY <2>1, <2>4, LedgerValues, LedgerValuesNext
    <3>7. Ledger!Pass(h, NewId)
      BY <1>4, <3>3, <3>5, <3>6 DEF Ledger!Pass
    <3> QED
      BY <1>1, <2>1, <3>7 DEF Ledger!Next
  <2> QED
    BY <2>2, <2>5, <2>6, <2>7
<1> QED
  BY <1>6, <1>7

\* Holds are lent on free tables and lapse.
LEMMA HoldLedgerStep ==
    ASSUME LedgerInv, TableExclusive', NextHold \/ Tick
    PROVE  Ledger!Next
<1>1. UNCHANGED resvs
  BY DEF NextHold, Tick, CreateHold, CreateHoldOn, InsertHold, ExpireOne, ExpireOverdue
<1>2. ASSUME \A h \in Id : lent'[h] \in {lent[h], {}}
      PROVE  Ledger!Next
  BY <1>1, <1>2, LapseStep DEF Ledger!Next
<1>3. ASSUME NEW slot \in Slot, NEW party \in Party, NEW at \in TxStart, NEW t \in Table,
             InsertHold(t, slot, party, at)
      PROVE  Ledger!Next
  <2>1. NewId \in Id /\ holds[NewId].status = "NONE"
    BY <1>3, NewIdFacts DEF InsertHold, LedgerInv, IInv, LinkInv, FreshRows
  <2>2. \A h \in Id \ {NewId} : holds'[h] = holds[h]
    BY <1>3 DEF InsertHold, LedgerInv, IInv, LinkInv, TypeOK
  <2>3. lent[NewId] = {} /\ \A h \in Id \ {NewId} : lent'[h] = lent[h]
    <3>1. ~Live(holds[NewId], clock) /\ clock' = clock
      BY <1>3, <2>1 DEF InsertHold, Live
    <3> QED
      BY <2>1, <2>2, <3>1, SameLoans, NoLoan
  <2>4. Ledger!Lend(NewId)
    BY <1>1, <2>1, <2>3, LendStep
  <2> QED
    BY <2>1, <2>4 DEF Ledger!Next
<1>4. ASSUME NEW slot \in Slot, NEW party \in Party, NEW at \in TxStart, CreateHold(slot, party, at)
      PROVE  Ledger!Next
  BY <1>3, <1>4, AllocateFree DEF CreateHold
<1>5. ASSUME NEW slot \in Slot, NEW party \in Party, NEW at \in TxStart, NEW t \in Table,
             CreateHoldOn(t, slot, party, at)
      PROVE  Ledger!Next
  BY <1>3, <1>5 DEF CreateHoldOn
<1>6. ASSUME UNCHANGED clock,
             \A h \in Id : holds'[h] = holds[h] \/ holds'[h].status = "EXPIRED"
      PROVE  Ledger!Next
  <2>1. \A h \in Id : lent'[h] \in {lent[h], {}}
    BY <1>6, LedgerValues, LedgerValuesNext DEF Live
  <2> QED
    BY <1>2, <2>1
<1>7. ASSUME NEW h \in Id, ExpireOne(h)
      PROVE  Ledger!Next
  BY <1>6, <1>7 DEF ExpireOne, LedgerInv, IInv, LinkInv, TypeOK, Hold
<1>8. CASE ExpireOverdue
  BY <1>6, <1>8 DEF ExpireOverdue, LedgerInv, IInv, LinkInv, TypeOK, Hold
<1>9. CASE Tick
  <2>1. \A h \in Id : Live(holds'[h], clock') => Live(holds[h], clock)
    BY <1>9, BookingAssumption DEF Tick, Live, LedgerInv, IInv, LinkInv, TypeOK, Hold
  <2>2. \A h \in Id : holds'[h] = holds[h]
    BY <1>9 DEF Tick
  <2>3. \A h \in Id : lent'[h] \in {lent[h], {}}
    BY <2>1, <2>2, LedgerValues, LedgerValuesNext
  <2> QED
    BY <1>2, <2>3
<1> QED
  BY <1>4, <1>5, <1>7, <1>8, <1>9 DEF NextHold

\* Every step of the booking core is a step of the ledger, or none.
LEMMA LedgerStep ==
    LedgerInv /\ LedgerInv' /\ [Next]_vars => [Ledger!Next]_<<lent, booked>>
<1> SUFFICES ASSUME LedgerInv, TableExclusive', [Next]_vars
             PROVE  Ledger!Next \/ UNCHANGED <<lent, booked>>
  BY DEF LedgerInv, IInv
<1>1. ASSUME UNCHANGED <<clock, holds, resvs>>
      PROVE  UNCHANGED <<lent, booked>>
  BY <1>1 DEF lent, booked, Live, Blocking, ClaimOf
<1>2. CASE NextReservation
  <2>1. UNCHANGED <<clock, holds>>
    BY <1>2, ReservationFrame
  <2>2. \A h \in Id : lent'[h] = lent[h]
    BY <2>1, LedgerValues, LedgerValuesNext
  <2>3. PICK r \in Id : \E v : resvs' = [resvs EXCEPT ![r] = v]
    BY <1>2, ReservationLawful DEF LedgerInv, IInv
  <2>4. \A s \in Id \ {r} : resvs'[s] = resvs[s]
    BY <2>3 DEF LedgerInv, IInv, LinkInv, TypeOK
  <2>5. Ledger!Book(r)
    BY <2>2, <2>4, BookStep
  <2> QED
    BY <2>5 DEF Ledger!Next
<1>3. CASE NextCreate
  <2>1. CASE \E c \in Client : CommitReservation(c)
    BY <2>1, ConfirmStep
  <2>2. CASE ~\E c \in Client : CommitReservation(c)
    BY <1>1, <1>3, <2>2 DEF NextCreate, BeginReservation, RefuseReservation
  <2> QED
    BY <2>1, <2>2
<1>4. CASE UNCHANGED vars
  BY <1>1, <1>4 DEF vars
<1> QED
  BY <1>2, <1>3, <1>4, HoldLedgerStep DEF Next

\* The booking core implements a ledger of claims, for every floor plan and any
\* number of callers: a confirmation books what was lent, if it still is, or a
\* table that is free at that moment, and no step touches another's claim.
THEOREM CoreKeepsLedger == Spec => LedgerKept
<1>1. Init => Ledger!Init
  BY DEF Init, Ledger!Init, lent, booked, Live, Blocking, ActiveStates, NoHold, NoReservation
<1> QED
  BY <1>1, InitLedgerInv, NextLedgerInv, LedgerStep, PTL DEF Spec, LedgerKept, Ledger!Spec

(***************************************************************************)
(* Moves between tables (FloorOps), which decide with a copy read before   *)
(* their transaction.  A move in flight names a row that exists and a      *)
(* table that takes the party of its copy.  That, the links between holds  *)
(* and reservations and the agreement of the two columns survive every     *)
(* move; the rest of the booking core's invariant survives as long as no   *)
(* move was written from an outdated copy.                                 *)
(***************************************************************************)
Move == [resv : Id \cup {NoRow}, table : Table \cup {NoTable}, slot : Interval, party : Nat]

MovesSound ==
    /\ moves \in [Staff -> Move]
    /\ \A u \in Staff : moves[u].resv # NoRow =>
           /\ resvs[moves[u].resv].state # "NONE"
           /\ moves[u].table \in Table /\ FitsParty(moves[u].table, moves[u].party)

FloorInv == LinkInv /\ StatusAgrees /\ MovesSound /\ (staleMove \/ RowInv)

LEMMA NoMoveType == NoMove \in Move /\ NoMove.resv = NoRow
BY SlotFacts DEF NoMove, Move

\* A row that exists goes on existing.
LEMMA RowsStay ==
    ASSUME LinkInv, [Next]_vars, NEW s \in Id, resvs[s].state # "NONE"
    PROVE  resvs'[s].state # "NONE"
<1>1. \A r \in Id : \A v : resvs' = [resvs EXCEPT ![r] = v] /\ Lawful(r, v) =>
          resvs'[s].state # "NONE"
  BY DEF Lawful, LinkInv, TypeOK
<1> QED
  BY <1>1, StepLawful

\* Every step of the booking core leaves the two columns in agreement.
LEMMA StatusStep ==
    ASSUME LinkInv, StatusAgrees, [Next]_vars
    PROVE  StatusAgrees'
<1>1. \A r \in Id : RowAgrees(resvs[r])
  BY DEF StatusAgrees, RowAgrees
<1>2. ASSUME NEW r \in Id, NEW v, resvs' = [resvs EXCEPT ![r] = v], Lawful(r, v)
      PROVE  StatusAgrees'
  <2>1. \A s \in Id : resvs'[s] = IF s = r THEN v ELSE resvs[s]
    BY <1>2 DEF LinkInv, TypeOK
  <2>2. RowAgrees(v)
    BY <1>1, <1>2 DEF Lawful
  <2> QED
    BY <1>1, <2>1, <2>2 DEF StatusAgrees, RowAgrees
<1>3. CASE UNCHANGED resvs
  BY <1>3 DEF StatusAgrees
<1> QED
  BY <1>2, <1>3, StepLawful

LEMMA MovesRest ==
    ASSUME MovesSound, UNCHANGED moves,
           \A s \in Id : resvs[s].state # "NONE" => resvs'[s].state # "NONE"
    PROVE  MovesSound'
<1>1. \A u \in Staff : moves[u].resv # NoRow => moves[u].resv \in Id
  BY DEF MovesSound, Move
<1> QED
  BY <1>1 DEF MovesSound

LEMMA MoveSet ==
    ASSUME MovesSound, NEW u \in Staff, NEW m \in Move, moves' = [moves EXCEPT ![u] = m],
           \A s \in Id : resvs[s].state # "NONE" => resvs'[s].state # "NONE",
           m.resv # NoRow => /\ resvs'[m.resv].state # "NONE"
                             /\ m.table \in Table /\ FitsParty(m.table, m.party)
    PROVE  MovesSound'
<1>1. \A w \in Staff : moves[w].resv # NoRow => moves[w].resv \in Id
  BY DEF MovesSound, Move
<1>2. \A w \in Staff : moves'[w] = IF w = u THEN m ELSE moves[w]
  BY DEF MovesSound
<1> QED
  BY <1>1, <1>2 DEF MovesSound

LEMMA BeginMoveStep ==
    ASSUME LinkInv, MovesSound, NEW u \in Staff, NEW r \in Id, NEW t \in Table,
           BeginReallocate(u, r, t)
    PROVE  MovesSound'
<1> DEFINE m == [resv |-> r, table |-> t, slot |-> resvs[r].slot, party |-> resvs[r].party]
<1>1. resvs[r] \in Reservation
  BY RowType
<1>2. m \in Move /\ m.resv = r /\ m.table = t /\ m.party = resvs[r].party
  BY <1>1 DEF Move, Reservation
<1>3. moves' = [moves EXCEPT ![u] = m] /\ UNCHANGED vars
  BY DEF BeginReallocate
<1>4. FitsParty(t, resvs[r].party) /\ resvs[r].state # "NONE" /\ UNCHANGED resvs
  BY <1>3 DEF BeginReallocate, vars
<1> HIDE DEF m
<1> QED
  BY <1>2, <1>3, <1>4, MoveSet

\* Whatever table a reservation is put on or taken off, nothing else of it
\* changes: its links, its two columns and its life.
LEMMA TableWritten ==
    ASSUME LinkInv, NEW r \in Id, resvs[r].state # "NONE", NEW t \in Table \cup {NoTable},
           resvs' = [resvs EXCEPT ![r].table = t], UNCHANGED <<clock, holds, lastId, reqs>>
    PROVE  /\ LinkInv'
           /\ StatusAgrees => StatusAgrees'
           /\ \A s \in Id : resvs'[s].state = resvs[s].state
<1> DEFINE v == [resvs[r] EXCEPT !.table = t]
<1>1. resvs[r] \in Reservation
  BY RowType
<1>2. /\ v \in Reservation /\ v.state = resvs[r].state /\ v.status = resvs[r].status
      /\ v.hold = resvs[r].hold
  BY <1>1 DEF Reservation
<1>3. resvs' = [resvs EXCEPT ![r] = v]
  OBVIOUS
<1> HIDE DEF v
<1>4. \A s \in Id : resvs'[s] = IF s = r THEN v ELSE resvs[s]
  BY <1>3 DEF LinkInv, TypeOK
<1>5. TypeOK' /\ ReqsSane'
  BY <1>2, <1>3 DEF LinkInv, TypeOK, ReqsSane
<1>6. FreshRows' /\ HoldConsumedOnce'
  BY <1>2, <1>4 DEF LinkInv, FreshRows, HoldConsumedOnce
<1>7. StatusAgrees => StatusAgrees'
  BY <1>2, <1>4 DEF StatusAgrees
<1> QED
  BY <1>2, <1>4, <1>5, <1>6, <1>7 DEF LinkInv

\* A reservation is put on another table, or taken off its own, and nothing
\* else of it changes.
LEMMA TableGiven ==
    ASSUME RowInv, NEW r \in Id, resvs[r].state # "NONE", NEW t \in Table \cup {NoTable},
           resvs' = [resvs EXCEPT ![r].table = t], UNCHANGED <<clock, holds, lastId, reqs>>,
           NEW at \in TxStart,
           t # NoTable => /\ FitsParty(t, resvs[r].party)
                          /\ isTableAvailable(t, resvs[r].slot, at, r, NoRow)
    PROVE  RowInv'
<1> DEFINE v == [resvs[r] EXCEPT !.table = t]
<1>1. resvs[r] \in Reservation /\ TypeOK /\ IInv
  BY RowType DEF RowInv, IInv, LinkInv
<1>2. /\ v \in Reservation /\ v.table = t /\ v.state = resvs[r].state
      /\ v.status = resvs[r].status /\ v.slot = resvs[r].slot /\ v.party = resvs[r].party
      /\ v.hold = resvs[r].hold /\ v.test = resvs[r].test
  BY <1>1 DEF Reservation
<1>3. resvs' = [resvs EXCEPT ![r] = v]
  OBVIOUS
<1> HIDE DEF v
<1>4. at \in Nat /\ at <= clock /\ lastId \in Nat
  BY <1>1, TxStartFacts, BookingAssumption DEF TypeOK
<1>5. r <= lastId
  BY <1>1, <1>4, IdFacts DEF IInv, LinkInv, FreshRows
<1>6. ReqsSane' /\ FreshRows' /\ TableExclusive' /\ HoldConsumedOnce'
  <2>1. UNCHANGED <<clock, holds, reqs>> /\ lastId' >= lastId /\ lastId' \in Nat /\ r <= lastId'
    BY <1>4, <1>5
  <2>2. v.hold \in {NoRow, resvs[r].hold}
    BY <1>2
  <2>3. Blocking(v) /\ v.table # NoTable => isTableAvailable(v.table, v.slot, at, r, NoRow)
    BY <1>2
  <2> QED
    BY ONLY <1>1, <1>2, <1>3, <1>4, <2>1, <2>2, <2>3, r \in Id, ReservationStep DEF IInv
<1>7. IInv' /\ NoPlanNoHold'
  BY <1>1, <1>2, <1>3, <1>6 DEF IInv, LinkInv, TypeOK, RowInv, NoPlanNoHold
<1>8. Lawful(r, v)
  BY <1>2 DEF Lawful, FitsOrKept, RowFits, RowAgrees, RowAlone, Blocking
<1>9. \A s \in Id : resvs'[s] = IF s = r THEN v ELSE resvs[s]
  BY <1>1, <1>3 DEF TypeOK
<1> QED
  BY <1>2, <1>3, <1>7, <1>8, <1>9, LawfulStep

LEMMA CommitMoveStep ==
    ASSUME LinkInv, StatusAgrees, MovesSound, staleMove \/ RowInv,
           NEW u \in Staff, NEW at \in TxStart, CommitReallocate(u, at)
    PROVE  FloorInv' /\ \A s \in Id : resvs'[s].state = resvs[s].state
<1> DEFINE m == moves[u]
<1>1. /\ m.resv \in Id /\ resvs[m.resv].state # "NONE"
      /\ m.table \in Table /\ FitsParty(m.table, m.party)
  BY DEF CommitReallocate, MovesSound, Move
<1>2. /\ resvs' = [resvs EXCEPT ![m.resv].table = m.table]
      /\ isTableAvailable(m.table, m.slot, at, m.resv, NoRow)
      /\ moves' = [moves EXCEPT ![u] = NoMove]
      /\ staleMove' = (staleMove \/ CopyIsStale(m))
      /\ UNCHANGED <<clock, holds, lastId, reqs>>
  BY DEF CommitReallocate, MoveAllowed
<1>3. CopyIsStale(m) \/ (m.slot = resvs[m.resv].slot /\ m.party = resvs[m.resv].party)
  BY DEF CopyIsStale
<1> HIDE DEF m
<1>4. /\ LinkInv' /\ StatusAgrees'
      /\ \A s \in Id : resvs'[s].state = resvs[s].state
  BY <1>1, <1>2, TableWritten
<1>5. MovesSound'
  BY <1>2, <1>4, NoMoveType, MoveSet
<1>6. staleMove' \/ RowInv'
  BY <1>1, <1>2, <1>3, TableGiven
<1> QED
  BY <1>4, <1>5, <1>6 DEF FloorInv

LEMMA ReleaseStep ==
    ASSUME FloorInv, NEW r \in Id, ReleaseTable(r)
    PROVE  FloorInv' /\ \A s \in Id : resvs'[s].state = resvs[s].state
<1>1. clock \in TxStart
  BY BookingAssumption DEF TxStart, FloorInv, LinkInv, TypeOK
<1>2. /\ resvs' = [resvs EXCEPT ![r].table = NoTable] /\ resvs[r].state # "NONE"
      /\ UNCHANGED <<clock, holds, lastId, reqs>> /\ UNCHANGED <<moves, staleMove>>
  BY DEF ReleaseTable
<1>3. /\ LinkInv' /\ StatusAgrees'
      /\ \A s \in Id : resvs'[s].state = resvs[s].state
  BY <1>2, TableWritten DEF FloorInv
<1>4. MovesSound'
  BY <1>2, <1>3, MovesRest DEF FloorInv
<1>5. staleMove' \/ RowInv'
  BY <1>1, <1>2, TableGiven DEF FloorInv
<1> QED
  BY <1>3, <1>4, <1>5 DEF FloorInv

LEMMA FloorStep == FloorInv /\ [FloorNext]_floorVars => FloorInv'
<1> SUFFICES ASSUME FloorInv, [FloorNext]_floorVars PROVE FloorInv'
  OBVIOUS
<1>1. LinkInv /\ StatusAgrees /\ MovesSound /\ (staleMove \/ RowInv)
  BY DEF FloorInv
<1>2. ASSUME [Next]_vars, UNCHANGED staleMove, MovesSound'
      PROVE  FloorInv'
  BY <1>1, <1>2, NextLinkInv, StatusStep, NextRowInv DEF FloorInv
<1>3. CASE [Next]_vars /\ UNCHANGED <<moves, staleMove>>
  BY <1>1, <1>2, <1>3, RowsStay, MovesRest
<1>4. ASSUME NEW u \in Staff, NEW r \in Id, NEW t \in Table, BeginReallocate(u, r, t)
      PROVE  FloorInv'
  BY <1>1, <1>2, <1>4, BeginMoveStep DEF BeginReallocate
<1>5. ASSUME NEW u \in Staff, NEW at \in TxStart, CommitReallocate(u, at)
      PROVE  FloorInv'
  BY <1>1, <1>5, CommitMoveStep
<1>6. ASSUME NEW u \in Staff, RefuseReallocate(u)
      PROVE  FloorInv'
  <2>1. moves' = [moves EXCEPT ![u] = NoMove] /\ UNCHANGED <<vars, staleMove>> /\ UNCHANGED resvs
    BY <1>6 DEF RefuseReallocate, vars
  <2> QED
    BY <1>1, <1>2, <2>1, NoMoveType, MoveSet
<1>7. ASSUME NEW r \in Id, ReleaseTable(r)
      PROVE  FloorInv'
  BY <1>7, ReleaseStep
<1> QED
  BY <1>3, <1>4, <1>5, <1>6, <1>7 DEF FloorNext, floorVars

LEMMA InitFloorInv == FloorInit => FloorInv
<1> SUFFICES ASSUME FloorInit PROVE FloorInv
  OBVIOUS
<1>1. RowInv
  BY InitRowInv DEF FloorInit
<1>2. MovesSound
  BY NoMoveType DEF FloorInit, MovesSound
<1> QED
  BY <1>1, <1>2 DEF FloorInv, RowInv, IInv

THEOREM FloorInvariantHolds == FloorSpec => []FloorInv
BY InitFloorInv, FloorStep, PTL DEF FloorSpec

\* reallocate and releaseTable keep every promise of the booking core as long as
\* no move is written from an outdated copy, for any number of users who move
\* reservations, and any floor plan: the copy read before the transaction is
\* the only way a move can do harm.
THEOREM MovesKeepPromises == FloorSpec => []MovesSafeUnlessStale
<1>1. FloorInv => MovesSafeUnlessStale
  BY DEF FloorInv, RowInv, IInv, MovesSafeUnlessStale
<1> QED
  BY <1>1, FloorInvariantHolds, PTL

\* A move, even one written from an outdated copy, touches neither the two
\* status columns of a reservation nor the hold it was made from.
THEOREM MovesKeepRecords == FloorSpec => [](StatusAgrees /\ HoldConsumedOnce)
<1>1. FloorInv => StatusAgrees /\ HoldConsumedOnce
  BY DEF FloorInv, LinkInv
<1> QED
  BY <1>1, FloorInvariantHolds, PTL

\* reallocate takes a reservation in any state, also a cancelled or honoured
\* one; still no move brings one back to life.
THEOREM MovesReviveNothing == FloorSpec => NeverRevived
<1>1. FloorInv /\ [FloorNext]_floorVars =>
        [\A i \in Id :
            /\ holds[i].status \notin {"NONE", "ACTIVE"} => holds'[i] = holds[i]
            /\ resvs[i].state \notin ActiveStates \cup {"NONE"} =>
                   resvs'[i].state = resvs[i].state]_vars
  <2> SUFFICES ASSUME FloorInv, [FloorNext]_floorVars, NEW i \in Id
               PROVE  \/ UNCHANGED vars
                      \/ /\ holds[i].status \notin {"NONE", "ACTIVE"} => holds'[i] = holds[i]
                         /\ resvs[i].state \notin ActiveStates \cup {"NONE"} =>
                                resvs'[i].state = resvs[i].state
    OBVIOUS
  <2>1. CASE [Next]_vars
    BY <2>1, StepRevivesNothing DEF FloorInv
  <2>2. ASSUME NEW u \in Staff, NEW at \in TxStart, CommitReallocate(u, at)
        PROVE  UNCHANGED holds /\ resvs'[i].state = resvs[i].state
    BY <2>2, CommitMoveStep DEF FloorInv, CommitReallocate
  <2>3. ASSUME NEW r \in Id, ReleaseTable(r)
        PROVE  UNCHANGED holds /\ resvs'[i].state = resvs[i].state
    BY <2>3, ReleaseStep DEF ReleaseTable
  <2> QED
    BY <2>1, <2>2, <2>3 DEF FloorNext, floorVars, BeginReallocate, RefuseReallocate
<1> QED
  BY <1>1, FloorInvariantHolds, PTL DEF FloorSpec, NeverRevived

(***************************************************************************)
(* WaitingList: the booking core's invariant is carried along, since a     *)
(* recovery writes reservations outside the advisory lock, so it has to be *)
(* shown once more that no table is promised twice.                        *)
(***************************************************************************)
FitsUnlessReverted ==
    \A r \in Id :
        resvs[r].state \in ActiveStates /\ resvs[r].table # NoTable /\ ~Reverted(r) =>
            FitsParty(resvs[r].table, resvs[r].party)

FreshEntries == \A e \in Entry : e > lastEntry => entries[e].status = "NONE"

\* An entry that can be promoted names no reservation: with OnePromotion, none
\* that was made for it is still active.
WaitingUngiven ==
    \A e \in Entry : entries[e].status \in {"NONE", "PENDING"} => entries[e].resv = NoRow

GivenExist == \A e \in Entry : \A r \in given[e] : resvs[r].state # "NONE"

\* A plan names rows and another table, an applied recovery two reservations.
PlansWhole ==
    \A u \in Manager : plans[u] # NoPlan =>
        plans[u].resv \in Id /\ plans[u].entry \in Entry /\ plans[u].alternative \in Table

RecoveriesWhole ==
    \A o \in Operation : recoveries[o].status # "none" =>
        /\ recoveries[o].resv \in Id /\ recoveries[o].entry \in Entry
        /\ recoveries[o].promoted \in Id /\ recoveries[o].promoted # recoveries[o].resv

Linked == FreshEntries /\ WaitingUngiven /\ GivenExist /\ PlansWhole /\ RecoveriesWhole

ListInv == ListTypeOK /\ IInv /\ Linked /\ OnePromotion /\ FitsUnlessReverted

LEMMA EntryFacts == NoEntry \notin Entry /\ Entry \subseteq Nat
BY WaitingListAssumption DEF Entry, NoEntry

LEMMA InitListInv == ListInit => ListInv
<1> SUFFICES ASSUME ListInit PROVE ListInv
  OBVIOUS
<1>1. IInv /\ TypeOK
  BY InitIInv DEF ListInit, IInv, LinkInv
<1>2. /\ (CHOOSE c \in Customer : TRUE) \in Customer
      /\ (CHOOSE o \in Operation : TRUE) \in Operation
  BY WaitingListAssumption
<1>3. NoEntryRow \in EntryRow /\ NoPlan \in PlanRow /\ NoRecovery \in RecoveryRow
  BY <1>2, SlotFacts
     DEF NoEntryRow, NoPlan, NoRecovery, EntryRow, PlanRow, RecoveryRow, EntryStatus
<1>4. ListTypeOK
  BY <1>1, <1>3, WaitingListAssumption DEF ListInit, ListTypeOK, NoEntry
<1>5. Linked
  BY DEF ListInit, Linked, FreshEntries, WaitingUngiven, GivenExist, PlansWhole, RecoveriesWhole,
         NoEntryRow, NoRecovery
<1>6. OnePromotion /\ FitsUnlessReverted
  BY DEF ListInit, Init, OnePromotion, FitsUnlessReverted, NoReservation, ActiveStates
<1> QED
  BY <1>1, <1>4, <1>5, <1>6 DEF ListInv

(***************************************************************************)
(* Steps of the booking core                                               *)
(***************************************************************************)
LEMMA BookingStep ==
    ASSUME ListInv, [Next]_vars, UNCHANGED listVars
    PROVE  ListInv'
<1>1. IInv' /\ TypeOK'
  BY NextIInv DEF ListInv, IInv, LinkInv
<1>2. ListTypeOK'
  BY <1>1 DEF ListInv, ListTypeOK, listVars
<1>3. FreshEntries' /\ WaitingUngiven' /\ PlansWhole' /\ RecoveriesWhole'
  BY DEF ListInv, Linked, FreshEntries, WaitingUngiven, PlansWhole, RecoveriesWhole, listVars
<1>4. CASE UNCHANGED resvs
  BY <1>1, <1>2, <1>3, <1>4
     DEF ListInv, Linked, GivenExist, OnePromotion, FitsUnlessReverted, Reverted, listVars
<1>5. ASSUME NEW r \in Id, NEW v, resvs' = [resvs EXCEPT ![r] = v], Lawful(r, v)
      PROVE  ListInv'
  <2>1. \A s \in Id : resvs'[s] = IF s = r THEN v ELSE resvs[s]
    BY <1>5 DEF ListInv, IInv, LinkInv, TypeOK
  <2>2. GivenExist' /\ OnePromotion'
    BY <1>5, <2>1 DEF ListInv, ListTypeOK, Linked, GivenExist, OnePromotion, Lawful, listVars
  <2>3. FitsUnlessReverted'
    BY <1>5, <2>1 DEF ListInv, FitsUnlessReverted, Reverted, Lawful, FitsOrKept, RowFits, listVars
  <2> QED
    BY <1>1, <1>2, <1>3, <2>2, <2>3 DEF ListInv, Linked
<1> QED
  BY <1>4, <1>5, StepLawful DEF ListInv, IInv

(***************************************************************************)
(* Steps that only write entries                                           *)
(***************************************************************************)
LEMMA EntriesStep ==
    ASSUME ListInv, UNCHANGED <<vars, plans, recoveries, given>>,
           entries' \in [Entry -> EntryRow], lastEntry' \in 0..MaxEntries,
           \A e \in Entry :
              /\ entries'[e].resv = entries[e].resv
              /\ entries'[e].status \in {"NONE", "PENDING"} =>
                     entries[e].status \in {"NONE", "PENDING"}
              /\ e > lastEntry' => entries'[e].status = "NONE"
    PROVE  ListInv'
<1>1. IInv' /\ TypeOK'
  BY NextIInv DEF ListInv, IInv, LinkInv
<1>2. ListTypeOK'
  BY <1>1 DEF ListInv, ListTypeOK
<1>3. Linked'
  BY DEF ListInv, Linked, FreshEntries, WaitingUngiven, GivenExist, PlansWhole, RecoveriesWhole,
         vars
<1>4. OnePromotion' /\ FitsUnlessReverted'
  BY DEF ListInv, OnePromotion, FitsUnlessReverted, Reverted, vars
<1> QED
  BY <1>1, <1>2, <1>3, <1>4 DEF ListInv

\* An entry that ends: cancelled by the customer or the staff, or expired.
LEMMA EndingStep ==
    ASSUME ListInv, UNCHANGED <<vars, lastEntry, plans, recoveries, given>>,
           NEW E \in SUBSET Entry, NEW status \in {"CANCELLED", "EXPIRED"},
           \A e \in E : entries[e].status # "NONE",
           entries' = [e \in Entry |-> IF e \in E THEN [entries[e] EXCEPT !.status = status]
                                       ELSE entries[e]]
    PROVE  ListInv'
<1>1. \A e \in Entry : entries[e] \in EntryRow
  BY DEF ListInv, ListTypeOK
<1>2. \A e \in Entry : /\ [entries[e] EXCEPT !.status = status] \in EntryRow
                       /\ [entries[e] EXCEPT !.status = status].status = status
                       /\ [entries[e] EXCEPT !.status = status].resv = entries[e].resv
  BY <1>1 DEF EntryRow, EntryStatus
<1>3. entries' \in [Entry -> EntryRow] /\ lastEntry' \in 0..MaxEntries
  BY <1>1, <1>2 DEF ListInv, ListTypeOK
<1>4. \A e \in Entry :
              /\ entries'[e].resv = entries[e].resv
              /\ entries'[e].status \in {"NONE", "PENDING"} =>
                     entries[e].status \in {"NONE", "PENDING"}
              /\ e > lastEntry' => entries'[e].status = "NONE"
  BY <1>2 DEF ListInv, Linked, FreshEntries
<1> QED
  BY <1>3, <1>4, EntriesStep

LEMMA EndOneStep ==
    ASSUME ListInv, UNCHANGED <<vars, lastEntry, plans, recoveries, given>>,
           NEW e \in Entry, NEW status \in {"CANCELLED", "EXPIRED"}, entries[e].status # "NONE",
           entries' = SetEntry(e, status)
    PROVE  ListInv'
<1> DEFINE E == {e}
<1>1. E \in SUBSET Entry /\ \A d \in E : entries[d].status # "NONE"
  OBVIOUS
<1>2. entries' = [d \in Entry |-> IF d \in E THEN [entries[d] EXCEPT !.status = status]
                                  ELSE entries[d]]
  BY DEF SetEntry, ListInv, ListTypeOK
<1> HIDE DEF E
<1> QED
  BY <1>1, <1>2, EndingStep

LEMMA JoinStep ==
    ASSUME ListInv, NEW c \in Customer, NEW party \in Party, NEW slot \in Slot,
           Join(c, party, slot)
    PROVE  ListInv'
<1> DEFINE e == lastEntry + 1
           new == [status |-> "PENDING", customer |-> c, party |-> party, slot |-> slot,
                   position |-> Cardinality(WaitingAt(slot.start)) + 1, resv |-> NoRow]
<1>1. e \in Entry /\ e \in 0..MaxEntries /\ \A d \in Entry : d > e => d > lastEntry
  BY WaitingListAssumption DEF Join, ListInv, ListTypeOK, Entry
<1>2. entries[e].status = "NONE" /\ entries[e].resv = NoRow
  BY <1>1, WaitingListAssumption
     DEF ListInv, ListTypeOK, Linked, FreshEntries, WaitingUngiven
<1>3. Cardinality(WaitingAt(slot.start)) \in Nat
  <2>1. IsFiniteSet(Entry)
    BY FS_Interval, WaitingListAssumption DEF Entry
  <2>2. WaitingAt(slot.start) \subseteq Entry
    BY DEF WaitingAt
  <2> QED
    BY <2>1, <2>2, FS_Subset, FS_CardinalityType
<1>4. new \in EntryRow /\ new.resv = NoRow
  BY <1>3, SlotFacts, BookingAssumption DEF EntryRow, EntryStatus
<1>5. /\ entries' = [entries EXCEPT ![e] = new] /\ lastEntry' = e
      /\ UNCHANGED <<vars, plans, recoveries, given>>
  BY DEF Join
<1> HIDE DEF new
<1>6. \A d \in Entry : entries'[d] = IF d = e THEN new ELSE entries[d]
  BY <1>1, <1>5 DEF ListInv, ListTypeOK
<1>7. entries' \in [Entry -> EntryRow] /\ lastEntry' \in 0..MaxEntries
  BY <1>1, <1>4, <1>5 DEF ListInv, ListTypeOK
<1>8. \A d \in Entry :
              /\ entries'[d].resv = entries[d].resv
              /\ entries'[d].status \in {"NONE", "PENDING"} =>
                     entries[d].status \in {"NONE", "PENDING"}
              /\ d > lastEntry' => entries'[d].status = "NONE"
  BY <1>1, <1>2, <1>4, <1>5, <1>6, EntryFacts DEF ListInv, Linked, FreshEntries
<1> HIDE DEF e
<1> QED
  BY <1>5, <1>7, <1>8, EntriesStep

(***************************************************************************)
(* Steps that give a table to an entry                                     *)
(***************************************************************************)

\* The new reservation is the entry's only active one: the entry was waiting, so
\* none of those it was given before is active any more.
LEMMA GivenStep ==
    ASSUME ListInv, NEW e \in Entry, entries[e].status = "PENDING",
           GivenTo(e, NewId), NewId \in Id,
           \A s \in Id \ {NewId} : resvs'[s].state = resvs[s].state,
           resvs[NewId].state = "NONE", resvs'[NewId].state = "CONFIRMED",
           UNCHANGED lastEntry
    PROVE  /\ entries' \in [Entry -> EntryRow] /\ given' \in [Entry -> SUBSET Id]
           /\ FreshEntries' /\ WaitingUngiven' /\ GivenExist' /\ OnePromotion'
<1> DEFINE new == [entries[e] EXCEPT !.status = "PROMOTED", !.resv = NewId]
<1>1. new \in EntryRow /\ new.status = "PROMOTED" /\ new.resv = NewId
  <2>1. entries[e] \in EntryRow
    BY DEF ListInv, ListTypeOK
  <2> QED
    BY <2>1 DEF EntryRow, EntryStatus
<1>2. \A d \in Entry : entries'[d] = IF d = e THEN new ELSE entries[d]
  BY DEF GivenTo, ListInv, ListTypeOK
<1>3. entries' \in [Entry -> EntryRow]
  BY <1>1 DEF GivenTo, ListInv, ListTypeOK
<1> HIDE DEF new
<1>4. /\ \A d \in Entry : given'[d] = IF d = e THEN given[d] \cup {NewId} ELSE given[d]
      /\ given' \in [Entry -> SUBSET Id]
  BY DEF GivenTo, ListInv, ListTypeOK
<1>5. FreshEntries' /\ WaitingUngiven'
  BY <1>1, <1>2 DEF ListInv, Linked, FreshEntries, WaitingUngiven
<1>6. GivenExist'
  BY <1>4 DEF ListInv, ListTypeOK, Linked, GivenExist
<1>7. OnePromotion'
  <2> SUFFICES ASSUME NEW d \in Entry, NEW r \in given'[d], resvs'[r].state \in ActiveStates
               PROVE  entries'[d].resv = r
    BY DEF OnePromotion
  <2>1. r \in Id /\ NoRow \notin Id
    BY <1>4, IdFacts
  <2>2. CASE r = NewId
    BY <1>1, <1>2, <1>4, <2>2 DEF ListInv, Linked, GivenExist
  <2>3. CASE r # NewId
    <3>1. r \in given[d] /\ resvs[r].state \in ActiveStates
      BY <1>4, <2>1, <2>3
    <3>2. entries[d].resv = r
      BY <3>1 DEF ListInv, OnePromotion
    <3>3. d # e
      BY <2>1, <3>2 DEF ListInv, Linked, WaitingUngiven
    <3> QED
      BY <1>2, <3>2, <3>3
  <2> QED
    BY <2>2, <2>3
<1> QED
  BY <1>3, <1>4, <1>5, <1>6, <1>7

LEMMA PromoteStep ==
    ASSUME ListInv, NEW e \in Entry, NEW at \in TxStart, PromoteEntry(e, at)
    PROVE  ListInv'
<1> DEFINE t == allocate(entries[e].party, entries[e].slot, at, NoRow)
           new == [state |-> "CONFIRMED", status |-> "CONFIRMED", table |-> t,
                   slot |-> entries[e].slot, party |-> entries[e].party, hold |-> NoRow,
                   test |-> FALSE]
<1>1. entries[e].party \in Nat /\ entries[e].slot \in Interval /\ TypeOK /\ IInv
  BY DEF ListInv, ListTypeOK, EntryRow
<1>2. /\ t \in Table /\ FitsParty(t, entries[e].party)
      /\ isTableAvailable(t, entries[e].slot, at, NoRow, NoRow)
  BY AllocateFree DEF PromoteEntry
<1>3. /\ InsertReservation("CONFIRMED", t, entries[e].slot, entries[e].party)
      /\ GivenTo(e, NewId) /\ entries[e].status = "PENDING"
      /\ UNCHANGED <<lastEntry, plans, recoveries>>
  BY DEF PromoteEntry, Waiting
<1>4. NewId \in Id /\ resvs[NewId].state = "NONE"
  BY <1>1, <1>3, NewIdFacts DEF InsertReservation, IInv, LinkInv, FreshRows
<1>5. resvs' = [resvs EXCEPT ![NewId] = new] /\ new.state = "CONFIRMED"
      /\ new.table = t /\ new.party = entries[e].party
  BY <1>3 DEF InsertReservation
<1> HIDE DEF t, new
<1>6. \A s \in Id : resvs'[s] = IF s = NewId THEN new ELSE resvs[s]
  BY <1>1, <1>5 DEF TypeOK
<1>7. TypeOK'
  BY <1>1, <1>2, <1>3, InsertReservationType
<1>8. IInv'
  BY <1>1, <1>2, <1>3, <1>7, InsertReservationStep DEF IInv, LinkInv
<1>9. /\ entries' \in [Entry -> EntryRow] /\ given' \in [Entry -> SUBSET Id]
      /\ FreshEntries' /\ WaitingUngiven' /\ GivenExist' /\ OnePromotion'
  BY <1>3, <1>4, <1>5, <1>6, GivenStep
<1>10. FitsUnlessReverted'
  BY <1>2, <1>3, <1>5, <1>6 DEF ListInv, FitsUnlessReverted, Reverted
<1>11. PlansWhole' /\ RecoveriesWhole' /\ ListTypeOK'
  BY <1>3, <1>7, <1>9 DEF ListInv, ListTypeOK, Linked, PlansWhole, RecoveriesWhole
<1> QED
  BY <1>8, <1>9, <1>10, <1>11 DEF ListInv, Linked

(***************************************************************************)
(* Steps of a recovery                                                     *)
(***************************************************************************)

\* Several reservations may be written at once as long as each of them, in the
\* new state, meets no other claim on its table.
LEMMA MovesStep ==
    ASSUME IInv, UNCHANGED <<clock, holds, reqs>>, lastId' \in lastId..MaxRows,
           resvs' \in [Id -> Reservation], NEW R \in SUBSET Id,
           \A s \in Id \ R : resvs'[s] = resvs[s],
           \A r \in R : r <= lastId' /\ resvs'[r].hold \in {NoRow, resvs[r].hold},
           \A r \in R : Blocking(resvs'[r]) /\ resvs'[r].table # NoTable =>
               /\ \A s \in Id \ {r} :
                     Blocking(resvs'[s]) /\ resvs'[s].table = resvs'[r].table =>
                         ~Overlap(resvs'[s].slot, resvs'[r].slot)
               /\ \A h \in Id :
                     Live(holds[h], clock) /\ holds[h].table = resvs'[r].table =>
                         ~Overlap(holds[h].slot, resvs'[r].slot)
    PROVE  IInv'
<1> USE DEF IInv, LinkInv
<1>1. TypeOK'
  BY BookingAssumption DEF TypeOK
<1>2. ReqsSane'
  BY DEF ReqsSane
<1>3. FreshRows'
  BY BookingAssumption, IdFacts DEF FreshRows, TypeOK
<1>4. ReservationsDisjoint'
  <2> SUFFICES ASSUME NEW r \in Id, NEW s \in Id, r # s,
                      Blocking(resvs'[r]), Blocking(resvs'[s]),
                      resvs'[r].table = resvs'[s].table, resvs'[r].table # NoTable
               PROVE  ~Overlap(resvs'[r].slot, resvs'[s].slot)
    BY DEF ReservationsDisjoint, Blocking
  <2>1. CASE r \in R \/ s \in R
    BY <2>1, OverlapSymmetric
  <2>2. CASE r \notin R /\ s \notin R
    BY <2>2 DEF TableExclusive, ReservationsDisjoint
  <2> QED
    BY <2>1, <2>2
<1>5. HoldsDisjoint'
  BY DEF TableExclusive, HoldsDisjoint, Live
<1>6. HoldsRespected'
  <2> SUFFICES ASSUME NEW r \in Id, NEW h \in Id, Blocking(resvs'[r]), Live(holds[h], clock),
                      resvs'[r].table = holds[h].table, resvs'[r].table # NoTable
               PROVE  ~Overlap(resvs'[r].slot, holds[h].slot)
    BY DEF HoldsRespected, Blocking, Live
  <2>1. CASE r \in R
    BY <2>1, OverlapSymmetric
  <2>2. CASE r \notin R
    BY <2>2 DEF TableExclusive, HoldsRespected
  <2> QED
    BY <2>1, <2>2
<1>7. HoldConsumedOnce'
  BY DEF HoldConsumedOnce
<1> QED
  BY <1>1, <1>2, <1>3, <1>4, <1>5, <1>6, <1>7 DEF TableExclusive

\* A table that was found free meets no live hold and no reservation but the one
\* that was left out.
LEMMA FoundFree ==
    ASSUME IInv, NEW at \in TxStart, NEW t, NEW slot, NEW ex,
           isTableAvailable(t, slot, at, ex, NoRow)
    PROVE  /\ \A s \in Id \ {ex} : Blocking(resvs[s]) /\ resvs[s].table = t =>
                  ~Overlap(resvs[s].slot, slot)
           /\ \A h \in Id : Live(holds[h], clock) /\ holds[h].table = t =>
                  ~Overlap(holds[h].slot, slot)
<1>1. at \in Nat /\ at <= clock
  BY TxStartFacts DEF IInv, LinkInv, TypeOK
<1> QED
  BY <1>1, LiveEarlier, IdFacts
     DEF IInv, LinkInv, isTableAvailable, hasConflictingReservation, hasConflictingHold

LEMMA RowCreated ==
    ASSUME IInv, NEW r \in Id, resvs[r].state # "NONE"
    PROVE  r <= lastId /\ r <= NewId /\ NewId <= NewId
<1>1. ~(r > lastId) /\ r \in Nat /\ lastId \in Nat
  BY IdFacts, BookingAssumption DEF IInv, LinkInv, TypeOK, FreshRows
<1> QED
  BY <1>1 DEF NewId

LEMMA DelayedInterval ==
    ASSUME NEW slot \in Interval, NEW d \in Nat
    PROVE  Delayed(slot, d) \in Interval
BY DEF Delayed, Interval

\* Planning writes nothing but the plan.
LEMMA PlanStep ==
    ASSUME ListInv, UNCHANGED <<vars, entries, lastEntry, recoveries, given>>,
           NEW u \in Manager, NEW new \in PlanRow, plans' = [plans EXCEPT ![u] = new],
           new # NoPlan => new.resv \in Id /\ new.entry \in Entry /\ new.alternative \in Table
    PROVE  ListInv'
<1>1. IInv' /\ TypeOK'
  BY NextIInv DEF ListInv, IInv, LinkInv
<1>2. \A w \in Manager : plans'[w] = IF w = u THEN new ELSE plans[w]
  BY DEF ListInv, ListTypeOK
<1>3. ListTypeOK'
  BY <1>1 DEF ListInv, ListTypeOK
<1>4. PlansWhole'
  BY <1>2 DEF ListInv, Linked, PlansWhole
<1>5. FreshEntries' /\ WaitingUngiven' /\ GivenExist' /\ RecoveriesWhole'
  BY DEF ListInv, Linked, FreshEntries, WaitingUngiven, GivenExist, RecoveriesWhole, vars
<1>6. OnePromotion' /\ FitsUnlessReverted'
  BY DEF ListInv, OnePromotion, FitsUnlessReverted, Reverted, vars
<1> QED
  BY <1>1, <1>3, <1>4, <1>5, <1>6 DEF ListInv, Linked

LEMMA NoPlanType == NoPlan \in PlanRow
<1>1. (CHOOSE o \in Operation : TRUE) \in Operation
  BY WaitingListAssumption
<1> QED
  BY <1>1 DEF NoPlan, PlanRow

LEMMA BeginStep ==
    ASSUME ListInv, NEW u \in Manager, NEW o \in Operation, NEW r \in Id, NEW d \in Delay,
           BeginApply(u, o, r, d)
    PROVE  ListInv'
<1> DEFINE new == [op |-> o, resv |-> r, delay |-> d,
                   alternative |-> Alternative(r, d), entry |-> Offered(r)]
<1>1. Alternative(r, d) \in Table
  BY BestFitChosen DEF BeginApply, Alternative
<1>2. Offered(r) \in Entry
  BY DEF BeginApply, Offered
<1>3. /\ new \in PlanRow /\ new.resv \in Id /\ new.entry \in Entry /\ new.alternative \in Table
  BY <1>1, <1>2, WaitingListAssumption DEF PlanRow
<1>4. plans' = [plans EXCEPT ![u] = new] /\ UNCHANGED <<vars, entries, lastEntry, recoveries, given>>
  BY DEF BeginApply
<1> HIDE DEF new
<1> QED
  BY <1>3, <1>4, PlanStep

LEMMA EndStep ==
    ASSUME ListInv, NEW u \in Manager, EndApply(u)
    PROVE  ListInv'
BY NoPlanType, PlanStep DEF EndApply

\* The transaction of apply: the late party goes to the other table, the waiting
\* one to the table it leaves; both were found free under their locks.
LEMMA CommitApplyStep ==
    ASSUME ListInv, NEW u \in Manager, NEW at \in TxStart, CommitApply(u, at)
    PROVE  ListInv'
<1> DEFINE p == plans[u]
           cur == resvs[p.resv]
           e == entries[p.entry]
           slot == Delayed(cur.slot, p.delay)
           moved == [cur EXCEPT !.table = p.alternative, !.slot = slot]
           promoted == [state |-> "CONFIRMED", status |-> "CONFIRMED", table |-> cur.table,
                        slot |-> e.slot, party |-> e.party, hold |-> NoRow, test |-> FALSE]
           rec == [status |-> "applied", resv |-> p.resv, entry |-> p.entry, promoted |-> NewId,
                   original |-> cur.table, alternative |-> p.alternative,
                   originalSlot |-> cur.slot, appliedSlot |-> slot]
<1>1. /\ p \in PlanRow /\ p.op \in Operation /\ p.delay \in Nat
      /\ p.resv \in Id /\ p.entry \in Entry /\ p.alternative \in Table
  <2>1. p \in PlanRow
    BY DEF ListInv, ListTypeOK
  <2> QED
    BY <2>1 DEF PlanRow, ListInv, Linked, PlansWhole, CommitApply
<1>2. /\ cur \in Reservation /\ cur.slot \in Interval /\ cur.table \in Table \cup {NoTable}
      /\ e \in EntryRow /\ e.slot \in Interval /\ e.party \in Nat
  <2>1. cur \in Reservation /\ e \in EntryRow
    BY <1>1 DEF ListInv, ListTypeOK, TypeOK
  <2> QED
    BY <2>1 DEF Reservation, EntryRow
<1>3. slot \in Interval
  BY <1>1, <1>2, DelayedInterval
<1>4. NewId \in Id /\ NewId > lastId /\ resvs[NewId].state = "NONE"
  BY NewIdFacts DEF CommitApply, ListInv, IInv, LinkInv, FreshRows
<1>5. /\ cur.state = "CONFIRMED" /\ cur.table # NoTable /\ e.status = "PENDING"
      /\ p.alternative # cur.table /\ p.resv # NewId
  BY <1>4 DEF CommitApply, Recoverable, Waiting
<1>6. /\ moved \in Reservation /\ moved.state = cur.state /\ moved.hold = cur.hold
      /\ moved.table = p.alternative /\ moved.slot = slot /\ moved.party = cur.party
  BY <1>1, <1>2, <1>3 DEF Reservation
<1>7. /\ promoted \in Reservation /\ promoted.state = "CONFIRMED" /\ promoted.hold = NoRow
      /\ promoted.table = cur.table /\ promoted.slot = e.slot /\ promoted.party = e.party
  BY <1>2 DEF Reservation, ReservationStates, ActiveStates, ReservationStatus
<1>8. /\ rec \in RecoveryRow /\ rec.status = "applied" /\ rec.resv = p.resv
      /\ rec.entry = p.entry /\ rec.promoted = NewId
  BY <1>1, <1>2, <1>3, <1>4 DEF RecoveryRow
<1>9. /\ resvs' = [resvs EXCEPT ![p.resv] = moved, ![NewId] = promoted]
      /\ lastId' = NewId /\ GivenTo(p.entry, NewId)
      /\ recoveries' = [recoveries EXCEPT ![p.op] = rec] /\ recoveries[p.op].status = "none"
      /\ plans' = [plans EXCEPT ![u] = NoPlan]
      /\ UNCHANGED <<clock, holds, reqs, lastEntry>>
  BY DEF CommitApply
<1>10. /\ FitsParty(p.alternative, cur.party) /\ FitsParty(cur.table, e.party)
       /\ isTableAvailable(p.alternative, slot, at, p.resv, NoRow)
       /\ isTableAvailable(cur.table, e.slot, at, p.resv, NoRow)
  BY DEF CommitApply, TablesStillFit, TablesStillFree
<1> HIDE DEF moved, promoted, rec, slot
<1>11. /\ \A s \in Id : resvs'[s] = IF s = NewId THEN promoted
                                    ELSE IF s = p.resv THEN moved ELSE resvs[s]
       /\ resvs' \in [Id -> Reservation]
  BY <1>4, <1>5, <1>6, <1>7, <1>9 DEF ListInv, ListTypeOK, TypeOK
<1>12. IInv'
  <2> DEFINE R == {p.resv, NewId}
  <2>1. R \in SUBSET Id /\ \A s \in Id \ R : resvs'[s] = resvs[s]
    BY <1>1, <1>4, <1>11
  <2>2. lastId' \in lastId..MaxRows
    BY <1>4, <1>9, BookingAssumption DEF ListInv, ListTypeOK, TypeOK, Id
  <2>3. \A r \in R : r <= lastId' /\ resvs'[r].hold \in {NoRow, resvs[r].hold}
    <3>1. p.resv <= NewId /\ NewId <= NewId
      BY <1>1, <1>5, RowCreated DEF ListInv
    <3>2. resvs'[p.resv].hold = cur.hold /\ resvs'[NewId].hold = NoRow
      BY <1>1, <1>4, <1>5, <1>6, <1>7, <1>11
    <3> QED
      BY <1>9, <3>1, <3>2
  <2>4. \A r \in R : Blocking(resvs'[r]) /\ resvs'[r].table # NoTable =>
               /\ \A s \in Id \ {r} :
                     Blocking(resvs'[s]) /\ resvs'[s].table = resvs'[r].table =>
                         ~Overlap(resvs'[s].slot, resvs'[r].slot)
               /\ \A h \in Id :
                     Live(holds[h], clock) /\ holds[h].table = resvs'[r].table =>
                         ~Overlap(holds[h].slot, resvs'[r].slot)
    <3>1. /\ \A s \in Id \ {p.resv} : Blocking(resvs[s]) /\ resvs[s].table = p.alternative =>
                 ~Overlap(resvs[s].slot, slot)
          /\ \A h \in Id : Live(holds[h], clock) /\ holds[h].table = p.alternative =>
                 ~Overlap(holds[h].slot, slot)
      BY <1>10, FoundFree DEF ListInv
    <3>2. /\ \A s \in Id \ {p.resv} : Blocking(resvs[s]) /\ resvs[s].table = cur.table =>
                 ~Overlap(resvs[s].slot, e.slot)
          /\ \A h \in Id : Live(holds[h], clock) /\ holds[h].table = cur.table =>
                 ~Overlap(holds[h].slot, e.slot)
      BY <1>10, FoundFree DEF ListInv
    <3>3. /\ resvs'[p.resv].table = p.alternative /\ resvs'[p.resv].slot = slot
          /\ resvs'[NewId].table = cur.table /\ resvs'[NewId].slot = e.slot
      BY <1>1, <1>4, <1>5, <1>6, <1>7, <1>11
    <3>4. \A s \in Id \ R : resvs'[s] = resvs[s] /\ s # p.resv
      BY <2>1
    <3>5. ASSUME NEW r \in R, NEW s \in Id \ {r}, Blocking(resvs'[s]),
                 resvs'[s].table = resvs'[r].table
          PROVE  ~Overlap(resvs'[s].slot, resvs'[r].slot)
      <4>1. s \notin R
        BY <1>5, <3>3, <3>5
      <4> QED
        BY <3>1, <3>2, <3>3, <3>4, <3>5, <4>1
    <3> QED
      BY <3>1, <3>2, <3>3, <3>5
  <2> QED
    BY <1>9, <1>11, <2>1, <2>2, <2>3, <2>4, MovesStep DEF ListInv
<1>13. /\ entries' \in [Entry -> EntryRow] /\ given' \in [Entry -> SUBSET Id]
       /\ FreshEntries' /\ WaitingUngiven' /\ GivenExist' /\ OnePromotion'
  <2>1. \A s \in Id \ {NewId} : resvs'[s].state = resvs[s].state
    BY <1>6, <1>11
  <2>2. resvs'[NewId].state = "CONFIRMED"
    BY <1>4, <1>7, <1>11
  <2> QED
    BY <1>1, <1>4, <1>5, <1>9, <2>1, <2>2, GivenStep
<1>14. \A o \in Operation : recoveries'[o] = IF o = p.op THEN rec ELSE recoveries[o]
  BY <1>9 DEF ListInv, ListTypeOK
<1>15. FitsUnlessReverted'
  <2>1. \A r \in Id : Reverted(r)' <=> Reverted(r)
    BY <1>1, <1>8, <1>9, <1>14 DEF Reverted
  <2> QED
    BY <1>6, <1>7, <1>10, <1>11, <2>1 DEF ListInv, FitsUnlessReverted
<1>16. PlansWhole'
  BY <1>9 DEF ListInv, ListTypeOK, Linked, PlansWhole
<1>17. RecoveriesWhole'
  BY <1>1, <1>4, <1>5, <1>8, <1>14 DEF ListInv, Linked, RecoveriesWhole
<1>18. ListTypeOK'
  <2>1. plans' \in [Manager -> PlanRow] /\ recoveries' \in [Operation -> RecoveryRow]
    BY <1>8, <1>9, NoPlanType DEF ListInv, ListTypeOK
  <2> QED
    BY <1>9, <1>12, <1>13, <2>1 DEF ListInv, ListTypeOK, IInv, LinkInv
<1> QED
  BY <1>12, <1>13, <1>15, <1>16, <1>17, <1>18 DEF ListInv, Linked

\* The reversal: the waiting party's reservation is cancelled, which frees the
\* original table for the party that was moved.
LEMMA RevertStep ==
    ASSUME ListInv, NEW o \in Operation, NEW at \in TxStart, Revert(o, at)
    PROVE  ListInv'
<1> DEFINE rec == recoveries[o]
           cur == resvs[rec.resv]
           e == entries[rec.entry]
           gone == CancelPromoted(rec.promoted)
           moved == [cur EXCEPT !.table = rec.original, !.slot = rec.originalSlot]
           row == [e EXCEPT !.status = "PENDING", !.resv = NoRow]
           undone == [rec EXCEPT !.status = "reverted"]
<1>1. /\ rec \in RecoveryRow /\ rec.status = "applied"
      /\ rec.resv \in Id /\ rec.entry \in Entry /\ rec.promoted \in Id
      /\ rec.promoted # rec.resv
      /\ rec.original \in Table \cup {NoTable} /\ rec.originalSlot \in Interval
  <2>1. rec \in RecoveryRow /\ rec.status = "applied"
    BY DEF ListInv, ListTypeOK, Revert
  <2> QED
    BY <2>1 DEF RecoveryRow, ListInv, Linked, RecoveriesWhole
<1>2. /\ cur.state = "CONFIRMED" /\ resvs[rec.promoted].state = "CONFIRMED"
      /\ e.status = "PROMOTED" /\ e.resv = rec.promoted
  BY DEF Revert, Unchanged
<1>3. /\ gone \in Reservation /\ gone.state = "CANCELLED" /\ gone.hold = resvs[rec.promoted].hold
  <2>1. resvs[rec.promoted] \in Reservation
    BY <1>1 DEF ListInv, ListTypeOK, TypeOK
  <2>2. TransitionStatus("CANCELLED", resvs[rec.promoted].status) \in ReservationStatus
    BY DEF TransitionStatus, ReservationStatus
  <2> QED
    BY <2>1, <2>2 DEF CancelPromoted, Reservation, ReservationStates
<1>4. /\ moved \in Reservation /\ moved.state = cur.state /\ moved.hold = cur.hold
      /\ moved.table = rec.original /\ moved.slot = rec.originalSlot
  <2>1. cur \in Reservation
    BY <1>1 DEF ListInv, ListTypeOK, TypeOK
  <2> QED
    BY <1>1, <2>1 DEF Reservation
<1>5. row \in EntryRow /\ row.status = "PENDING" /\ row.resv = NoRow
  <2>1. e \in EntryRow
    BY <1>1 DEF ListInv, ListTypeOK
  <2> QED
    BY <2>1 DEF EntryRow, EntryStatus
<1>6. undone \in RecoveryRow /\ undone.status = "reverted" /\ undone.resv = rec.resv
      /\ undone.entry = rec.entry /\ undone.promoted = rec.promoted
  BY <1>1 DEF RecoveryRow
<1>7. /\ resvs' = [resvs EXCEPT ![rec.promoted] = gone, ![rec.resv] = moved]
      /\ entries' = [entries EXCEPT ![rec.entry] = row]
      /\ recoveries' = [recoveries EXCEPT ![o] = undone]
      /\ isTableAvailable(rec.original, rec.originalSlot, at, rec.promoted, NoRow)
      /\ UNCHANGED <<clock, holds, lastId, reqs, lastEntry, plans, given>>
  BY <1>1 DEF Revert, ListInv, ListTypeOK, TypeOK
<1> HIDE DEF gone, moved, row, undone
<1>8. /\ \A s \in Id : resvs'[s] = IF s = rec.resv THEN moved
                                   ELSE IF s = rec.promoted THEN gone ELSE resvs[s]
      /\ resvs' \in [Id -> Reservation]
  BY <1>1, <1>3, <1>4, <1>7 DEF ListInv, ListTypeOK, TypeOK
<1>9. /\ \A d \in Entry : entries'[d] = IF d = rec.entry THEN row ELSE entries[d]
      /\ entries' \in [Entry -> EntryRow]
  BY <1>5, <1>7 DEF ListInv, ListTypeOK
<1>10. /\ \A q \in Operation : recoveries'[q] = IF q = o THEN undone ELSE recoveries[q]
       /\ recoveries' \in [Operation -> RecoveryRow]
  BY <1>6, <1>7 DEF ListInv, ListTypeOK
<1>11. IInv'
  <2> DEFINE R == {rec.resv, rec.promoted}
  <2>1. R \in SUBSET Id /\ \A s \in Id \ R : resvs'[s] = resvs[s]
    BY <1>1, <1>8
  <2>2. lastId' \in lastId..MaxRows
    BY <1>7, BookingAssumption DEF ListInv, ListTypeOK, TypeOK
  <2>3. \A r \in R : r <= lastId' /\ resvs'[r].hold \in {NoRow, resvs[r].hold}
    <3>1. \A r \in R : r <= lastId
      BY <1>1, <1>2, RowCreated DEF ListInv
    <3> QED
      BY <1>1, <1>3, <1>4, <1>7, <1>8, <3>1
  <2>4. ~Blocking(resvs'[rec.promoted])
    BY <1>1, <1>3, <1>8 DEF Blocking, ActiveStates
  <2>5. /\ \A s \in Id \ {rec.promoted} : Blocking(resvs[s]) /\ resvs[s].table = rec.original =>
               ~Overlap(resvs[s].slot, rec.originalSlot)
        /\ \A h \in Id : Live(holds[h], clock) /\ holds[h].table = rec.original =>
               ~Overlap(holds[h].slot, rec.originalSlot)
    BY <1>7, FoundFree DEF ListInv
  <2>6. \A r \in R : Blocking(resvs'[r]) /\ resvs'[r].table # NoTable =>
               /\ \A s \in Id \ {r} :
                     Blocking(resvs'[s]) /\ resvs'[s].table = resvs'[r].table =>
                         ~Overlap(resvs'[s].slot, resvs'[r].slot)
               /\ \A h \in Id :
                     Live(holds[h], clock) /\ holds[h].table = resvs'[r].table =>
                         ~Overlap(holds[h].slot, resvs'[r].slot)
    BY <1>1, <1>4, <1>8, <2>4, <2>5
  <2> QED
    BY <1>7, <1>8, <2>1, <2>2, <2>3, <2>6, MovesStep DEF ListInv
<1>12. FreshEntries' /\ WaitingUngiven' /\ GivenExist'
  <2>1. FreshEntries' /\ WaitingUngiven'
    BY <1>2, <1>5, <1>7, <1>9 DEF ListInv, Linked, FreshEntries, WaitingUngiven
  <2>2. \A s \in Id : resvs[s].state # "NONE" => resvs'[s].state # "NONE"
    BY <1>2, <1>3, <1>4, <1>8
  <2> QED
    BY <1>7, <2>1, <2>2 DEF ListInv, ListTypeOK, Linked, GivenExist
<1>13. OnePromotion'
  <2> SUFFICES ASSUME NEW d \in Entry, NEW r \in given[d], resvs'[r].state \in ActiveStates
               PROVE  entries'[d].resv = r
    BY <1>7 DEF OnePromotion
  <2>1. r \in Id /\ r # rec.promoted
    BY <1>1, <1>3, <1>8 DEF ListInv, ListTypeOK, ActiveStates
  <2>2. resvs[r].state \in ActiveStates
    BY <1>4, <1>8, <2>1
  <2>3. entries[d].resv = r
    BY <2>2 DEF ListInv, OnePromotion
  <2>4. d # rec.entry
    BY <1>2, <2>1, <2>3
  <2> QED
    BY <1>9, <2>3, <2>4
<1>14. FitsUnlessReverted'
  <2>1. \A r \in Id : Reverted(r) \/ r = rec.resv => Reverted(r)'
    BY <1>1, <1>6, <1>10 DEF Reverted
  <2>2. ASSUME NEW r \in Id, r # rec.resv, resvs'[r].state \in ActiveStates
        PROVE  resvs'[r] = resvs[r]
    BY <1>3, <1>8, <2>2 DEF ActiveStates
  <2> QED
    BY <2>1, <2>2 DEF ListInv, FitsUnlessReverted
<1>15. PlansWhole' /\ RecoveriesWhole'
  BY <1>1, <1>6, <1>7, <1>10 DEF ListInv, Linked, PlansWhole, RecoveriesWhole
<1>16. ListTypeOK'
  BY <1>7, <1>9, <1>10, <1>11 DEF ListInv, ListTypeOK, IInv, LinkInv
<1> QED
  BY <1>11, <1>12, <1>13, <1>14, <1>15, <1>16 DEF ListInv, Linked

(***************************************************************************)
(* The theorems                                                            *)
(***************************************************************************)
LEMMA NextWaitingStep ==
    ASSUME ListInv, NextWaiting
    PROVE  ListInv'
<1>1. ASSUME NEW e \in Entry, CancelByToken(e)
      PROVE  ListInv'
  BY <1>1, EndOneStep DEF CancelByToken
<1>2. ASSUME NEW e \in Entry, CancelByStaff(e)
      PROVE  ListInv'
  BY <1>2, EndOneStep DEF CancelByStaff
<1>3. ASSUME NEW e \in Entry, ExpireEntry(e)
      PROVE  ListInv'
  BY <1>3, EndOneStep DEF ExpireEntry, Stale
<1>4. CASE CleanupExpired
  <2> DEFINE E == {e \in Entry : Stale(e)}
  <2>1. E \in SUBSET Entry /\ \A e \in E : entries[e].status # "NONE"
    BY DEF Stale
  <2>2. entries' = [e \in Entry |-> IF e \in E THEN [entries[e] EXCEPT !.status = "EXPIRED"]
                                    ELSE entries[e]]
    BY <1>4 DEF CleanupExpired
  <2> HIDE DEF E
  <2> QED
    BY <1>4, <2>1, <2>2, EndingStep DEF CleanupExpired
<1> QED
  BY <1>1, <1>2, <1>3, <1>4, JoinStep, PromoteStep DEF NextWaiting

LEMMA ListNextStep == ListInv /\ [ListNext]_allVars => ListInv'
<1> SUFFICES ASSUME ListInv, [ListNext]_allVars PROVE ListInv'
  OBVIOUS
<1>1. CASE UNCHANGED allVars \/ (Next /\ UNCHANGED listVars)
  BY <1>1, BookingStep DEF allVars
<1>2. CASE NextRecovery
  BY <1>2, BeginStep, CommitApplyStep, EndStep, RevertStep DEF NextRecovery
<1> QED
  BY <1>1, <1>2, NextWaitingStep DEF ListNext

THEOREM ListInvariantHolds == ListSpec => []ListInv
BY InitListInv, ListNextStep, PTL DEF ListSpec

\* Every reachable state of the waiting list and of the booking core beside it
\* is well typed.
THEOREM ListTypeCorrect == ListSpec => []ListTypeOK
<1>1. ListInv => ListTypeOK
  BY DEF ListInv
<1> QED
  BY <1>1, ListInvariantHolds, PTL

\* A waiting party is given one table, whatever promotions, recoveries, reversals
\* and cancellations race for its entry.
THEOREM PromotedOnce == ListSpec => []OnePromotion
<1>1. ListInv => OnePromotion
  BY DEF ListInv
<1> QED
  BY <1>1, ListInvariantHolds, PTL

\* Recoveries, which take row locks and not the advisory lock and start from an
\* outdated plan, never promise a table twice nor seat a party on a table that
\* does not take it; only a reversal may.
THEOREM RecoveriesSafe == ListSpec => []RecoverySafe
<1>1. ListInv => RecoverySafe
  BY DEF ListInv, IInv, LinkInv, FitsUnlessReverted, RecoverySafe
<1> QED
  BY <1>1, ListInvariantHolds, PTL

\* A cancelled or expired entry stays so, also when a plan made before names it.
THEOREM EntriesFinal == ListSpec => EntryFinal
<1>1. ListInv /\ [ListNext]_allVars =>
        [\A e \in Entry :
            entries[e].status \in {"CANCELLED", "EXPIRED"} => entries'[e] = entries[e]]_allVars
  <2> SUFFICES ASSUME ListInv, [ListNext]_allVars, NEW e \in Entry,
                      entries[e].status \in {"CANCELLED", "EXPIRED"}
               PROVE  entries'[e] = entries[e]
    OBVIOUS
  <2>1. entries \in [Entry -> EntryRow]
    BY DEF ListInv, ListTypeOK
  <2>2. CASE UNCHANGED entries
    BY <2>2
  <2>3. ASSUME NEW c \in Customer, NEW party \in Party, NEW slot \in Slot, Join(c, party, slot)
        PROVE  entries'[e] = entries[e]
    <3>1. entries[lastEntry + 1].status = "NONE"
      BY <2>3, WaitingListAssumption
         DEF Join, ListInv, ListTypeOK, Linked, FreshEntries, Entry
    <3> QED
      BY <2>1, <2>3, <3>1 DEF Join
  <2>4. ASSUME NEW d \in Entry, CancelByToken(d) \/ CancelByStaff(d) \/ ExpireEntry(d)
        PROVE  entries'[e] = entries[e]
    BY <2>1, <2>4 DEF CancelByToken, CancelByStaff, ExpireEntry, Stale, SetEntry
  <2>5. CASE CleanupExpired
    BY <2>1, <2>5 DEF CleanupExpired, Stale
  <2>6. ASSUME NEW d \in Entry, NEW at \in TxStart, PromoteEntry(d, at)
        PROVE  entries'[e] = entries[e]
    BY <2>1, <2>6 DEF PromoteEntry, Waiting, GivenTo
  <2>7. ASSUME NEW u \in Manager, NEW at \in TxStart, CommitApply(u, at)
        PROVE  entries'[e] = entries[e]
    BY <2>1, <2>7 DEF CommitApply, Waiting, GivenTo
  <2>8. ASSUME NEW o \in Operation, NEW at \in TxStart, Revert(o, at)
        PROVE  entries'[e] = entries[e]
    BY <2>1, <2>8 DEF Revert, Unchanged
  <2>9. ASSUME NEW u \in Manager, NEW o \in Operation, NEW r \in Id, NEW d \in Delay,
               BeginApply(u, o, r, d) \/ EndApply(u)
        PROVE  entries'[e] = entries[e]
    BY <2>9 DEF BeginApply, EndApply
  <2>10. ASSUME NEW u \in Manager, EndApply(u)
         PROVE  entries'[e] = entries[e]
    BY <2>10 DEF EndApply
  <2>11. CASE NextWaiting
    BY <2>3, <2>4, <2>5, <2>6, <2>11 DEF NextWaiting
  <2>12. CASE NextRecovery
    BY <2>7, <2>8, <2>9, <2>10, <2>12 DEF NextRecovery
  <2> QED
    BY <2>2, <2>11, <2>12 DEF ListNext, listVars, allVars
<1> QED
  BY <1>1, ListInvariantHolds, PTL DEF ListSpec, EntryFinal

(***************************************************************************)
(* The placement algorithm.  Its plan is the last of a row of plans, one   *)
(* per number of items placed; facts about it go by induction on that      *)
(* number, through the set of the numbers for which a fact holds.          *)
(***************************************************************************)

\* A set with zero, and with the successor of each of its members, has every
\* natural number.
LEMMA CountingUp ==
    ASSUME NEW F, 0 \in F, \A n \in Nat : n \in F => n + 1 \in F
    PROVE  \A n \in Nat : n \in F
<1> DEFINE Out == Nat \ F
<1> SUFFICES ASSUME Out # {} PROVE FALSE
  OBVIOUS
<1>1. PICK n \in Out : \A m \in Out : <<m, n>> \notin OpToRel(<, Nat)
  <2>1. Out \subseteq Nat
    OBVIOUS
  <2> HIDE DEF Out, OpToRel
  <2> QED
    BY <2>1, NatLessThanWellFounded, WFMin
<1>2. n # 0 /\ n - 1 \in Nat
  OBVIOUS
<1>3. <<n - 1, n>> \in OpToRel(<, Nat)
  BY <1>2 DEF OpToRel
<1>4. n - 1 \in F
  BY <1>1, <1>2, <1>3
<1> QED
  BY <1>2, <1>4

Named(s) == {k \in DOMAIN s : s[k].table # NoTable}

FirstPlan(s) == [i \in Named(s) |-> s[i].table]

\* plan[n] is the plan once the first n items of s are placed, for n up to m.
PlansTo(s, plan, m) ==
    plan = [n \in 0..m |-> IF n = 0 THEN FirstPlan(s) ELSE SeatNext(s, plan[n - 1], n)]

\* The recursion of planUnassignedSeating has a solution.
LEMMA PlansExist ==
    ASSUME NEW s, Len(s) \in Nat
    PROVE  \E plan : PlansTo(s, plan, Len(s))
<1> DEFINE F == {m \in Nat : \E plan : PlansTo(s, plan, m)}
<1>1. 0 \in F
  <2> DEFINE plan == [n \in 0..0 |-> FirstPlan(s)]
  <2>1. PlansTo(s, plan, 0)
    BY DEF PlansTo
  <2> QED
    BY <2>1
<1>2. ASSUME NEW m \in Nat, m \in F
      PROVE  m + 1 \in F
  <2>1. PICK plan : PlansTo(s, plan, m)
    BY <1>2
  <2> DEFINE next == [n \in 0..(m + 1) |-> IF n = m + 1 THEN SeatNext(s, plan[m], m + 1)
                                                         ELSE plan[n]]
  <2>2. ASSUME NEW n \in 0..(m + 1)
        PROVE  next[n] = IF n = 0 THEN FirstPlan(s) ELSE SeatNext(s, next[n - 1], n)
    <3>1. CASE n = m + 1
      BY <3>1
    <3>2. CASE n = 0
      BY <3>2, <2>1 DEF PlansTo
    <3>3. CASE n \in 1..m
      <4>1. next[n] = plan[n] /\ next[n - 1] = plan[n - 1]
        BY <3>3
      <4>2. plan[n] = SeatNext(s, plan[n - 1], n)
        BY <2>1, <3>3 DEF PlansTo
      <4> QED
        BY <4>1, <4>2, <3>3
    <3> QED
      BY <3>1, <3>2, <3>3
  <2>3. PlansTo(s, next, m + 1)
    BY <2>2 DEF PlansTo
  <2> QED
    BY <2>3
<1> HIDE DEF F
<1>3. Len(s) \in F
  BY <1>1, <1>2, CountingUp
<1> QED
  BY <1>3 DEF F

Plans(s, plan) ==
    /\ plan[0] = FirstPlan(s)
    /\ \A n \in 1..Len(s) : plan[n] = SeatNext(s, plan[n - 1], n)

\* What planUnassignedSeating computes: the last of the plans.
LEMMA PlanIsLast ==
    ASSUME NEW s, Len(s) \in Nat
    PROVE  \E plan : Plans(s, plan) /\ planUnassignedSeating(s) = plan[Len(s)]
<1> DEFINE p == CHOOSE plan : PlansTo(s, plan, Len(s))
<1>1. PlansTo(s, p, Len(s))
  BY PlansExist
<1>2. planUnassignedSeating(s) = p[Len(s)]
  BY DEF planUnassignedSeating, PlansTo, FirstPlan, Named
<1> HIDE DEF p
<1>3. Plans(s, p)
  BY <1>1 DEF PlansTo, Plans
<1> QED
  BY <1>2, <1>3

\* A list and one element more.
LEMMA AppendFacts ==
    ASSUME NEW C, NEW s \in Seq(C), NEW x \in C
    PROVE  /\ Append(s, x) \in Seq(C)
           /\ Len(Append(s, x)) = Len(s) + 1 /\ Len(s) \in Nat
           /\ DOMAIN s = 1..Len(s)
           /\ DOMAIN Append(s, x) = 1..(Len(s) + 1)
           /\ Append(s, x)[Len(s) + 1] = x
           /\ \A i \in 1..Len(s) : Append(s, x)[i] = s[i]
<1>1. Append(s, x) \in Seq(C) /\ Len(Append(s, x)) = Len(s) + 1 /\ Len(s) \in Nat
  OBVIOUS
<1>2. DOMAIN s = 1..Len(s) /\ DOMAIN Append(s, x) = 1..(Len(s) + 1)
  BY <1>1
<1>3. Append(s, x)[Len(s) + 1] = x
  BY <1>1
<1>4. \A i \in 1..Len(s) : Append(s, x)[i] = s[i]
  OBVIOUS
<1> QED
  BY <1>1, <1>2, <1>3, <1>4

ListedClaim == [party : Nat, slot : [start : Nat, end : Nat], table : Table \cup {NoTable}]

\* The lists of claims that the database can hold: a claim that names a table
\* fits it, and claims on one table do not overlap.
ClaimsApart(s) ==
    /\ s \in Seq(ListedClaim)
    /\ \A i \in Named(s) : FitsParty(s[i].table, s[i].party)
    /\ \A i, j \in Named(s) :
          i # j /\ s[i].table = s[j].table => ~Overlap(s[i].slot, s[j].slot)

\* plan is a seating of the items that name a table and of the first n items.
SeatsUpTo(s, plan, n) ==
    /\ DOMAIN plan = Named(s) \cup (1..n)
    /\ \A i \in Named(s) : plan[i] = s[i].table
    /\ \A i \in DOMAIN plan : /\ plan[i] \in Table \cup {NoTable}
                              /\ plan[i] # NoTable => FitsParty(plan[i], s[i].party)
    /\ \A i, j \in DOMAIN plan :
          i # j /\ plan[i] = plan[j] /\ plan[i] # NoTable => ~Overlap(s[i].slot, s[j].slot)

\* The types of a list of claims.
LEMMA ListFacts ==
    ASSUME NEW s \in Seq(ListedClaim)
    PROVE  /\ Len(s) \in Nat /\ DOMAIN s = 1..Len(s) /\ Named(s) \subseteq 1..Len(s)
           /\ \A i \in 1..Len(s) : s[i].table \in Table \cup {NoTable}
<1>1. \A i \in 1..Len(s) : s[i] \in ListedClaim
  OBVIOUS
<1> QED
  BY <1>1 DEF Named, ListedClaim

\* The tables that items name are a seating.
LEMMA FirstPlanSeats ==
    ASSUME NEW s, ClaimsApart(s)
    PROVE  SeatsUpTo(s, FirstPlan(s), 0)
<1>1. \A i \in Named(s) : s[i].table \in Table
  BY ListFacts DEF ClaimsApart, Named
<1> QED
  BY <1>1 DEF ClaimsApart, SeatsUpTo, FirstPlan

\* Seating one more item keeps the plan a seating.
LEMMA NextPlanSeats ==
    ASSUME NEW s, ClaimsApart(s), NEW n \in 1..Len(s), NEW plan, SeatsUpTo(s, plan, n - 1)
    PROVE  SeatsUpTo(s, SeatNext(s, plan, n), n)
<1>1. /\ Len(s) \in Nat /\ DOMAIN s = 1..Len(s) /\ Named(s) \subseteq 1..Len(s)
      /\ DOMAIN plan = Named(s) \cup (1..(n - 1))
  BY ListFacts DEF ClaimsApart, SeatsUpTo
<1>2. CASE s[n].table # NoTable
  <2>1. n \in Named(s) /\ SeatNext(s, plan, n) = plan
    BY <1>1, <1>2 DEF Named, SeatNext
  <2>2. Named(s) \cup (1..n) = Named(s) \cup (1..(n - 1))
    BY <2>1, <1>1
  <2> QED
    BY <2>1, <2>2 DEF SeatsUpTo
<1>3. CASE s[n].table = NoTable
  <2> DEFINE S == {t \in Table : /\ FitsParty(t, s[n].party)
                                 /\ IsFree(s, plan, t, s[n].slot)}
             seat == BestFit(S)
             next == [i \in DOMAIN plan \cup {n} |-> IF i = n THEN seat ELSE plan[i]]
  <2>1. SeatNext(s, plan, n) = next
    BY <1>3 DEF SeatNext
  <2>2. n \notin Named(s) /\ n \notin DOMAIN plan
    BY <1>1, <1>3 DEF Named
  <2>3. ASSUME seat # NoTable
        PROVE  /\ seat \in Table /\ FitsParty(seat, s[n].party)
               /\ \A i \in DOMAIN plan : plan[i] = seat =>
                     ~Overlap(s[i].slot, s[n].slot) /\ ~Overlap(s[n].slot, s[i].slot)
    <3>1. seat \in S
      BY <2>3, BestFitChosen
    <3> HIDE DEF seat
    <3> QED
      BY <3>1, OverlapSymmetric DEF IsFree
  <2>4. DOMAIN next = Named(s) \cup (1..n)
    BY <1>1
  <2> HIDE DEF seat
  <2>5. next[n] = seat /\ \A i \in DOMAIN plan : next[i] = plan[i] /\ i \in DOMAIN next
    BY <2>2
  <2>6. \A i \in DOMAIN next : i = n \/ i \in DOMAIN plan
    OBVIOUS
  <2> HIDE DEF next
  <2>7. \A i \in Named(s) : next[i] = s[i].table
    BY <1>1, <2>2, <2>5 DEF SeatsUpTo
  <2>8. \A i \in DOMAIN next : /\ next[i] \in Table \cup {NoTable}
                               /\ next[i] # NoTable => FitsParty(next[i], s[i].party)
    BY <2>3, <2>5, <2>6 DEF SeatsUpTo
  <2>9. ASSUME NEW i \in DOMAIN next, NEW j \in DOMAIN next,
               i # j, next[i] = next[j], next[i] # NoTable
        PROVE  ~Overlap(s[i].slot, s[j].slot)
    <3>1. CASE i \in DOMAIN plan /\ j \in DOMAIN plan
      BY <2>9, <3>1, <2>5 DEF SeatsUpTo
    <3>2. CASE i = n /\ j \in DOMAIN plan
      BY <2>9, <3>2, <2>3, <2>5
    <3>3. CASE j = n /\ i \in DOMAIN plan
      BY <2>9, <3>3, <2>3, <2>5
    <3> QED
      BY <2>9, <2>6, <3>1, <3>2, <3>3
  <2>10. SeatsUpTo(s, next, n)
    BY <2>4, <2>7, <2>8, <2>9 DEF SeatsUpTo
  <2> QED
    BY <2>1, <2>10
<1> QED
  BY <1>2, <1>3

\* Each plan is a seating of the items placed so far.
LEMMA PlansSeat ==
    ASSUME NEW s, ClaimsApart(s), NEW plan, Plans(s, plan)
    PROVE  \A n \in 0..Len(s) : SeatsUpTo(s, plan[n], n)
<1>1. Len(s) \in Nat
  BY ListFacts DEF ClaimsApart
<1> DEFINE F == {n \in Nat : n <= Len(s) => SeatsUpTo(s, plan[n], n)}
<1>2. 0 \in F
  BY FirstPlanSeats DEF Plans
<1>3. ASSUME NEW n \in Nat, n \in F
      PROVE  n + 1 \in F
  <2> SUFFICES ASSUME n + 1 <= Len(s) PROVE SeatsUpTo(s, plan[n + 1], n + 1)
    OBVIOUS
  <2>1. n + 1 \in 1..Len(s) /\ (n + 1) - 1 = n
    BY <1>1
  <2>2. SeatsUpTo(s, plan[n], n)
    BY <1>1, <1>3
  <2> HIDE DEF F
  <2>3. SeatsUpTo(s, SeatNext(s, plan[n], n + 1), n + 1)
    BY <2>1, <2>2, NextPlanSeats
  <2> QED
    BY <2>1, <2>3 DEF Plans
<1> HIDE DEF F
<1>4. \A n \in Nat : n \in F
  BY <1>2, <1>3, CountingUp
<1> QED
  BY <1>1, <1>4 DEF F

\* planUnassignedSeating seats every list the database can hold.
LEMMA PlanSeats ==
    ASSUME NEW s, ClaimsApart(s)
    PROVE  SeatsUpTo(s, planUnassignedSeating(s), Len(s))
<1>1. Len(s) \in Nat
  BY ListFacts DEF ClaimsApart
<1>2. PICK plan : Plans(s, plan) /\ planUnassignedSeating(s) = plan[Len(s)]
  BY <1>1, PlanIsLast
<1> QED
  BY <1>1, <1>2, PlansSeat

\* A seat once given is kept by the later plans.
LEMMA SeatsKept ==
    ASSUME NEW s, ClaimsApart(s), NEW plan, Plans(s, plan),
           NEW n \in 0..Len(s), NEW i \in DOMAIN plan[n]
    PROVE  plan[Len(s)][i] = plan[n][i]
<1>1. Len(s) \in Nat /\ DOMAIN s = 1..Len(s)
  BY ListFacts DEF ClaimsApart
<1> DEFINE F == {k \in Nat : n + k <= Len(s) =>
                     i \in DOMAIN plan[n + k] /\ plan[n + k][i] = plan[n][i]}
<1>2. 0 \in F
  OBVIOUS
<1>3. ASSUME NEW k \in Nat, k \in F
      PROVE  k + 1 \in F
  <2> DEFINE m == n + k + 1
  <2> SUFFICES ASSUME m <= Len(s)
               PROVE  i \in DOMAIN plan[m] /\ plan[m][i] = plan[n][i]
    BY <1>1
  <2>1. /\ m \in 1..Len(s) /\ n + k = m - 1 /\ m - 1 \in 0..Len(s)
        /\ i \in DOMAIN plan[m - 1] /\ plan[m - 1][i] = plan[n][i]
    BY <1>1, <1>3
  <2> HIDE DEF m, F
  <2>2. plan[m] = SeatNext(s, plan[m - 1], m)
    BY <2>1 DEF Plans
  <2>3. CASE s[m].table # NoTable
    BY <2>1, <2>2, <2>3 DEF SeatNext
  <2>4. CASE s[m].table = NoTable
    <3>1. SeatsUpTo(s, plan[m - 1], m - 1)
      BY <2>1, PlansSeat
    <3>2. m \notin DOMAIN plan[m - 1]
      BY <2>1, <2>4, <3>1 DEF SeatsUpTo, Named
    <3> QED
      BY <2>1, <2>2, <2>4, <3>2 DEF SeatNext
  <2> QED
    BY <2>3, <2>4
<1>4. \A k \in Nat : k \in F
  <2> HIDE DEF F
  <2> QED
    BY <1>2, <1>3, CountingUp
<1>5. PICK k \in Nat : n + k = Len(s)
  <2>1. Len(s) - n \in Nat /\ n + (Len(s) - n) = Len(s)
    BY <1>1
  <2> QED
    BY <2>1
<1> QED
  BY <1>1, <1>4, <1>5

\* A set without a table that was not its best choice has the same best choice.
LEMMA BestFitWithout ==
    ASSUME NEW S \in SUBSET Table, NEW t, BestFit(S) # NoTable, BestFit(S) # t
    PROVE  BestFit(S \ {t}) = BestFit(S)
<1> DEFINE First(R, u) == \A v \in R \ {u} : TableBefore(u, v)
           R == S \ {t}
<1>1. PICK b \in S : b = BestFit(S) /\ First(S, b)
  BY DEF BestFit
<1>2. b \in R /\ First(R, b)
  BY <1>1
<1>3. ASSUME NEW u \in R, First(R, u)
      PROVE  u = b
  <2> SUFFICES ASSUME u # b PROVE FALSE
    OBVIOUS
  <2>1. TableBefore(u, b) /\ TableBefore(b, u)
    BY <1>2, <1>3
  <2>2. /\ u \in Nat /\ b \in Nat /\ Capacity[u] \in Nat /\ Capacity[b] \in Nat
        /\ MinCapacity[u] \in Nat /\ MinCapacity[b] \in Nat
    BY <1>2, TableAssumption
  <2> QED
    BY <2>1, <2>2 DEF TableBefore
<1>4. (CHOOSE u \in R : First(R, u)) = b
  BY <1>2, <1>3
<1>5. BestFit(R) = IF \E u \in R : First(R, u) THEN CHOOSE u \in R : First(R, u) ELSE NoTable
  BY DEF BestFit
<1> QED
  BY <1>1, <1>2, <1>4, <1>5

\* The plan of a list and of one claim more, which names table t.
Fixed(plan, last, t) == [i \in DOMAIN plan \cup {last} |-> IF i = last THEN t ELSE plan[i]]

\* Fixing an arriving party on a table where its window is free, in a plan that
\* leaves nobody of its window unseated, moves nobody.
LEMMA NextPlanFixed ==
    ASSUME NEW s, ClaimsApart(s), NEW plan, Plans(s, plan),
           NEW x \in ListedClaim, x.table \in Table,
           \A i \in DOMAIN plan[Len(s)] :
               plan[Len(s)][i] \in {x.table, NoTable} => ~Overlap(s[i].slot, x.slot),
           NEW n \in 1..Len(s)
    PROVE  SeatNext(Append(s, x), Fixed(plan[n - 1], Len(s) + 1, x.table), n)
               = Fixed(plan[n], Len(s) + 1, x.table)
<1> DEFINE next == Append(s, x)
           last == Len(s) + 1
           t == x.table
           p == plan[n - 1]
           q == Fixed(p, last, t)
<1>1. /\ Len(s) \in Nat /\ DOMAIN s = 1..Len(s)
      /\ next[last] = x /\ \A i \in 1..Len(s) : next[i] = s[i]
  BY AppendFacts DEF ClaimsApart
<1>2. SeatsUpTo(s, p, n - 1) /\ plan[n] = SeatNext(s, p, n) /\ n \in DOMAIN plan[n]
  <2>1. n - 1 \in 0..Len(s) /\ n \in 0..Len(s)
    BY <1>1
  <2> QED
    BY <2>1, PlansSeat DEF Plans, SeatsUpTo
<1>3. /\ n # last /\ next[n] = s[n] /\ last \notin DOMAIN p
      /\ \A i \in DOMAIN p : next[i] = s[i]
  BY <1>1, <1>2 DEF SeatsUpTo, Named
<1>4. CASE s[n].table # NoTable
  BY <1>2, <1>3, <1>4 DEF SeatNext
<1>5. CASE s[n].table = NoTable
  <2> DEFINE S == {u \in Table : FitsParty(u, s[n].party) /\ IsFree(s, p, u, s[n].slot)}
             T == {u \in Table : FitsParty(u, next[n].party) /\ IsFree(next, q, u, next[n].slot)}
  <2>1. /\ plan[n] = [i \in DOMAIN p \cup {n} |-> IF i = n THEN BestFit(S) ELSE p[i]]
        /\ SeatNext(next, q, n) = [i \in DOMAIN q \cup {n} |-> IF i = n THEN BestFit(T) ELSE q[i]]
    BY <1>2, <1>3, <1>5 DEF SeatNext
  <2>2. \A u : IsFree(next, q, u, s[n].slot) <=>
                  /\ IsFree(s, p, u, s[n].slot)
                  /\ u = t => ~Overlap(x.slot, s[n].slot)
    <3>1. DOMAIN q = DOMAIN p \cup {last} /\ q[last] = t /\ \A i \in DOMAIN p : q[i] = p[i]
      BY <1>3 DEF Fixed
    <3> HIDE DEF q, next, t, p, last
    <3> QED
      BY <1>1, <1>3, <3>1 DEF IsFree
  <2>3. T = IF Overlap(x.slot, s[n].slot) THEN S \ {t} ELSE S
    <3> HIDE DEF q, next, t, p
    <3> QED
      BY <1>3, <2>2
  <2>4. BestFit(T) = BestFit(S)
    <3>1. CASE ~Overlap(x.slot, s[n].slot)
      BY <2>3, <3>1
    <3>2. CASE Overlap(x.slot, s[n].slot)
      <4>1. plan[Len(s)][n] = BestFit(S) /\ n \in DOMAIN plan[Len(s)]
        <5>1. plan[n][n] = BestFit(S)
          BY <2>1
        <5>2. n \in 0..Len(s) /\ Len(s) \in 0..Len(s)
          BY <1>1
        <5>3. SeatsUpTo(s, plan[Len(s)], Len(s))
          BY <5>2, PlansSeat
        <5> QED
          BY <1>2, <5>1, <5>2, <5>3, SeatsKept DEF SeatsUpTo
      <4>2. BestFit(S) # NoTable /\ BestFit(S) # t
        BY <3>2, <4>1, OverlapSymmetric
      <4>3. S \in SUBSET Table
        OBVIOUS
      <4> HIDE DEF S, T, t
      <4>4. BestFit(S \ {t}) = BestFit(S)
        BY <4>2, <4>3, BestFitWithout
      <4> QED
        BY <2>3, <3>2, <4>4
    <3> QED
      BY <3>1, <3>2
  <2> HIDE DEF S, T, t, next, p, last
  <2>5. SeatNext(next, q, n) = Fixed(plan[n], last, t)
    <3> DEFINE D == (DOMAIN p \cup {last}) \cup {n}
               f == [i \in D |-> IF i = n THEN BestFit(S) ELSE IF i = last THEN t ELSE p[i]]
    <3>1. SeatNext(next, q, n) = f
      BY <2>1, <2>4 DEF Fixed
    <3>2. Fixed(plan[n], last, t) = f
      <4> DEFINE g == plan[n]
      <4>1. DOMAIN g \cup {last} = D
        BY <2>1
      <4>2. \A i \in D : (IF i = last THEN t ELSE g[i]) = f[i]
        BY <1>3, <2>1
      <4> HIDE DEF g, D
      <4>3. Fixed(g, last, t) = f
        BY <4>1, <4>2 DEF Fixed
      <4> QED
        BY <4>3 DEF g
    <3> HIDE DEF f, q
    <3> QED
      BY <3>1, <3>2
  <2> QED
    BY <2>5 DEF next, p, last, t
<1> QED
  BY <1>4, <1>5

\* The whole plan of a list and of one claim that names a free table.
LEMMA PlanFixed ==
    ASSUME NEW s, ClaimsApart(s), NEW x \in ListedClaim, x.table \in Table,
           \A i \in DOMAIN planUnassignedSeating(s) :
               planUnassignedSeating(s)[i] \in {x.table, NoTable} => ~Overlap(s[i].slot, x.slot)
    PROVE  planUnassignedSeating(Append(s, x))
               = Fixed(planUnassignedSeating(s), Len(s) + 1, x.table)
<1> DEFINE next == Append(s, x)
           last == Len(s) + 1
<1>1. /\ Len(s) \in Nat /\ DOMAIN s = 1..Len(s) /\ Len(next) = last
      /\ DOMAIN next = 1..last /\ next[last] = x /\ \A i \in 1..Len(s) : next[i] = s[i]
  BY AppendFacts DEF ClaimsApart
<1>2. PICK p : Plans(s, p) /\ planUnassignedSeating(s) = p[Len(s)]
  BY <1>1, PlanIsLast
<1>3. PICK q : Plans(next, q) /\ planUnassignedSeating(next) = q[last]
  <2>1. Len(next) \in Nat
    BY <1>1
  <2> HIDE DEF next
  <2> QED
    BY <1>1, <2>1, PlanIsLast
<1>4. x.table # NoTable
  BY TableAssumption
<1> DEFINE F == {n \in Nat : n <= Len(s) => q[n] = Fixed(p[n], last, x.table)}
<1>5. 0 \in F
  <2> HIDE DEF next, last
  <2>1. Named(next) = Named(s) \cup {last}
    BY <1>1, <1>4 DEF Named, last
  <2>2. last \notin Named(s) /\ \A i \in Named(s) : next[i] = s[i]
    BY <1>1 DEF Named, last
  <2>3. FirstPlan(next) = Fixed(FirstPlan(s), last, x.table)
    BY <1>1, <2>1, <2>2 DEF FirstPlan, Fixed
  <2> QED
    BY <2>3, <1>2, <1>3 DEF Plans
<1>6. ASSUME NEW n \in Nat, n \in F
      PROVE  n + 1 \in F
  <2> SUFFICES ASSUME n + 1 <= Len(s) PROVE q[n + 1] = Fixed(p[n + 1], last, x.table)
    OBVIOUS
  <2>1. n + 1 \in 1..Len(s) /\ n + 1 \in 1..Len(next) /\ (n + 1) - 1 = n
    BY <1>1
  <2>2. q[n] = Fixed(p[n], last, x.table)
    BY <1>1, <1>6
  <2> HIDE DEF F
  <2>3. q[n + 1] = SeatNext(next, q[n], n + 1)
    BY <1>3, <2>1 DEF Plans
  <2>4. SeatNext(next, Fixed(p[n], last, x.table), n + 1) = Fixed(p[n + 1], last, x.table)
    BY <1>2, <2>1, NextPlanFixed
  <2> QED
    BY <2>2, <2>3, <2>4
<1>7. q[Len(s)] = Fixed(p[Len(s)], last, x.table)
  <2> HIDE DEF F
  <2>1. Len(s) \in F
    BY <1>1, <1>5, <1>6, CountingUp
  <2> QED
    BY <1>1, <2>1 DEF F
<1>8. q[last] = q[Len(s)]
  <2>1. last \in 1..Len(next) /\ last - 1 = Len(s)
    BY <1>1
  <2>2. q[last] = SeatNext(next, q[Len(s)], last)
    BY <1>3, <2>1 DEF Plans
  <2> QED
    BY <2>2, <1>1, <1>4 DEF SeatNext
<1> QED
  BY <1>2, <1>3, <1>7, <1>8

(***************************************************************************)
(* Arrivals                                                                *)
(***************************************************************************)
\* One more claim on a table that takes its party, where no claim overlaps it.
LEMMA AppendApart ==
    ASSUME NEW s, ClaimsApart(s), NEW x \in ListedClaim,
           x.table # NoTable => FitsParty(x.table, x.party),
           x.table # NoTable =>
               \A i \in DOMAIN s : s[i].table = x.table => ~Overlap(s[i].slot, x.slot)
    PROVE  ClaimsApart(Append(s, x))
<1> DEFINE next == Append(s, x)
           last == Len(s) + 1
<1>1. /\ next \in Seq(ListedClaim) /\ Len(s) \in Nat
      /\ DOMAIN s = 1..Len(s) /\ DOMAIN next = 1..last
      /\ next[last] = x /\ \A i \in 1..Len(s) : next[i] = s[i]
  BY AppendFacts DEF ClaimsApart
<1> HIDE DEF next
<1>2. \A i \in 1..last : i = last \/ i \in 1..Len(s)
  BY <1>1
<1> HIDE DEF last
<1>3. ASSUME NEW i \in Named(next)
      PROVE  \/ i = last /\ x.table # NoTable
             \/ i \in Named(s) /\ next[i] = s[i] /\ i \in DOMAIN s
  BY <1>1, <1>2 DEF Named
<1>4. \A i \in Named(next) : FitsParty(next[i].table, next[i].party)
  BY <1>1, <1>3 DEF ClaimsApart
<1>5. ASSUME NEW i \in Named(next), NEW j \in Named(next),
             i # j, next[i].table = next[j].table
      PROVE  ~Overlap(next[i].slot, next[j].slot)
  <2>1. CASE i \in Named(s) /\ next[i] = s[i] /\ j \in Named(s) /\ next[j] = s[j]
    BY <1>5, <2>1 DEF ClaimsApart
  <2>2. CASE i = last /\ x.table # NoTable /\ j \in DOMAIN s /\ next[j] = s[j]
    BY <1>1, <1>5, <2>2, OverlapSymmetric
  <2>3. CASE j = last /\ x.table # NoTable /\ i \in DOMAIN s /\ next[i] = s[i]
    BY <1>1, <1>5, <2>3
  <2> QED
    BY <1>3, <1>5, <2>1, <2>2, <2>3
<1>6. ClaimsApart(next)
  BY <1>1, <1>4, <1>5 DEF ClaimsApart
<1> QED
  BY <1>6 DEF next

\* Each arrival keeps the claims apart.
LEMMA ClaimsStayApart ==
    ASSUME ArrivalAssumption, ClaimsApart(items), [ArrivalNext]_items
    PROVE  ClaimsApart(items)'
<1>1. CASE UNCHANGED items
  BY <1>1 DEF ClaimsApart, Named
<1>2. ASSUME NEW a \in Arrival, NEW t \in Table \cup {NoTable}, Arrive(a, t)
      PROVE  ClaimsApart(items)'
  <2>1. PICK x \in ListedClaim : x = [party |-> a.party, slot |-> a.slot, table |-> t]
    BY ArrivalAssumption DEF ListedClaim
  <2>2. /\ x.table # NoTable => FitsParty(x.table, x.party)
        /\ x.table # NoTable =>
               \A i \in DOMAIN items : items[i].table = x.table => ~Overlap(items[i].slot, x.slot)
    BY <1>2, <2>1 DEF Arrive, Placeable
  <2>3. ClaimsApart(Append(items, x))
    BY <2>2, AppendApart
  <2>4. items' = Append(items, x)
    BY <1>2, <2>1 DEF Arrive
  <2> QED
    BY <2>3, <2>4 DEF ClaimsApart, Named
<1> QED
  BY <1>1, <1>2 DEF ArrivalNext

\* No claims are apart.
LEMMA NoClaimsApart == ArrivalInit => ClaimsApart(items)
BY DEF ArrivalInit, ClaimsApart, Named

\* Every list the database can hold is one the planner is proved for.
THEOREM ClaimsAlwaysApart == ArrivalSpec => []ClaimsApart(items)
BY ArrivalAssumption, NoClaimsApart, ClaimsStayApart, PTL DEF ArrivalSpec

\* planUnassignedSeating: for every floor plan and every list of claims, the plan
\* is a seating that keeps the tables already named.
THEOREM PlansSound == ArrivalSpec => []PlanSound
<1>1. ClaimsApart(items) => PlanSound
  <2> SUFFICES ASSUME ClaimsApart(items) PROVE PlanSound
    OBVIOUS
  <2> DEFINE plan == planUnassignedSeating(items)
  <2>1. SeatsUpTo(items, plan, Len(items))
    BY PlanSeats
  <2>2. DOMAIN plan = DOMAIN items
    BY <2>1, ListFacts DEF ClaimsApart, SeatsUpTo
  <2> HIDE DEF plan
  <2>3. /\ \A i \in DOMAIN items : items[i].table # NoTable => plan[i] = items[i].table
        /\ \A i \in DOMAIN items : plan[i] # NoTable => FitsParty(plan[i], items[i].party)
        /\ \A i, j \in DOMAIN items :
              i # j /\ plan[i] = plan[j] /\ plan[i] # NoTable =>
                  ~Overlap(items[i].slot, items[j].slot)
    BY <2>1, <2>2 DEF SeatsUpTo, Named
  <2> QED
    BY <2>2, <2>3 DEF PlanSound, plan
<1> QED
  BY <1>1, ClaimsAlwaysApart, PTL

\* findUnassignedSeatingConflict: for every floor plan and every list of claims,
\* a party accepted without a table can be given one that leaves nobody of its
\* window unseated.
THEOREM VerdictsHaveWitness == ArrivalSpec => []VerdictHasWitness
<1>1. ClaimsApart(items) => VerdictHasWitness
  <2> SUFFICES ASSUME ClaimsApart(items), NEW a \in Arrival, Table # {},
                      ~findUnassignedSeatingConflict(items, a.party, a.slot, NoTable)
               PROVE  \E t \in Table :
                         /\ FitsParty(t, a.party) /\ Placeable(t, a.slot)
                         /\ ~findUnassignedSeatingConflict(items, a.party, a.slot, t)
    BY DEF VerdictHasWitness
  <2> DEFINE plan == planUnassignedSeating(items)
  <2>1. PICK t \in Table : FitsParty(t, a.party) /\ IsFree(items, plan, t, a.slot)
    BY DEF findUnassignedSeatingConflict, hasSeatFor
  <2>2. ~isWindowBlocked(items, plan, a.slot)
    BY DEF findUnassignedSeatingConflict
  <2>3. PICK x \in ListedClaim : x = [party |-> a.party, slot |-> a.slot, table |-> t]
    BY ArrivalAssumption DEF ListedClaim
  <2>4. SeatsUpTo(items, plan, Len(items)) /\ Len(items) \in Nat /\ DOMAIN items = 1..Len(items)
    BY PlanSeats, ListFacts DEF ClaimsApart
  <2>5. DOMAIN plan = DOMAIN items /\ \A i \in Named(items) : plan[i] = items[i].table
    BY <2>4, ListFacts DEF ClaimsApart, SeatsUpTo
  <2> HIDE DEF plan
  <2>6. t # NoTable
    BY TableAssumption
  <2>7. Placeable(t, a.slot)
    BY <2>1, <2>5, <2>6 DEF Placeable, IsFree, Named
  <2>8. \A i \in DOMAIN plan : plan[i] \in {x.table, NoTable} => ~Overlap(items[i].slot, x.slot)
    BY <2>1, <2>2, <2>3 DEF IsFree, isWindowBlocked
  <2>9. planUnassignedSeating(Append(items, x)) = Fixed(plan, Len(items) + 1, t)
    <3>1. x.table \in Table
      BY <2>3
    <3> QED
      BY <2>3, <2>8, <3>1, PlanFixed DEF plan
  <2>10. ~isWindowBlocked(Append(items, x), Fixed(plan, Len(items) + 1, t), x.slot)
    <3>1. \A i \in DOMAIN plan : i \in 1..Len(items) /\ Append(items, x)[i] = items[i]
      BY <2>4, <2>5, AppendFacts DEF ClaimsApart
    <3>2. \A i \in DOMAIN plan : i # Len(items) + 1
      BY <2>4, <2>5
    <3> QED
      BY <2>3, <2>6, <2>8, <3>1, <3>2 DEF isWindowBlocked, Fixed
  <2>11. ~findUnassignedSeatingConflict(items, a.party, a.slot, t)
    BY <2>3, <2>6, <2>9, <2>10 DEF findUnassignedSeatingConflict
  <2> QED
    BY <2>1, <2>7, <2>11
<1> QED
  BY <1>1, ClaimsAlwaysApart, PTL

=============================================================================
