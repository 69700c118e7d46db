--------------------------- MODULE OutboxProofs ---------------------------
(***************************************************************************)
(* The outbox implements Relay for every set of events, every number of    *)
(* dispatchers and every batch limit.                                      *)
(***************************************************************************)
EXTENDS Outbox, WellFoundedInduction, TLAPS

(***************************************************************************)
(* The inductive invariant                                                 *)
(***************************************************************************)
\* The event has reached the queue, or is past it.
Published(e) == e \in handled \/ job[e].state # "none"

\* A finished delivery has handled its event.
FinishedHandled == \A e \in Event : job[e].state \in {"consumed", "done"} => e \in handled

\* Only recorded events are claimed, published or handled.
OnlyRecorded ==
    \A e \in Event : row[e].status = "NONE" =>
        /\ ~Published(e)
        /\ \A d \in Dispatcher : e \notin disp[d].batch

\* A row is only marked after its event was published.
DispatchedPublished == \A e \in Event : row[e].status = "DISPATCHED" => Published(e)

\* A dispatcher about to settle a row has one, and published it before marking.
Settling ==
    \A d \in Dispatcher :
        /\ disp[d].pc \in {"mark", "release"} => disp[d].batch # {}
        /\ disp[d].pc = "mark" => Published(Current(d))

IInv == TypeOK /\ FinishedHandled /\ OnlyRecorded /\ DispatchedPublished /\ Settling

\* The least element of a non-empty set of events belongs to it.
LEMMA LeastMember ==
    ASSUME NEW S \in SUBSET Event, S # {}
    PROVE  Least(S) \in S
<1>1. S \subseteq Nat  BY OutboxAssumption
<1>2. PICK x \in S : \A y \in S : ~(<<y, x>> \in OpToRel(<, Nat))
  <2> HIDE DEF OpToRel
  <2> QED  BY <1>1, NatLessThanWellFounded, WFMin
<1>3. \A y \in S : x <= y
  <2> SUFFICES ASSUME NEW y \in S, ~(x <= y) PROVE FALSE  OBVIOUS
  <2>1. y < x /\ <<y, x>> \in Nat \X Nat  BY <1>1
  <2>2. <<y, x>> \in OpToRel(<, Nat)  BY <2>1 DEF OpToRel
  <2> QED  BY <2>2, <1>2
<1> QED  BY <1>3 DEF Least

LEMMA InitInv == Init => IInv
<1> SUFFICES ASSUME Init PROVE IInv  OBVIOUS
<1>1. TypeOK  BY DEF Init, TypeOK, Row, Resting, At, NoJob, Job
<1> QED  BY <1>1 DEF Init, IInv, FinishedHandled, OnlyRecorded, DispatchedPublished, Settling,
              Published, Row, Resting, At, NoJob, Job

(***************************************************************************)
(* Type correctness                                                        *)
(***************************************************************************)
RowRecord ==
    [status : {"NONE", "PENDING", "DISPATCHING", "DISPATCHED"}, timer : {"running", "over"}]
JobRecord ==
    [state : {"none", "waiting", "active", "consumed", "failed", "done"}, timer : {"running", "over"}]

LEMMA RecordTypes ==
    /\ \A timer \in {"running", "over"}, status \in {"NONE", "PENDING", "DISPATCHING", "DISPATCHED"} :
          Row(status, timer) \in RowRecord
    /\ \A state \in {"none", "waiting", "active", "consumed", "failed", "done"} :
          Job(state) \in JobRecord
BY DEF Row, Job, RowRecord, JobRecord

LEMMA DispatchType ==
    ASSUME TypeOK, NEW d \in Dispatcher, Dispatch(d) \/ CrashDispatcher(d)
    PROVE  TypeOK'
<1>1. CASE recoverExpiredLeases(d)
  BY <1>1, RecordTypes DEF recoverExpiredLeases, TypeOK, Goto, At, RowRecord
<1>2. CASE claimPending(d)
  BY <1>2, RecordTypes DEF claimPending, TypeOK, Oldest, Claimable, At, RowRecord
<1>3. CASE Publish(d)
  BY <1>3, RecordTypes DEF Publish, TypeOK, Goto, At, Add, JobRecord, NewJob
<1>4. CASE PublishFails(d)
  BY <1>4, RecordTypes DEF PublishFails, TypeOK, Goto, At, Add, JobRecord, NewJob
<1>5. CASE Mark(d)
  BY <1>5, RecordTypes DEF Mark, TypeOK, Advance, At, markDispatched, RowRecord
<1>6. CASE MarkFails(d)
  <2>1. markDispatched(Current(d)) \in [Event -> RowRecord]
    BY RecordTypes DEF TypeOK, markDispatched, RowRecord
  <2>2. row' \in [Event -> RowRecord]
    BY <1>6, <2>1 DEF MarkFails, TypeOK, RowRecord
  <2> QED  BY <1>6, <2>2 DEF MarkFails, TypeOK, Goto, At, RowRecord
<1>7. CASE Release(d)
  BY <1>7, RecordTypes DEF Release, TypeOK, Advance, At, releaseForRetry, RowRecord
<1>8. CASE EndBatch(d)
  BY <1>8 DEF EndBatch, TypeOK, Resting, At
<1>9. CASE retryFailedNotifications(d)
  BY <1>9, RecordTypes DEF retryFailedNotifications, TypeOK, Resting, At, JobRecord, NewJob
<1>10. CASE CrashDispatcher(d)
  BY <1>10 DEF CrashDispatcher, TypeOK, Resting, At
<1> QED  BY <1>1, <1>2, <1>3, <1>4, <1>5, <1>6, <1>7, <1>8, <1>9, <1>10 DEF Dispatch

LEMMA DeliverType ==
    ASSUME TypeOK, NEW e \in Event, enqueue(e) \/ Deliver(e) \/ EvictJob(e) \/ TimePasses(e)
    PROVE  TypeOK'
<1>1. CASE enqueue(e)
  BY <1>1, RecordTypes DEF enqueue, TypeOK, SetJob, RowRecord, JobRecord, NoJob, NewJob
<1>2. CASE StartDelivery(e)
  BY <1>2, RecordTypes DEF StartDelivery, TypeOK, SetJob, RowRecord, JobRecord, NoJob, NewJob
<1>3. CASE Consume(e)
  BY <1>3, RecordTypes DEF Consume, TypeOK, SetJob, RowRecord, JobRecord, NoJob, NewJob
<1>4. CASE Defer(e)
  BY <1>4, RecordTypes DEF Defer, TypeOK, SetJob, RowRecord, JobRecord, NoJob, NewJob
<1>5. CASE CompleteDelivery(e)
  BY <1>5, RecordTypes DEF CompleteDelivery, TypeOK, SetJob, RowRecord, JobRecord, NoJob, NewJob
<1>6. CASE DeliveryFails(e)
  BY <1>6, RecordTypes DEF DeliveryFails, TypeOK, SetJob, RowRecord, JobRecord, NoJob, NewJob
<1>7. CASE EvictJob(e)
  BY <1>7, RecordTypes DEF EvictJob, TypeOK, SetJob, RowRecord, JobRecord, NoJob, NewJob
<1>8. CASE DelayPasses(e)
  BY <1>8, RecordTypes DEF DelayPasses, TypeOK, SetJob, RowRecord, JobRecord, NoJob, NewJob
<1>9. CASE LeasePasses(e)
  BY <1>9, RecordTypes DEF LeasePasses, TypeOK, SetJob, RowRecord, JobRecord, NoJob, NewJob
<1>10. CASE HourPasses(e)
  BY <1>10 DEF HourPasses, TypeOK, SetJob, RowRecord, JobRecord, NoJob, NewJob
<1> QED  BY <1>1, <1>2, <1>3, <1>4, <1>5, <1>6, <1>7, <1>8, <1>9, <1>10 DEF Deliver, TimePasses

(***************************************************************************)
(* The invariant is inductive                                              *)
(***************************************************************************)
LEMMA CurrentMember ==
    ASSUME TypeOK, NEW d \in Dispatcher, disp[d].batch # {}
    PROVE  Current(d) \in disp[d].batch /\ Current(d) \in Event
BY LeastMember DEF TypeOK, Current

\* What is published stays published: only a finished job is evicted.
LEMMA PublishedKept ==
    ASSUME IInv, [Next]_vars, NEW e \in Event, Published(e)
    PROVE  Published(e)'
<1> USE DEF IInv, Published
<1>1. ASSUME NEW d \in Dispatcher, Dispatch(d) \/ CrashDispatcher(d)
      PROVE  Published(e)'
  <2>1. CASE Publish(d) \/ PublishFails(d)
    BY <2>1 DEF Publish, PublishFails, Add, NewJob, Job, TypeOK
  <2>2. CASE retryFailedNotifications(d)
    BY <2>2 DEF retryFailedNotifications, NewJob, Job, TypeOK
  <2> QED
    BY <1>1, <2>1, <2>2 DEF Dispatch, CrashDispatcher, recoverExpiredLeases, claimPending, Mark,
        MarkFails, Release, EndBatch
<1>2. ASSUME NEW f \in Event, enqueue(f) \/ Deliver(f) \/ EvictJob(f) \/ TimePasses(f)
      PROVE  Published(e)'
  <2>1. CASE EvictJob(f)
    BY <2>1 DEF EvictJob, FinishedHandled, TypeOK
  <2>2. CASE Deliver(f)
    BY <2>2 DEF Deliver, StartDelivery, Consume, Defer, CompleteDelivery, DeliveryFails, SetJob,
        NewJob, Job, TypeOK
  <2> QED
    BY <1>2, <2>1, <2>2 DEF enqueue, TimePasses, DelayPasses, LeasePasses, HourPasses, TypeOK
<1> QED
  BY <1>1, <1>2 DEF Next, Stabilise, vars

\* A dispatcher neither creates nor removes rows.
LEMMA DispatchNone ==
    ASSUME TypeOK, NEW d \in Dispatcher, Dispatch(d) \/ CrashDispatcher(d)
    PROVE  \A e \in Event : row[e].status = "NONE" <=> row'[e].status = "NONE"
<1>1. CASE Mark(d) \/ MarkFails(d)
  BY <1>1 DEF Mark, MarkFails, markDispatched, Row, TypeOK
<1>2. CASE Release(d)
  BY <1>2 DEF Release, releaseForRetry, Row, TypeOK
<1>3. CASE recoverExpiredLeases(d)
  BY <1>3 DEF recoverExpiredLeases, Expired, Row, TypeOK
<1>4. CASE claimPending(d)
  BY <1>4 DEF claimPending, Oldest, Claimable, Row, TypeOK
<1> QED
  BY <1>1, <1>2, <1>3, <1>4 DEF Dispatch, CrashDispatcher, Publish, PublishFails, EndBatch,
      retryFailedNotifications

LEMMA DispatchInv ==
    ASSUME IInv, NEW d \in Dispatcher, Dispatch(d) \/ CrashDispatcher(d)
    PROVE  IInv'
<1> USE DEF IInv
<1>1. TypeOK'
  BY DispatchType
<1>2. \A e \in Event : Published(e) => Published(e)'
  BY PublishedKept DEF Next
<1>3. handled' = handled
  BY DEF Dispatch, CrashDispatcher, recoverExpiredLeases, claimPending, Publish, PublishFails, Mark,
      MarkFails, Release, EndBatch, retryFailedNotifications
<1>4. disp[d].pc \in {"mark", "release"} \/ disp[d].batch # {}
         => Current(d) \in disp[d].batch /\ Current(d) \in Event
  BY CurrentMember DEF Settling
<1>5. FinishedHandled'
  <2>1. CASE Publish(d) \/ PublishFails(d)
    BY <2>1, <1>3 DEF Publish, PublishFails, Add, NewJob, Job, TypeOK, FinishedHandled
  <2>2. CASE retryFailedNotifications(d)
    BY <2>2, <1>3 DEF retryFailedNotifications, NewJob, Job, TypeOK, FinishedHandled
  <2> QED
    BY <2>1, <2>2, <1>3 DEF Dispatch, CrashDispatcher, recoverExpiredLeases, claimPending, Mark,
        MarkFails, Release, EndBatch, FinishedHandled
<1>6. \A e \in Event : row[e].status = "NONE" <=> row'[e].status = "NONE"
  BY DispatchNone
<1>7. OnlyRecorded'
  <2> SUFFICES ASSUME NEW e \in Event, row'[e].status = "NONE"
               PROVE  ~Published(e)' /\ \A x \in Dispatcher : e \notin disp'[x].batch
    BY DEF OnlyRecorded
  <2>1. ~Published(e) /\ \A x \in Dispatcher : e \notin disp[x].batch
    BY <1>6 DEF OnlyRecorded
  <2>2. ~Published(e)'
    <3>1. CASE Publish(d) \/ PublishFails(d)
      BY <3>1, <2>1, <1>3, <1>4 DEF Publish, PublishFails, Add, Published, TypeOK
    <3>2. CASE retryFailedNotifications(d)
      BY <3>2, <2>1, <1>3 DEF retryFailedNotifications, Retriable, Published, TypeOK
    <3> QED
      BY <3>1, <3>2, <2>1, <1>3 DEF Dispatch, CrashDispatcher, recoverExpiredLeases, claimPending,
          Mark, MarkFails, Release, EndBatch, Published
  <2>3. \A x \in Dispatcher : e \notin disp'[x].batch
    <3>1. CASE claimPending(d)
      BY <3>1, <2>1, <1>6 DEF claimPending, Oldest, Claimable, At, Row, TypeOK
    <3>2. CASE Mark(d) \/ Release(d)
      BY <3>2, <2>1 DEF Mark, Release, Advance, At, TypeOK
    <3>3. CASE EndBatch(d) \/ retryFailedNotifications(d) \/ CrashDispatcher(d)
      BY <3>3, <2>1 DEF EndBatch, retryFailedNotifications, CrashDispatcher, Resting, At, TypeOK
    <3>4. CASE recoverExpiredLeases(d) \/ Publish(d) \/ PublishFails(d) \/ MarkFails(d)
      BY <3>4, <2>1 DEF recoverExpiredLeases, Publish, PublishFails, MarkFails, Goto, At, TypeOK
    <3> QED
      BY <3>1, <3>2, <3>3, <3>4 DEF Dispatch
  <2> QED  BY <2>2, <2>3
<1>8. DispatchedPublished'
  <2>1. CASE Mark(d) \/ MarkFails(d)
    BY <2>1, <1>2, <1>4 DEF Mark, MarkFails, markDispatched, Row, TypeOK, DispatchedPublished, Settling
  <2>2. CASE Release(d)
    BY <2>2, <1>2 DEF Release, releaseForRetry, Row, TypeOK, DispatchedPublished
  <2>3. CASE recoverExpiredLeases(d)
    BY <2>3, <1>2 DEF recoverExpiredLeases, Expired, Row, TypeOK, DispatchedPublished
  <2>4. CASE claimPending(d)
    BY <2>4, <1>2 DEF claimPending, Oldest, Claimable, Row, TypeOK, DispatchedPublished
  <2> QED
    BY <2>1, <2>2, <2>3, <2>4, <1>2 DEF Dispatch, CrashDispatcher, Publish, PublishFails, EndBatch,
        retryFailedNotifications, DispatchedPublished
<1>9. Settling'
  <2>1. ASSUME NEW x \in Dispatcher, x # d
        PROVE  /\ disp'[x].pc \in {"mark", "release"} => disp'[x].batch # {}
               /\ disp'[x].pc = "mark" => Published(Current(x))'
    <3>1. disp'[x] = disp[x]
      BY <2>1 DEF Dispatch, CrashDispatcher, recoverExpiredLeases, claimPending, Publish, PublishFails,
          Mark, MarkFails, Release, EndBatch, retryFailedNotifications, Goto, Advance, TypeOK
    <3>2. Current(x)' = Current(x)
      BY <3>1 DEF Current
    <3> QED
      BY <3>1, <3>2, <1>2, CurrentMember DEF Settling, Published
  <2>2. /\ disp'[d].pc \in {"mark", "release"} => disp'[d].batch # {}
        /\ disp'[d].pc = "mark" => Published(Current(d))'
    <3>1. CASE Publish(d)
      <4>1. disp'[d].batch = disp[d].batch /\ Current(d)' = Current(d)
        BY <3>1 DEF Publish, Goto, At, TypeOK, Current
      <4>2. job'[Current(d)].state # "none"
        BY <3>1, <1>4 DEF Publish, Add, NewJob, Job, TypeOK
      <4> QED
        BY <3>1, <4>1, <4>2 DEF Publish, Published
    <3>2. CASE PublishFails(d) \/ MarkFails(d)
      BY <3>2 DEF PublishFails, MarkFails, Goto, At, TypeOK, Settling
    <3> QED
      BY <3>1, <3>2 DEF Dispatch, CrashDispatcher, recoverExpiredLeases, claimPending, Mark, Release,
          EndBatch, retryFailedNotifications, Goto, Advance, Resting, At, TypeOK
  <2> QED  BY <2>1, <2>2 DEF Settling
<1> QED
  BY <1>1, <1>5, <1>7, <1>8, <1>9

LEMMA DeliverInv ==
    ASSUME IInv, NEW e \in Event, enqueue(e) \/ Deliver(e) \/ EvictJob(e) \/ TimePasses(e)
    PROVE  IInv'
<1> USE DEF IInv
<1>1. TypeOK'
  BY DeliverType
<1>2. \A f \in Event : Published(f) => Published(f)'
  BY PublishedKept DEF Next
<1>3. disp' = disp
  BY DEF enqueue, Deliver, StartDelivery, Consume, Defer, CompleteDelivery, DeliveryFails, EvictJob,
      TimePasses, DelayPasses, LeasePasses, HourPasses
<1>4. FinishedHandled'
  <2>1. CASE Consume(e)
    BY <2>1 DEF Consume, SetJob, Job, TypeOK, FinishedHandled
  <2> QED
    BY <2>1 DEF enqueue, Deliver, StartDelivery, Defer, CompleteDelivery, DeliveryFails, EvictJob,
        TimePasses, DelayPasses, LeasePasses, HourPasses, SetJob, NewJob, NoJob, Job, TypeOK,
        FinishedHandled
<1>5. \A f \in Event : row'[f].status = "NONE" => row[f].status = "NONE"
  BY DEF enqueue, Deliver, StartDelivery, Consume, Defer, CompleteDelivery, DeliveryFails, EvictJob,
      TimePasses, DelayPasses, LeasePasses, HourPasses, Row, TypeOK
<1>6. OnlyRecorded'
  <2> SUFFICES ASSUME NEW f \in Event, row'[f].status = "NONE"
               PROVE  ~Published(f)' /\ \A d \in Dispatcher : f \notin disp'[d].batch
    BY DEF OnlyRecorded
  <2>1. ~Published(f) /\ \A d \in Dispatcher : f \notin disp[d].batch
    BY <1>5 DEF OnlyRecorded
  <2>2. ~Published(f)'
    BY <2>1 DEF enqueue, Deliver, StartDelivery, Consume, Defer, CompleteDelivery, DeliveryFails,
        EvictJob, TimePasses, DelayPasses, LeasePasses, HourPasses, SetJob, NoJob, Job, TypeOK, Published
  <2> QED  BY <2>1, <2>2, <1>3
<1>7. DispatchedPublished'
  <2>1. \A f \in Event : row'[f].status = "DISPATCHED" => row[f].status = "DISPATCHED"
    <3>1. CASE enqueue(e) \/ DelayPasses(e) \/ LeasePasses(e)
      BY <3>1 DEF enqueue, DelayPasses, LeasePasses, Row, TypeOK
    <3> QED
      BY <3>1 DEF Deliver, StartDelivery, Consume, Defer, CompleteDelivery, DeliveryFails, EvictJob,
          TimePasses, HourPasses
  <2> QED
    BY <2>1, <1>2 DEF DispatchedPublished
<1>8. Settling'
  <2>1. \A d \in Dispatcher : Current(d)' = Current(d)
    BY <1>3 DEF Current
  <2> QED
    BY <2>1, <1>2, <1>3, CurrentMember DEF Settling, Published
<1> QED
  BY <1>1, <1>4, <1>6, <1>7, <1>8

LEMMA NextInv == IInv /\ [Next]_vars => IInv'
<1> SUFFICES ASSUME IInv, [Next]_vars PROVE IInv'  OBVIOUS
<1>1. CASE Stabilise
  BY <1>1 DEF Stabilise, IInv, TypeOK, FinishedHandled, OnlyRecorded, DispatchedPublished, Settling,
      Published, Current
<1>2. CASE UNCHANGED vars
  BY <1>2 DEF vars, IInv, TypeOK, FinishedHandled, OnlyRecorded, DispatchedPublished, Settling,
      Published, Current
<1> QED
  BY <1>1, <1>2, DispatchInv, DeliverInv DEF Next

\* Every reachable state is well formed.
THEOREM OutboxTypeCorrect == Spec => []TypeOK
<1>1. IInv => TypeOK  BY DEF IInv
<1> QED  BY <1>1, InitInv, NextInv, PTL DEF Spec

(***************************************************************************)
(* The refinement                                                          *)
(***************************************************************************)
GivenUp(e) == job[e].state = "failed" /\ e \notin Retried

OwedTo(e) ==
    IF row[e].status = "NONE" THEN "absent"
    ELSE IF e \in handled THEN "handled"
    ELSE IF GivenUp(e) THEN "abandoned" ELSE "owed"

\* No event is lost: a recorded event that is neither handled nor given up is
\* carried by its row or by its job.
LEMMA NothingLost == IInv => promise = [e \in Event |-> OwedTo(e)]
<1> SUFFICES ASSUME IInv, NEW e \in Event PROVE promise[e] = OwedTo(e)
  BY DEF promise
<1>1. CASE row[e].status \in {"PENDING", "DISPATCHING"}
  BY <1>1 DEF IInv, TypeOK, FinishedHandled, promise, Carried, GivenUp, OwedTo
<1>2. CASE row[e].status = "DISPATCHED"
  BY <1>2 DEF IInv, TypeOK, FinishedHandled, DispatchedPublished, Published, promise, Carried, GivenUp,
      OwedTo
<1> QED
  BY <1>1, <1>2 DEF IInv, TypeOK, promise, OwedTo

LEMMA NothingLostNext == (IInv => promise = [e \in Event |-> OwedTo(e)])'
BY NothingLost, PTL

\* A step owes an event what it owed before, unless it records or handles the
\* event or gives it up.
LEMMA SameOwed ==
    ASSUME NEW e \in Event,
           row'[e].status = "NONE" <=> row[e].status = "NONE",
           e \in handled' <=> e \in handled, GivenUp(e)' <=> GivenUp(e)
    PROVE  OwedTo(e)' = OwedTo(e)
BY DEF OwedTo

LEMMA SameRelay ==
    ASSUME IInv, IInv', \A e \in Event : OwedTo(e)' = OwedTo(e)
    PROVE  promise' = promise
BY NothingLost, NothingLostNext

LEMMA OneRelay ==
    ASSUME IInv, IInv', NEW f \in Event, \A e \in Event \ {f} : OwedTo(e)' = OwedTo(e)
    PROVE  promise' = [promise EXCEPT ![f] = OwedTo(f)']
BY NothingLost, NothingLostNext

LEMMA DispatchRelay ==
    ASSUME IInv, IInv', NEW d \in Dispatcher, Dispatch(d) \/ CrashDispatcher(d)
    PROVE  promise' = promise
<1> USE DEF IInv
<1>1. handled' = handled
  BY DEF Dispatch, CrashDispatcher, recoverExpiredLeases, claimPending, Publish, PublishFails, Mark,
      MarkFails, Release, EndBatch, retryFailedNotifications
<1>2. \A e \in Event : GivenUp(e)' <=> GivenUp(e)
  <2>1. CASE Publish(d) \/ PublishFails(d)
    BY <2>1 DEF Publish, PublishFails, Add, NewJob, Job, TypeOK, GivenUp
  <2>2. CASE retryFailedNotifications(d)
    BY <2>2 DEF retryFailedNotifications, Retriable, NewJob, Job, TypeOK, GivenUp
  <2> QED
    BY <2>1, <2>2 DEF Dispatch, CrashDispatcher, recoverExpiredLeases, claimPending, Mark,
        MarkFails, Release, EndBatch, GivenUp
<1>3. \A e \in Event : row'[e].status = "NONE" <=> row[e].status = "NONE"
  BY DispatchNone
<1>4. \A e \in Event : OwedTo(e)' = OwedTo(e)
  BY <1>1, <1>2, <1>3, SameOwed
<1> QED
  BY <1>4, SameRelay

LEMMA DeliverRelay ==
    ASSUME IInv, IInv', NEW e \in Event, enqueue(e) \/ Deliver(e) \/ EvictJob(e) \/ TimePasses(e)
    PROVE  promise' = promise \/ Relay!Record(e) \/ Relay!Handle(e) \/ Relay!Abandon(e)
<1> USE DEF IInv
<1>1. CASE enqueue(e)
  <2>1. \A f \in Event \ {e} : OwedTo(f)' = OwedTo(f)
    BY <1>1, SameOwed DEF enqueue, GivenUp, TypeOK
  <2>2. OwedTo(e) = "absent" /\ OwedTo(e)' = "owed"
    BY <1>1 DEF enqueue, OwedTo, GivenUp, OnlyRecorded, Published, Row, TypeOK
  <2> QED
    BY <2>1, <2>2, OneRelay, NothingLost DEF Relay!Record
<1>2. CASE Consume(e)
  <2>1. \A f \in Event \ {e} : OwedTo(f)' = OwedTo(f)
    BY <1>2, SameOwed DEF Consume, SetJob, GivenUp, TypeOK
  <2>2. OwedTo(e)' = "handled" /\ OwedTo(e) \in {"owed", "handled"}
    BY <1>2 DEF Consume, OwedTo, GivenUp, OnlyRecorded, Published, TypeOK
  <2>3. promise' = [promise EXCEPT ![e] = "handled"] /\ promise[e] = OwedTo(e)
    BY <2>1, <2>2, OneRelay, NothingLost
  <2>4. CASE OwedTo(e) = "owed"
    BY <2>3, <2>4 DEF Relay!Handle
  <2>5. CASE OwedTo(e) = "handled"
    BY <2>3, <2>5, NothingLost
  <2> QED
    BY <2>2, <2>4, <2>5
<1>3. CASE DeliveryFails(e)
  <2>1. \A f \in Event \ {e} : OwedTo(f)' = OwedTo(f)
    BY <1>3, SameOwed DEF DeliveryFails, SetJob, GivenUp, TypeOK
  <2>2. row[e].status # "NONE" /\ row' = row /\ handled' = handled /\ ~GivenUp(e)
    BY <1>3 DEF DeliveryFails, OnlyRecorded, Published, GivenUp, TypeOK
  <2>3. CASE e \in handled \/ ~GivenUp(e)'
    <3>1. OwedTo(e)' = OwedTo(e)
      BY <2>2, <2>3 DEF OwedTo
    <3> QED
      BY <2>1, <3>1, SameRelay
  <2>4. CASE e \notin handled /\ GivenUp(e)'
    <3>1. OwedTo(e) = "owed" /\ OwedTo(e)' = "abandoned" /\ e \notin Retried
      BY <2>2, <2>4 DEF OwedTo, GivenUp
    <3> QED
      BY <2>1, <3>1, OneRelay, NothingLost DEF Relay!Abandon
  <2> QED
    BY <2>3, <2>4
<1>4. CASE StartDelivery(e) \/ Defer(e) \/ CompleteDelivery(e) \/ EvictJob(e) \/ HourPasses(e)
  <2>1. \A f \in Event : GivenUp(f)' <=> GivenUp(f)
    BY <1>4 DEF StartDelivery, Defer, CompleteDelivery, EvictJob, HourPasses, SetJob, NewJob, NoJob, Job,
        GivenUp, TypeOK
  <2>2. row' = row /\ handled' = handled
    BY <1>4 DEF StartDelivery, Defer, CompleteDelivery, EvictJob, HourPasses
  <2> QED
    BY <2>1, <2>2, SameOwed, SameRelay
<1>5. CASE DelayPasses(e) \/ LeasePasses(e)
  <2>1. \A f \in Event : row'[f].status = "NONE" <=> row[f].status = "NONE"
    BY <1>5 DEF DelayPasses, LeasePasses, Row, TypeOK
  <2>2. handled' = handled /\ \A f \in Event : GivenUp(f)' <=> GivenUp(f)
    BY <1>5 DEF DelayPasses, LeasePasses, GivenUp
  <2> QED
    BY <2>1, <2>2, SameOwed, SameRelay
<1> QED
  BY <1>1, <1>2, <1>3, <1>4, <1>5 DEF Deliver, TimePasses

\* The outbox implements Relay: through crashes, lost answers, expired leases and
\* dispatchers settling each other's claims, a recorded event is handled, owed,
\* or (if nobody retries its topic) given up after its delivery failed.
THEOREM OutboxDelivers == Spec => AtLeastOnce
<1>1. Init => Relay!Init
  BY DEF Init, Relay!Init, promise, Row
<1>2. IInv /\ IInv' /\ [Next]_vars => [Relay!Next]_promise
  <2> SUFFICES ASSUME IInv, IInv', [Next]_vars PROVE [Relay!Next]_promise
    OBVIOUS
  <2>1. CASE Stabilise \/ UNCHANGED vars
    BY <2>1 DEF Stabilise, vars, promise, Carried
  <2> QED
    BY <2>1, DispatchRelay, DeliverRelay DEF Next, Relay!Next
<1> QED
  BY <1>1, <1>2, InitInv, NextInv, PTL DEF Spec, AtLeastOnce, Relay!Spec

\* A row that was marked is never claimed or released again, whoever settles it.
THEOREM DispatchedIsFinal == Spec => DispatchedFinal
<1>1. IInv /\ [Next]_vars =>
        [\A e \in Event : row[e].status = "DISPATCHED" => row'[e].status = "DISPATCHED"]_vars
  <2> SUFFICES ASSUME IInv, Next, NEW e \in Event, row[e].status = "DISPATCHED"
               PROVE  row'[e].status = "DISPATCHED"
    OBVIOUS
  <2> USE DEF IInv
  <2>1. ASSUME NEW d \in Dispatcher, Dispatch(d) \/ CrashDispatcher(d)
        PROVE  row'[e].status = "DISPATCHED"
    <3>1. CASE Mark(d) \/ MarkFails(d)
      BY <3>1 DEF Mark, MarkFails, markDispatched, Row, TypeOK
    <3>2. CASE Release(d)
      BY <3>2 DEF Release, releaseForRetry, Row, TypeOK
    <3>3. CASE recoverExpiredLeases(d)
      BY <3>3 DEF recoverExpiredLeases, Expired, Row, TypeOK
    <3>4. CASE claimPending(d)
      BY <3>4 DEF claimPending, Oldest, Claimable, Row, TypeOK
    <3> QED
      BY <2>1, <3>1, <3>2, <3>3, <3>4 DEF Dispatch, CrashDispatcher, Publish, PublishFails, EndBatch,
          retryFailedNotifications
  <2>2. ASSUME NEW f \in Event, enqueue(f) \/ Deliver(f) \/ EvictJob(f) \/ TimePasses(f)
        PROVE  row'[e].status = "DISPATCHED"
    <3>1. CASE enqueue(f) \/ DelayPasses(f) \/ LeasePasses(f)
      BY <3>1 DEF enqueue, DelayPasses, LeasePasses, Row, TypeOK
    <3> QED
      BY <2>2, <3>1 DEF Deliver, StartDelivery, Consume, Defer, CompleteDelivery, DeliveryFails, EvictJob,
          TimePasses, HourPasses
  <2> QED
    BY <2>1, <2>2 DEF Next, Stabilise
<1> QED
  BY <1>1, InitInv, NextInv, PTL DEF Spec, DispatchedFinal

=============================================================================
