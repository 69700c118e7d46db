------------------------------- MODULE Outbox -------------------------------
(***************************************************************************)
(* The transactional outbox: rows written with business transactions       *)
(* (shared/outbox/outbox.service.ts), dispatchers that publish them on a   *)
(* BullMQ queue (outbox-dispatcher.worker.ts), and the delivery jobs that  *)
(* call the consumers (outbox-delivery.worker.ts).                         *)
(*                                                                         *)
(* Events are numbered in the order of createdAt.  Times are reduced to    *)
(* timers that run or are over: available_at of a PENDING row, the lease   *)
(* of a DISPATCHING one, the hour a failed job waits before it is retried. *)
(* Dispatchers and delivery workers may crash or stall between any two     *)
(* steps, and every call to Redis or PostgreSQL may fail with or without   *)
(* its effect, until the system becomes stable: from then on nothing fails *)
(* any more.  The safety properties do not depend on it.                   *)
(***************************************************************************)
EXTENDS Naturals, FiniteSets

CONSTANTS
    Event,          \* events, numbered in the order of createdAt
    Retried,        \* those of the topics retryFailedNotifications lists
    Deferrable,     \* those of the topic whose consumer may answer 'defer'
    Dispatcher,     \* executions of the dispatch job, of several processes
    BatchLimit      \* rows claimed at once (100)

ASSUME OutboxAssumption ==
    /\ Event \subseteq Nat /\ Retried \subseteq Event /\ Deferrable \subseteq Event
    /\ BatchLimit \in Nat \ {0}

VARIABLES
    row,            \* outbox_events
    disp,           \* the dispatchers
    job,            \* the delivery job of each event, as BullMQ keeps it
    handled,        \* the events their consumer has dealt with
    stable          \* the last fault has happened

vars == <<row, disp, job, handled, stable>>

Row(status, timer) == [status |-> status, timer |-> timer]
At(pc, batch, outcome) == [pc |-> pc, batch |-> batch, outcome |-> outcome]
Resting == At("idle", {}, "ok")
Job(state) == [state |-> state, timer |-> "running"]
NoJob == Job("none")
NewJob == Job("waiting")

Init ==
    /\ row = [e \in Event |-> Row("NONE", "running")]
    /\ disp = [d \in Dispatcher |-> Resting]
    /\ job = [e \in Event |-> NoJob]
    /\ handled = {}
    /\ stable = FALSE

Least(S) == CHOOSE e \in S : \A f \in S : e <= f

(***************************************************************************)
(* Rows                                                                    *)
(***************************************************************************)
\* enqueue, in the transaction of the business write: a replay of the same
\* event finds the row and changes nothing.
enqueue(e) ==
    /\ row[e].status = "NONE"
    /\ row' = [row EXCEPT ![e] = Row("PENDING", "over")]
    /\ UNCHANGED <<disp, job, handled, stable>>

Claimable == {e \in Event : row[e] = Row("PENDING", "over")}

\* The oldest candidates, at most BatchLimit of them.
Oldest(S) ==
    {e \in S : Cardinality({f \in S : f < e}) < BatchLimit}

\* markDispatched and releaseForRetry ask for the status alone, not for the
\* claim they belong to.
markDispatched(e) ==
    IF row[e].status = "DISPATCHING" THEN [row EXCEPT ![e] = Row("DISPATCHED", "running")] ELSE row

\* Mutant: the release does not ask for the status.
ReleaseAny(e) == [row EXCEPT ![e] = Row("PENDING", "running")]

\* Mutant: a release gives the row the status the design keeps in reserve.
ReleaseAsFailed(e) ==
    IF row[e].status = "DISPATCHING" THEN [row EXCEPT ![e] = Row("FAILED", "running")] ELSE row

releaseForRetry(e) ==
    IF row[e].status = "DISPATCHING" THEN [row EXCEPT ![e] = Row("PENDING", "running")] ELSE row

(***************************************************************************)
(* The dispatch job, one step per statement                                *)
(***************************************************************************)
Goto(d, pc) == disp' = [disp EXCEPT ![d] = At(pc, disp[d].batch, disp[d].outcome)]
Current(d) == Least(disp[d].batch)
Expired(e) == row[e] = Row("DISPATCHING", "over")

\* Mutant: nobody takes a lease back.
RecoverNothing(d) ==
    /\ disp[d].pc = "idle"
    /\ Goto(d, "claim")
    /\ UNCHANGED <<row, job, handled, stable>>

recoverExpiredLeases(d) ==
    /\ disp[d].pc = "idle"
    /\ row' = [e \in Event |-> IF Expired(e) THEN Row("PENDING", "over") ELSE row[e]]
    /\ Goto(d, "claim")
    /\ UNCHANGED <<job, handled, stable>>

claimPending(d) ==
    LET batch == Oldest(Claimable)
    IN  /\ disp[d].pc = "claim"
        /\ row' = [e \in Event |-> IF e \in batch THEN Row("DISPATCHING", "running") ELSE row[e]]
        /\ disp' = [disp EXCEPT ![d] = At("publish", batch, "ok")]
        /\ UNCHANGED <<job, handled, stable>>

\* queue.add under the event's own job id: ignored while such a job is kept.
Add(e) == IF job[e].state = "none" THEN [job EXCEPT ![e] = NewJob] ELSE job

Publish(d) ==
    /\ disp[d].pc = "publish" /\ disp[d].batch # {}
    /\ job' = Add(Current(d))
    /\ Goto(d, "mark")
    /\ UNCHANGED <<row, handled, stable>>

\* Mutant: a failed add is taken for an accepted one.
PublishFailsUnnoticed(d) ==
    /\ ~stable /\ disp[d].pc = "publish" /\ disp[d].batch # {}
    /\ job' \in {job, Add(Current(d))}
    /\ Goto(d, "mark")
    /\ UNCHANGED <<row, handled, stable>>

\* The add throws, with or without the job in Redis.
PublishFails(d) ==
    /\ ~stable /\ disp[d].pc = "publish" /\ disp[d].batch # {}
    /\ job' \in {job, Add(Current(d))}
    /\ Goto(d, "release")
    /\ UNCHANGED <<row, handled, stable>>

Advance(d, outcome) ==
    disp' = [disp EXCEPT ![d] = At("publish", disp[d].batch \ {Current(d)}, outcome)]

Mark(d) ==
    /\ disp[d].pc = "mark"
    /\ row' = markDispatched(Current(d))
    /\ Advance(d, disp[d].outcome)
    /\ UNCHANGED <<job, handled, stable>>

\* The update throws, with or without its effect: the catch releases the row.
MarkFails(d) ==
    /\ ~stable /\ disp[d].pc = "mark"
    /\ row' \in {row, markDispatched(Current(d))}
    /\ Goto(d, "release")
    /\ UNCHANGED <<job, handled, stable>>

Release(d) ==
    /\ disp[d].pc = "release"
    /\ row' = releaseForRetry(Current(d))
    /\ Advance(d, "failed")
    /\ UNCHANGED <<job, handled, stable>>

\* A batch with a failure ends in an exception; another goes on to the failed
\* deliveries.
EndBatch(d) ==
    /\ disp[d].pc = "publish" /\ disp[d].batch = {}
    /\ disp' = [disp EXCEPT ![d] = IF disp[d].outcome = "failed" THEN Resting ELSE At("retry", {}, "ok")]
    /\ UNCHANGED <<row, job, handled, stable>>

Retriable == {e \in Retried : job[e].state = "failed" /\ job[e].timer = "over"}

\* retryFailedNotifications: each retry may fail by itself.
retryFailedNotifications(d) ==
    /\ disp[d].pc = "retry"
    /\ \E S \in IF stable THEN {Retriable} ELSE SUBSET Retriable :
          job' = [e \in Event |->
                    IF e \in S THEN NewJob ELSE job[e]]
    /\ disp' = [disp EXCEPT ![d] = Resting]
    /\ UNCHANGED <<row, handled, stable>>

\* The process dies, or a release throws and ends the loop: the rest of the
\* batch keeps its lease.
CrashDispatcher(d) ==
    /\ ~stable /\ disp[d].pc # "idle"
    /\ disp' = [disp EXCEPT ![d] = Resting]
    /\ UNCHANGED <<row, job, handled, stable>>

(***************************************************************************)
(* The delivery job                                                        *)
(***************************************************************************)
SetJob(e, state) == job' = [job EXCEPT ![e] = Job(state)]

StartDelivery(e) ==
    /\ job[e].state = "waiting"
    /\ SetJob(e, "active")
    /\ UNCHANGED <<row, disp, handled, stable>>

\* The consumer deals with the event: it sends, records, or finds that there
\* is nothing left to do.
Consume(e) ==
    /\ job[e].state = "active"
    /\ handled' = handled \cup {e}
    /\ SetJob(e, "consumed")
    /\ UNCHANGED <<row, disp, stable>>

\* 'defer': the job ends after adding one for the next day, under a new id.
Defer(e) ==
    /\ job[e].state = "active" /\ e \in Deferrable
    /\ job' = [job EXCEPT ![e] = NewJob]
    /\ UNCHANGED <<row, disp, handled, stable>>

CompleteDelivery(e) ==
    /\ job[e].state = "consumed"
    /\ SetJob(e, "done")
    /\ UNCHANGED <<row, disp, handled, stable>>

\* The handler throws, or the worker dies and the job stalls, before or after
\* the consumer's effect.  BullMQ hands the job out again, or marks it failed
\* when its attempts (5) or its stalls (1) are used up; the count is left out.
DeliveryFails(e) ==
    /\ ~stable /\ job[e].state \in {"active", "consumed"}
    /\ SetJob(e, "waiting") \/ SetJob(e, "failed")
    /\ UNCHANGED <<row, disp, handled, stable>>

\* removeOnComplete: only the last finished jobs are kept; failed ones stay.
EvictJob(e) ==
    /\ job[e].state = "done"
    /\ job' = [job EXCEPT ![e] = NoJob]
    /\ UNCHANGED <<row, disp, handled, stable>>

(***************************************************************************)
(* Time                                                                    *)
(***************************************************************************)
DelayPasses(e) ==
    /\ row[e] = Row("PENDING", "running")
    /\ row' = [row EXCEPT ![e] = Row("PENDING", "over")]
    /\ UNCHANGED <<disp, job, handled, stable>>

LeasePasses(e) ==
    /\ row[e] = Row("DISPATCHING", "running")
    /\ row' = [row EXCEPT ![e] = Row("DISPATCHING", "over")]
    /\ UNCHANGED <<disp, job, handled, stable>>

HourPasses(e) ==
    /\ job[e].state = "failed" /\ job[e].timer = "running"
    /\ job' = [job EXCEPT ![e] = [state |-> "failed", timer |-> "over"]]
    /\ UNCHANGED <<row, disp, handled, stable>>

Stabilise == stable' = TRUE /\ ~stable /\ UNCHANGED <<row, disp, job, handled>>

Dispatch(d) ==
    \/ recoverExpiredLeases(d) \/ claimPending(d)
    \/ Publish(d) \/ PublishFails(d) \/ Mark(d) \/ MarkFails(d) \/ Release(d)
    \/ EndBatch(d) \/ retryFailedNotifications(d)

Deliver(e) ==
    \/ StartDelivery(e) \/ Consume(e) \/ Defer(e) \/ CompleteDelivery(e) \/ DeliveryFails(e)

TimePasses(e) == DelayPasses(e) \/ LeasePasses(e) \/ HourPasses(e)

Next ==
    \/ \E d \in Dispatcher : Dispatch(d) \/ CrashDispatcher(d)
    \/ \E e \in Event : enqueue(e) \/ Deliver(e) \/ EvictJob(e) \/ TimePasses(e)
    \/ Stabilise

\* The dispatch job runs every minute and the delivery worker takes what waits;
\* time passes; faults come to an end, and a consumer does not defer for ever.
Fairness ==
    /\ WF_vars(Stabilise)
    /\ \A d \in Dispatcher : WF_vars(Dispatch(d))
    /\ \A e \in Event :
          /\ WF_vars(Deliver(e)) /\ SF_vars(Consume(e))
          /\ WF_vars(DelayPasses(e)) /\ WF_vars(LeasePasses(e)) /\ WF_vars(HourPasses(e))

Spec == Init /\ [][Next]_vars /\ Fairness

(***************************************************************************)
(* Properties                                                              *)
(***************************************************************************)

\* Every row, dispatcher and job is well formed.
TypeOK ==
    /\ row \in [Event -> [status : {"NONE", "PENDING", "DISPATCHING", "DISPATCHED"},
                          timer : {"running", "over"}]]
    /\ disp \in [Dispatcher -> [pc : {"idle", "claim", "publish", "mark", "release", "retry"},
                                batch : SUBSET Event, outcome : {"ok", "failed"}]]
    /\ job \in [Event -> [state : {"none", "waiting", "active", "consumed", "failed", "done"},
                          timer : {"running", "over"}]]
    /\ handled \subseteq Event
    /\ stable \in BOOLEAN

\* Some row or some job will bring the event to its consumer.  While a failed
\* job is kept, publishing the event again adds nothing.
Carried(e) ==
    \/ row[e].status \in {"PENDING", "DISPATCHING"} /\ job[e].state \in {"none", "done"}
    \/ job[e].state \in {"waiting", "active", "consumed"}
    \/ job[e].state = "failed" /\ e \in Retried

\* The refinement mapping: what the rows and the jobs still owe to each event.
promise ==
    [e \in Event |->
        IF row[e].status = "NONE" THEN "absent"
        ELSE IF e \in handled THEN "handled"
        ELSE IF Carried(e) THEN "owed"
        ELSE IF job[e].state = "failed" THEN "abandoned" ELSE "lost"]

Relay == INSTANCE Relay WITH relay <- promise

\* The outbox implements at-least-once delivery: no crash, no lost answer and no
\* dispatcher settling another's claim ever loses an event.
AtLeastOnce == Relay!Spec

\* A row that was published is never claimed again.
DispatchedFinal ==
    [][\A e \in Event : row[e].status = "DISPATCHED" => row'[e].status = "DISPATCHED"]_vars

\* Every recorded event of a retried topic is eventually handled.
EventuallyHandled ==
    \A e \in Retried : row[e].status # "NONE" ~> e \in handled
=============================================================================
