# A TLA+ model of Sokar

Sokar (SupperNote) is a reservation platform for restaurants: an API
(`apps/api`) takes bookings from public pages, a voice agent, MCP clients and
the staff dashboard, and keeps tables, holds, reservations, notifications,
gift cards, marketing and billing. What makes it hard is small, and is what is
modelled here, checked with TLC and proved with TLAPS:

* many callers compete for few tables, through transactions that decide with
  data they read before their lock was granted, while holds expire by themselves;
* a waiting list and the recovery of delays give the same tables away from plans
  drawn up earlier;
* money arrives by webhooks that are repeated, reordered and late, for places
  and gift cards that others buy, spend or cancel meanwhile;
* messages leave through an outbox, queues and providers, each of which may
  fail, crash or answer twice;
* e-mail campaigns run as jobs that are retried and may run twice, share a daily
  budget and a limit per customer, and hear of their messages by callbacks.

## 1. Inventory

| Component | State | Operations | Interacts with | Hard behaviour | What makes it correct |
|---|---|---|---|---|---|
| Seating planner (`floor-plan/unassigned-seating.ts`) | none (pure) | `planUnassignedSeating`, `findUnassignedSeatingConflict` | called by every capacity decision | greedy, recomputed at each decision | a plan never puts two overlapping parties on a table; an accepted party has a table |
| Table allocation (`table-allocation.service.ts`) | tables' claims | `allocate`, `assertTableAvailableForSeating`, `reallocate`, `releaseTable` | holds, reservations | reads outside the transaction | no table promised twice |
| Holds (`agentic-reservations/core/hold.service.ts`) | `agentic_holds` | `createHold`, `expireOne`, `expireOverdue` | creation, expiry workers | expiry racing confirmation, unswept rows | spent at most once, ended at last |
| Agentic reservations (`core/reservation.service.ts`) | `reservations` | `createReservation`, `modifyReservation` | planner, holds, idempotency, outbox | hold and table read before the lock, stale `now` | the table is exclusive, the hold is consumed with the booking |
| Idempotency (`core/idempotency.service.ts`, `prisma-store.ts`) | `idempotency_records` | `lookup`, `reserve`, `complete`, `fail` | around `createReservation` | retries, crashes, lost acknowledgements, expiry | one booking per key, the right answer |
| Lifecycle (`reservation-lifecycle.service.ts`, `shared/reservations/*`) | `state`, `status` | `transitionInTransaction` | staff, SMS replies, workers | two columns for one fact | terminal is terminal, columns agree |
| Dashboard reservations (`reservations/reservation.service.ts`) | `reservations` | `create`, `update`, `allocateTable` | allocation, calendar | changes of size of a seated party | the party fits its table |
| Floor plan (`floor-plan.service.ts`) | plans, tables | `createWalkIn`, CRUD | allocation | a walk-in starts now | as for reservations |
| Waiting list (`core/waiting-list.service.ts`) | `waiting_list_entries` | join, promote, expire, cancel | creation of a reservation | promotion racing cancellation | a promoted entry has one live reservation |
| Outbox (`shared/outbox`, dispatcher and delivery workers) | `outbox_events`, BullMQ jobs | `enqueue`, `claimPending`, `markDispatched`, `recoverExpiredLeases` | every transaction that notifies | leases without an owner, crashes | at least once delivery |
| Notification claims (`shared/queue/notification-idempotency.ts`, reconciliation worker) | Redis claims | acquire, record, recover, reconcile | providers | unknown outcomes, late answers | at most one message |
| Service copilot (`floor-plan/service-copilot-delay-*.ts`) | reservations, waiting list, audit records | `simulate`, `apply`, `revert` | allocation, waiting list | its own lock order | as for reservations |
| Experiences (`modules/experiences`) | checkouts, reservations of a session, payment events | public checkout, webhooks, refund, cancellation, closing | Stripe | repeated, overlapping and late webhooks; lapsed holds | no place sold twice; a payment ends in a booking or a refund |
| Gift cards (`modules/gift-cards`) | cards, checkouts, payment entries, refund requests, redemptions | buy, contribute, close, debit, cancel, refund, reconcile | Stripe, reservations | reads of Stripe outside the locks, refunds made elsewhere | the balance accounts for every payment; a cancelled card is not spent |
| Marketing campaigns (`modules/marketing`) | campaigns, messages, frequency windows, reconciliation rows, BullMQ jobs | prepare, schedule, send, cancel; the sending job; callbacks | Resend, consents | jobs run twice, unknown answers, early and late callbacks, a shared budget | a message is handed over once; caps, budget and objections are kept |
| Reservation payments, events | payments, requests | webhooks, CRUD | Stripe | dormant (section 7) | - |
| Voice, MCP, OpenAI Reserve, Connect, webhooks | sessions | translate requests | the services above | streaming, timeouts | - |
| CRM, loyalty, reputation, billing, usage, admin, GDPR, analytics | records | CRUD, selection, reports | - | - | - |
| Front ends (dashboard, connect, widget, iOS) | none shared | UI | API | - | - |

`PROJECT.json` lists every component with its status, and the hazards with the
line where each bites.

## 2. Modules

```
Seating          the placement algorithm, pure operators
  Arrivals       every list of claims the algorithm may be given, one arrival at a time
Ledger           what tables are promised: the abstract specification of the core
  Booking        holds, reservations, lifecycle: the core state machine; implements Ledger
    FloorOps     Booking plus moving and releasing tables (reallocate, releaseTable)
    WaitingList  Booking plus the waiting list and the recovery of a delay
      BookingProofs  the theorems about Booking, FloorOps, WaitingList and Arrivals
Idempotency      the idempotency keys around createReservation
  IdempotencyProofs
Notification     the claim that keeps a confirmation from being sent twice
  NotificationProofs
Relay            what an outbox promises: the abstract specification
  Outbox         rows, leases, dispatchers, delivery jobs; implements Relay
    OutboxProofs the theorems about Outbox
Experience       one session of a paid experience and its payments
  ExperienceProofs
GiftCard         one gift card, its payments and refunds
  GiftCardProofs
Campaign         e-mail campaigns, their jobs, budget and callbacks
  CampaignProofs
Sums             lemmas about sums over finite sets, for places and money
MC*              their instances for TLC
```

### Seating

A table is a number: its id and its name, by which the code breaks ties. A claim
is a record `party, slot, table`; `NoTable` stands for a null `tableId`.
`planUnassignedSeating` is a recursive function over the items in order of
arrival, whose step is `SeatNext`; its result maps each index to a table, and the
code's `blocked` list is the indices mapped to `NoTable`. `findUnassignedSeatingConflict` is the
verdict every capacity decision shares. One section and one active floor plan
are modelled.

`Arrivals` is what the algorithm is checked and proved over: its state is a list
of claims in the order of `loadSeatingItems`, to which a claim may be added that
names no table, or one that takes it and where it meets no other claim, which is
all that the writers of the database keep.

### Booking

| Variable | Code |
|---|---|
| `clock` | wall-clock time, `Date.now()` and `NOW()` |
| `holds` | table `agentic_holds`, rows of type HOLD |
| `resvs` | table `reservations` (`state`, `status`, `tableId`, times, `consumedHoldId`, `isTest`) |
| `lastId` | creation order |
| `reqs` | per caller, the `createReservation` call between its reads and its transaction |

Every transaction that takes capacity takes the restaurant's advisory lock
first, so its body is one action. Two things are *not* atomic and are modelled:

* `createReservation` is split in `BeginReservation` (the hold and the table
  are looked up, the transaction starts) and `CommitReservation` or
  `RefuseReservation`, so that anything may happen between them;
* every other transaction has a parameter `at`, its start time: it is the
  `now` captured on entry and SQL's `NOW()`, at most `MaxWait` old (the
  transaction options give a transaction 5 s to start and 20 s to run, in
  READ COMMITTED).

| Action | Code |
|---|---|
| `CreateHold`, `CreateHoldOn` | `createHold`, table chosen or given |
| `ExpireOne`, `ExpireOverdue` | delayed job, periodic sweep |
| `BeginReservation`, `CommitReservation`, `RefuseReservation` | `createReservation`; modes `hold` (Connect, MCP with a hold), `test` (the owner's test booking), `direct` (no hold: a synthetic one), `staff` (table allocated under the lock), `overbook` |
| `CreateAllocated` | voice agent's `create`, promotion of the waiting list |
| `CreateWalkIn` | `createWalkIn` |
| `AllocateTable`, `ModifyReservation`, `UpdatePartySize` | `allocateTable`, `modifyReservation`, `update` |
| `Transition` | `transitionInTransaction` |

`Ledger` is what the core promises, without locks, clocks, statuses and
requests: claims on tables, lent or booked, each a table and a time. `Lend` and
`Book` need a claim that meets no other, `Lapse` ends loans, `Pass` turns a loan
into a booking of the same table and time; a step changes nobody else's claim.
The refinement mapping computes it from the rows: a live hold lends its table
(`lent`), a reservation that occupies capacity books its own (`booked`).

Left out: QUOTE holds; `consumeHold` and `releaseHold` (no production caller);
preferred sections; `SKIP LOCKED` passing over a table whose row another
transaction holds (it can only refuse more); the recovery of a unique
violation inside `createHold`, which the advisory lock makes unreachable;
changing the size of a terminal reservation.

### FloorOps

`reallocate` is split like `createReservation`: the reservation is read before
the transaction and the copy is used inside it. The exclusion constraint
`reservations_no_overlap_active` of the database is a guard of its commit.

### WaitingList

| Variable | Code |
|---|---|
| `entries`, `lastEntry` | table `waiting_list_entries` |
| `plans` | per manager, the plan `apply` recalculated before its transaction |
| `recoveries` | the audit records of `apply` and `revert`, by operation id |
| `given` | history: the reservations ever made for an entry |

| Action | Code |
|---|---|
| `Join`, `CancelByToken`, `CancelByStaff`, `PromoteEntry`, `ExpireEntry`, `CleanupExpired` | `waiting-list.service.ts`; `Join` includes the checks of the route in front of it |
| `BeginApply`, `CommitApply`, `EndApply` | `apply`: the simulation, then the transaction that checks everything again, or its refusal |
| `Revert` | `revert` |

Every action of `Booking` may interleave. A recovery does not take the
restaurant's advisory lock; it locks the rows of both tables, and so does every
other writer that gives a table, so each transaction is still one step. The
best plan is chosen among the tables and entries as the code ranks them, and
what the plan names may have changed when it is applied.

### Idempotency

One step per database statement of `lookup`, `reserve`, `complete` and `fail`,
with the booking transaction as one step that commits, throws, or commits with
its acknowledgement lost, and a crash of the process at every point. No
production caller builds the service with its optional Redis cache. `Tick` may
not pass while a request is older than `RequestTime`: a request (25 s at most)
ends before its record (24 h) does.

### Notification

One claim key: the confirmation of one reservation by SMS or by e-mail.

| Variable | Code |
|---|---|
| `claim`, `lastToken` | the Redis record: status, token, `providerMessageId`, age since `updatedAt` |
| `sender` | executions of the sending job, between its awaits |
| `rec`, `job` | executions of the reconciliation job; the job of the claim as BullMQ keeps it |
| `lastMessage`, `failed` | the provider: messages accepted, and those it later reports as failed |
| `audit`, `manual` | the confirmation-sent audit entry; the case in the `dead-letter` queue |

| Action | Code |
|---|---|
| `CheckAudit`, `AcquireClaim`, `SkipDuplicate`, `SendAccepted`, `SendNotAccepted`, `RecordAnswer`, `WriteAudit`, `AuditFails` | `processOutboundConfirmJob`, and `reservation-confirmation-email.ts` where `channel` is `"email"` |
| `ReadClaim`, `AcquireLease`, `NoMessageId`, `Lookup`, `Repair`, `RepairFails`, `RecordLookup` | `processNotificationReconciliation` |
| `SweepOrphan`, `SweepUnknown`, `SweepSuccess` | `sweepNotificationClaims` |
| `CrashSender`, `CrashReconciler`, `LoseLock`, `EvictJob` | process death; BullMQ's stalled jobs and `removeOnComplete` |

The provider's accepting a message and the worker's recording of the answer are
two steps, with anything between them. `carriesId` says whether an
uncertain answer can name its message: the workers accept that, the present
Telnyx and Resend adapters never do it. It and the channel are chosen in the
initial state and never change. `QueueFails` lets every add to a queue
fail, which the callers only log. Redis itself answers: a claim write that
throws is not modelled, nor is the moment between the sweep's read of an orphan
and its compare-and-replace. The eligibility checks that end a sending job before
it looks at the claim are left out, as they change nothing.

### Outbox and Relay

| Variable | Code |
|---|---|
| `row` | table `outbox_events`: the status, and whether `available_at` or the lease is over |
| `disp` | executions of the dispatch job, one statement at a time |
| `job` | the delivery job of an event as BullMQ keeps it, and whether the hour before a retry is over |
| `handled` | the events whose consumer has dealt with them |
| `stable` | no fault happens any more |

`enqueue`, `claimPending`, `markDispatched`, `releaseForRetry` and
`recoverExpiredLeases` carry their names; `Publish`, `Mark`, `Release` and
`EndBatch` are the loop of `processOutboxDispatchJob`, and
`StartDelivery`, `Consume`, `Defer` the delivery worker. Every call may fail with
or without its effect, and every process may die, until `stable`. `Relay` has
three steps: an event is recorded, handled, or, if nobody retries its topic,
abandoned. Its variable is computed from the rows and jobs by the refinement
mapping `promise` (`INSTANCE Relay WITH relay <- promise`): an event is owed
while a row or a job will bring it to its consumer.

### Experience

| Variable | Code |
|---|---|
| `row`, `linked`, `intents`, `refundIds` | table `experience_checkouts`: status, `expiresAt` and price; which rows have a session, a payment intent, a refund id |
| `booking`, `recorded` | `experience_reservations`; `experience_payment_events` |
| `stripe`, `acked` | Stripe's session and refund of a checkout; the events answered 2xx |
| `request`, `worker`, `desk` | executions of the public page, the webhook, the dashboard's cancellation |
| `changes` | how often the session was closed or opened |

Each handler is split at its transactions and calls to Stripe: the checkout in
`BeginCheckout`/`ReplayCheckout`, `OpenStripe`/`RetrieveStripe`, `Link`; the
webhook in `ReadCompleted` and one of `RecordReplay`, `ExpireFree`,
`CreateLateRefund`-`StoreLateRefund`, `ConfirmCheckout`-`CallRefund`-`PersistRefund`;
the cancellation in `BeginCancel`, `CancelRefund`, `CancelPersist`,
`CancelBooking`. `Fail` ends an execution before any of its steps. Whether a
payment is late is decided by the event's own date, so `CustomerPays` records it.

### GiftCard

| Variable | Code |
|---|---|
| `card` | the row of `gift_cards`: status, amount, remaining amount, closed, payment status |
| `checkout`, `entry`, `request`, `redeemed` | `gift_card_checkouts`, `gift_card_payment_entries` (with contributions), `gift_card_refund_requests`, redemptions |
| `stripe`, `refund`, `event` | what Stripe knows of a payment; the refund under a request's key; payments with an undelivered event |
| `proc` | executions of routes, webhooks and the finance worker, with what they have read |
| `undone` | history: payments whose review an outdated reading took back |

Fulfilment (`BeginFulfil`, then `purchaseWithPayment` or `contribute`), use on a
reservation (`validateCode`, `applyToReservation`), refunds (`AfterCancel` or `Scan`,
`CallStripe`, `StoreRefund`), a failed payment (`ReadPaymentFailed`,
`handlePaymentFailed`) and reconciliation (`BeginReconcile`, `reconcilePayment`)
read first and write later. `debit`, `cancel`, `closeCrowdfunding` and `Prepare` are
one transaction each. `Route` are the executions of routes and of the webhooks of a
payment, `Delivery` those of the webhooks of refunds and disputes, of which
several may handle one payment at a time.
`OutsideRefund` and `Dispute` begin at Stripe, without the code. An execution that
ends before its first write has changed nothing, so `Fail` only ends those that
have written or have called Stripe. Two paths of the finance worker are left out:
a checkout whose payment Stripe has cancelled becomes CANCELLED
(`gift-card-finance.worker.ts:47-51`), which races with nothing since such a payment
can never succeed; and one whose account is unreachable, or whose payment can no
longer be bound, becomes RECOVERY_REQUIRED (67-80) and waits for the support. So
`ObligationsEnd` speaks of accounts that stay reachable.

### Campaign

| Variable | Code |
|---|---|
| `campaign`, `tally` | the rows of `marketing_campaigns`: status and counters |
| `message`, `known` | `marketing_messages`: status; whether the provider's id and `acceptedAt` are stored |
| `slots`, `opposed` | the customers' frequency windows; consents, objections and suppressions |
| `row`, `listed` | `marketingProviderReconciliation`, and the rows its worker has loaded |
| `job`, `work` | the BullMQ job of a campaign; executions of `processMarketingCampaignJob` |
| `request` | requests of the dashboard between their read and their write |
| `budgetCheck` | the check of the daily budget that holds its advisory lock, with its first count |
| `calls`, `sent`, `misreported`, `unbudgeted`, `events` | history: calls to the provider, what it took, what it took while its client reported an error, what no check of the budget counted, the bound |

| Action | Code |
|---|---|
| `BeginRequest`, then `CommitPrepare`, `CommitSchedule`, `CommitSend`, `CommitCancel` or `RefuseRequest`; `CountAccepted` before those that check the budget; `Enqueue`, `EnqueueFails`, `RequestDies` | `marketing-campaign.service.ts` and the routes, with the job they add |
| `TakeJob`, `ClaimCampaign`, `BackToReady`, `TakeJobUnconfigured`, `FailStaleMessageClaims`, `CountStale` | the beginning of the job, up to its first page |
| `FetchPage`, `NextMessage`, `Check`, `reserveMarketingFrequencySlot`, `Recheck`, `Gate`, `Call`, `Record`, `Tally`, `releaseMarketingFrequencySlot` | one message: claim, permission and slot, permission again, the call, its answer, the counters, the slot given back |
| `CountLeft`, `Finish` | the end of the job |
| `Crash`, `StallOfTheDead`, `StallOfTheLiving` | a process dies; BullMQ hands its job on, or hands on the job of one that is only slow |
| `ReceiveCallback`, `RegisterFails`, `ListRows`, `ReconcileRow` | `applyMarketingProviderEvent` and the reconciliation worker |

One day is modelled: one window per customer, one budget. Audiences and drafts
are given (`Draft` names the campaigns that may be prepared). A check of the budget
is two counts, each a step: `CountAccepted`, then the count of what is owed with the
decision and the write that follow it under the lock. The call to Resend is
accepted, refused, an error or without answer; after an error or without answer the
message may have been taken, and `messageWasNotSent` says, as in the code, that
after an error it was not. A complaint of an archived customer leaves a row, and one that
loses its race may leave its suppression. SMS and WhatsApp, automations, attribution
links, a consent given anew and the manual closing of reconciliation rows are left out. `Next` separates `Quiet` steps from an `Event` (a request, an
objection, a fault, a callback), of which a behaviour has `MaxEvents`.

## 3. What is checked

| Run | Instance | Shows |
|---|---|---|
| `seating_plan` | two tables, at most 4 claims, parties 1, 2, 4 | `PlanSound`: the plan never overlaps two claims on a table it chose and never seats a party on a table that does not take it; `VerdictHasWitness`: an accepted party has a table that strands nobody |
| `booking_races` | one table, two callers, two overlapping slots, parties that change size; holds, direct and test requests | `TableExclusive`, `HoldConsumedOnce`, `TableFits`; `LedgerKept`: Booking implements Ledger; `OverdueHoldsSwept` under fairness |
| `booking_no_plan` | no table, two callers, direct, staff and overbooked requests, manual validation, every target state | `NoPlanExclusive`: one party at a time |
| `floor_moves` | two tables of different sizes, moves and releases beside all staff operations | `MovesSafeUnlessStale`: only a move from an outdated copy breaks a promise; `StatusAgrees`: the two columns agree; `NeverRevived`: terminal is terminal |
| `idempotency` | two processes, one key, two payloads, records that expire | `OncePerKey`: no two bookings for a key; `AnswerMatches`: a replay answers with its own booking |
| `notification` | both channels, both kinds of adapter, two sending and one reconciling executions, three attempts | `SentOnce`: the provider never has two accepted messages it did not give up; `SuccessTruthful`: success and audit speak of an accepted message; `OrphanReclaimed`, `SuccessAudited` under fairness of the sweep |
| `outbox` | one event, two dispatchers | `TypeOK`; `AtLeastOnce`: Outbox implements Relay; `DispatchedFinal`; `EventuallyHandled` under fairness |
| `waiting_list` | two tables, two waiting parties, one recovery and its reversal, three reservations | `OnePromotion`: an entry has one live reservation; `RecoverySafe`: tables stay exclusive and large enough; `EntryFinal`; `StaleEntriesEnd` under fairness |
| `experience` | two places, a checkout for two, a direct reservation for one, two webhook executions, one failure | `NoOversell`, `BookedIsPaid`, `CancelledIsRefunded`, `RefundFinal`; `PaymentSettledAlone` under fairness |
| `gift_cards` | a purchase of 2, or a pot of contributions of 2 and 1; one bill; beside the finance worker one execution of routes and, for the purchase, a second one of webhooks, so that two reconciliations overlap | `LedgerBalances`, `MoneyOut`, `FrozenStays`; `RefundsKnown`: the ledger of a purchase shows every refund, but for a payment whose review an outdated reading took back (section 5); `ObligationsEnd` under fairness |
| `campaign` | two campaigns of one message to the same customer, two workers, a cap of 2, a budget of 1, retried and stalled jobs, three events | `CalledOnce`: a message is handed over once; `PressureCapped`: what was taken has a slot, unless its client reported an error, and slots are capped; `BudgetKept`: what the checks counted stays within the budget; `CountedOnce`: counters count messages, not callbacks; `OppositionHonoured`: an objection stops what has not passed its last check, until a new consent |
| `floor_stale_move` (violated) | a reservation rescheduled while `reallocate` runs | `reallocate` puts it on a table that a live hold covers at its new time, against its comment and the contract matrix; the quotes are in `PROJECT.json` |

`Booking`, `Idempotency`, `Notification`, `WaitingList` (`ListTypeOK`), `Experience`,
`GiftCard` and `Campaign` state a type invariant too, which the proofs need; no
run lists it.

**Bounds.** `MaxRows` (2 to 4) is the number of rows ever created: every
property relates at most two claims, plus one row to move or to expire. `MaxTime`
lets a hold be created, expire, and be swept, and slots begin, while a request
waits; `MaxWait` 1 makes a decision one tick stale, across an expiry. Slots
overlap without being equal. Two callers suffice because at most two requests
can conflict on a row; clients are symmetric where the run has no liveness
property. The idempotency run has one key, as keys are independent, and
records that live two ticks so that one expires under a later request. The
notification run covers one claim window (7 days) of one claim, as claims are
independent; `MaxToken` 3 and `MaxMessage` 2 allow a refused attempt, an uncertain
one and another after it; one reconciling execution at a time is enough for
what frees a claim; an age of `Lease` = 1 tick tells a live attempt from an
orphan. A job is handed on once when it stalls, BullMQ's default. Events of the
outbox meet only in a batch, whose order plays no part in what becomes of each:
one event and two dispatchers show every interleaving of claims on it, and the
theorems hold for any number. In the waiting list three reservations are the
moved one, the waiting party's and a competitor's. An
experience's session is closed and opened once (`MaxChanges` 2), which is
what `BookedIsPaid` exempts, and its two webhook executions may overlap. A gift card
has `MaxLoad` checkouts, outside refunds, disputes and failed executions together:
the purchase and two of the others, or the two contributions, or one and one of the
others; an event is delivered as often as a refund or dispute begins or settles, and two
executions may handle a purchase's at a time, as overlap is between two; prices are the smallest that allow a partial
refund and a partial debit. Campaigns meet in the budget and in a customer's
window only: two of one message each, with a budget of 1, a window that begins
at any count and a job with two attempts, contend for both; `MaxEvents` 3 is, for
instance, an early callback, a crash and an objection. The two workers are alike
(symmetry), as no liveness property is checked.

**Fairness.** `Booking`: `WF(ExpireOverdue)`, as the sweep is a repeated job of
the BullMQ scheduler, and `WF(Tick)`, as time passes. Nothing else is fair: no
caller owes a confirmation, and the delayed job `ExpireOne` may be lost.
`WaitingList`: the same for `CleanupExpired`. `Idempotency` has no
liveness property and no fairness. `Notification`: `WF(Tick)` and `WF` of each
branch of the sweep, a daily job that takes every claim; a repair of the audit that
fails is tried again by the next sweep and assumed to succeed at last. Sending
and reconciling jobs owe nothing. `Outbox`: the dispatch job runs every minute
and the delivery worker takes what waits (`WF(Dispatch)`, `WF(Deliver)`), delays
pass, faults end (`WF(Stabilise)`), and a consumer does not defer for ever
(`SF(Consume)`, as a deferral is for the next day of an event that ends).
`Experience`: Stripe repeats an event until a delivery is answered 2xx, and a
handler that was called goes on (`WF(ReadCompleted)`, `WF(Handle)`); failures are
bounded. `GiftCard`: only the finance worker, scheduled every five minutes, and
Stripe's settling of refunds are fair: no webhook needs to arrive. `Campaign`
has no liveness property and no fairness.

**Mutants.** Each property of a passing run has a mutant, an operator beside the
original (marked `Mutant:`), that changes the code as a plausible bug would and
that makes TLC refute the property.

## 4. What is proved

Every theorem holds for every value of the constants that meets the module's
named assumption, which TLC evaluates in the runs. An invariant is proved by an
inductive strengthening, in three steps: it holds initially, every action
preserves it (a lemma for each action or group of like actions), and it implies
the property. TLC finds each strengthening true on the instances of the runs. All action properties are proved from the same invariants.

| Module | Theorems | States |
|---|---|---|
| `BookingProofs` | `TypeCorrect`, `TablesExclusive`, `HoldsConsumedOnce`, `TablesFit`, `NoPlanTakesOne`, `StatusesAgree`, `NothingRevived` | of `Spec`: `TypeOK`, `TableExclusive`, `HoldConsumedOnce`, `TableFits`, `NoPlanExclusive`, `StatusAgrees`, `NeverRevived` |
| | `CoreKeepsLedger` | of `Spec`: `LedgerKept` (Booking implements Ledger) |
| | `MovesKeepPromises`, `MovesKeepRecords`, `MovesReviveNothing` | of `FloorSpec`: `MovesSafeUnlessStale`, `StatusAgrees` with `HoldConsumedOnce`, `NeverRevived` |
| | `PromotedOnce`, `RecoveriesSafe`, `EntriesFinal` | of `ListSpec`: `OnePromotion`, `RecoverySafe`, `EntryFinal` |
| | `ClaimsAlwaysApart`, `PlansSound`, `VerdictsHaveWitness` | of `ArrivalSpec`: that claims on one table never overlap, `PlanSound`, `VerdictHasWitness` |
| `IdempotencyProofs` | `BooksOncePerKey`, `AnswersMatch` | `OncePerKey`, `AnswerMatches` |
| `NotificationProofs` | `ToldOnce`, `SuccessIsTruthful` | `SentOnce`, `SuccessTruthful` |
| `OutboxProofs` | `OutboxTypeCorrect`, `OutboxDelivers`, `DispatchedIsFinal` | `TypeOK`, `AtLeastOnce` (Outbox implements Relay), `DispatchedFinal` |
| `ExperienceProofs` | `NeverOversold`, `BookingsArePaid`, `CancellationsRefunded`, `RefundsFinal` | `NoOversell`, `BookedIsPaid`, `CancelledIsRefunded`, `RefundFinal` |
| `GiftCardProofs` | `LedgerAlwaysBalances`, `MoneyNeverShort`, `FrozenForever`, `RefundsWithinPrice`; `RefundsAreKnown` | `LedgerBalances`, `MoneyOut`, `FrozenStays`, and that Stripe never gives back more than a payment's price; `RefundsKnown`, for any number of overlapping executions |
| `CampaignProofs` | `CallsAreSingle`, `PressureHolds`, `BudgetHolds`, `CountersAgree`, `OppositionsStand` | `CalledOnce`, `PressureCapped`, `BudgetKept`, `CountedOnce`, `OppositionHonoured` |

Each of these modules also proves its model's type invariant.

**Booking.** From `TableAssumption` and `BookingAssumption` (slots are
intervals, sizes and durations are positive). `TableExclusive` is not
inductive. The invariant `IInv` adds `ReqsSane` (a call
in flight has a start time in the past, and carries a table only if it confirms
a hold) and `FreshRows` (rows not yet created are empty). Its part `LinkInv` is all but
`TableExclusive`, and is kept even where tables are not exclusive; each action
keeps it, and keeps `TableExclusive` if that held. The argument: a hold
that is live now was live at any earlier time (`LiveEarlier`), so a decision
with an old clock sees *more* live holds than there are, never fewer; hence what it
found free is free (`InsertHoldStep`, `ReservationStep`, `CommitStep`). The one
hold a confirmation ignores is its own, and the same transaction consumes it.
`ClaimStep` states once what a step must guarantee to
keep tables exclusive; every writer of a reservation is shown to meet it.
`HoldConsumedOnce` follows from the ACTIVE check under the lock, and `FreshRows`
keeps new rows from being named by old ones.

What concerns one row (`RowInv`: its party fits its table, its two columns
agree, it is alone where there is no floor plan) is proved in one pass:
`StepLawful` shows that every step writes a row in one of a few lawful ways, and
the properties are read off them. `NoPlanExclusive` needs that no hold exists
without a floor plan, since a confirmation would pass by the interval check. The
proofs do not depend on what the planner computes, only on the interval checks
that follow it.

**The ledger.** That tables are exclusive is not enough for `CoreKeepsLedger`: one has
to know that a confirmation books what was lent to it. `LedgerInv` adds to `IInv`
that a live hold is on a table (`HoldsPlaced`), and that a call in flight carries
its hold's own table and time (`CallsCarry`). It does because the public
confirmation looks for another table only when the hold's is taken, and by
`TableExclusive` a live hold's never is (`LiveHoldFree`); and no step changes the
table or the time of a hold (`HoldWritten`). Then each step maps to one step of the
ledger: a confirmation of a hold still live to `Pass`, of one that expired while it
waited for the lock, like every other write of a reservation, to `Book`
(`ConfirmStep`, `BookStep`), a new hold to `Lend`, and a tick that lets any number
of holds expire to one `Lapse`. The sweeps that follow change no claim.

**The placement algorithm.** What a recursive function computes needs an induction
over its argument; the library's rule takes an operator, so it goes through a
family of sets (`CountingUp`). `PlansExist` shows that the function unfolds, and
`PlanSeats` that after n items the plan is a seating of the first n. From it come
two comparisons of plans: seating more items never moves one seated before
(`SeatsKept`), and giving a last arrival, in whose window nobody is unseated, a table that
the plan leaves free then seats everybody else as before (`PlanFixed`), since the best of a set is still the best
without one it did not choose (`BestFitWithout`). That is `VerdictsHaveWitness`: the
two forms of the verdict agree. Its proof showed what the property first left out:
without a floor plan the verdict accepts everybody and there is no table to name, so
`VerdictHasWitness` speaks of restaurants that have one.

**FloorOps.** `FloorInv` is `LinkInv /\ StatusAgrees /\ MovesSound`, and
`staleMove \/ RowInv`: a move in flight names an existing row and a table that takes
the party *of the copy*, and as long as no move was written from an outdated copy,
the core's invariant holds. A copy that still agrees with its row makes the checks of
`CommitReallocate` those of any other writer. After a stale move nothing is claimed of
tables: the run `floor_stale_move` shows why. But it writes only the table of its
row, so links to holds and the two columns stay right (`MovesKeepRecords`) and nothing
is revived (`MovesReviveNothing`), stale moves included.

**WaitingList.** `ListInv` carries `IInv` along, since a recovery writes
reservations outside the advisory lock. `Linked` says that an entry that can be
promoted names no reservation, that what was given exists, and that plans and
audit records name different reservations. `MovesStep` generalises
`ClaimStep` to several rows written at once. `TableFits` does not hold here:
`FitsUnlessReverted` is what does, since `revert` does not look at sizes
(section 5).

**Idempotency.** From `RequestTime < Ttl` and a non-empty set of keys. The
invariant says that a request in flight is younger than `RequestTime`, that the
one between its insert and its completion owns the record of its key
(`RecordsOwned`), that every booking that is not past its record's life has that
record and no rival in its transaction (`KeysTaken`), and that what a record or an
answer names was booked for its key and payload (`NamesTruthful`). The argument
for `OncePerKey` is about time: a record cannot be purged under the request that
inserted it, because the request ends first.

**Notification.** Tokens are unique and the claim has the last one given out; an
execution that may still send (`Armed`) owns the claim and no accepted message
stands; while one stands, the claim is there. That adapters' errors carry no message
id (`Unnamed`) is what keeps an uncertain attempt from being freed; with adapters
that carry one, `SentOnce` is not claimed.

**Outbox.** The refinement needs that no event is ever "lost". Its invariant
`IInv` says that a row marked DISPATCHED has a job or was handled
(`DispatchedPublished`), that a dispatcher about to mark a row has published it
(`Settling`), that a finished job's event is handled (`FinishedHandled`), and
that an event without a row has neither job nor dispatcher (`OnlyRecorded`).
Since a status alone is checked, a dispatcher may settle a claim that is not its
own; the invariant shows that this does no harm, because to be about to settle
it must have published the event, and a publication is never undone before the
event is handled. `NothingLost` concludes that `promise` is a function of rows,
jobs and `handled` (`OwedTo`), and each step of Outbox is shown to change at most
one event's value, by a step of Relay (`DispatchRelay`, `DeliverRelay`,
`OneRelay`).

**Experience.** From a finite set of checkouts and direct reservations, positive
places and any prices. `NoOversell` is inductive because every taker counts
confirmed places and live holds under the session's lock, and a hold only leaves the
count by lapsing or by becoming a booking of the same size. The rest is per
checkout: a row agrees with its price, its recorded event and its booking
(`RowSound`); what was refunded as late cannot be confirmed any more, unless the
session was closed and opened (`LateSound`); a cancelled one has its refund
(`CancelledSound`); and each execution between two of its steps knows why it may
take the next (`RequestSound`, `DeliverySound`, `CancellationSound`).

**GiftCard.** From finite sets of payments and bills with positive amounts. Two
ledgers are kept apart. Stripe's: what it gave back, has pending from its own
dashboard and has accepted under our keys never exceeds the price
(`StripeSound`), and what the entry knows is at most that. The card's: what was
spent and what remains is at most what was collected (`Balance`), exactly so
while the card is in use (`LedgerBalances`), and what cancelling asks for is
bounded by the same sum (`MoneyOut`). They are joined by `OnePurchase` (a purchase
has one payment, credited once), `Unspent` (a pot is not spent before it is
closed nor whole once spent from) and `CancellationSound` (the requests of a cancellation
tell the card's status, and the reverse). `DbStep` and `CardRest` say once which
parts a step must show again. `RefundsKnown` has an invariant of its own,
`StoriesTold`: what Stripe did of a credited payment is in the ledger and on the card
(`Known`), or somebody is about to be told (`Told`: an event waits or a
reconciliation is running), or the payment is `undone`; and an open checkout that is
not credited hides a refund or a dispute only while an event waits or an execution
that has seen it is about to write its review (`Warned`), or when it is `undone`. It
is the last that an outdated reading brings about: it writes OPEN over
PAYMENT_REVIEW for a payment that is still suspect. Every other interleaving of
fulfilments, reconciliations and events keeps the property, and that is what
`RefundsAreKnown` says.

**Campaign.** From a finite set of messages. An execution that carries a message
is alone to carry it (`CarriedAlone`), and what it knows depends on where it is
(`ExecutionSound`): before the call nothing was handed over, after it exactly
once. A customer's slots are at least the messages that hold one (`SlotsKept`): one
is given back by the execution that carries the message, after a refusal or an error,
so only for a message that was not taken or is `misreported`; the counters never exceed the messages settled and no longer owed by an execution
(`CountsSound`, `OwedOnce`); a message outside the campaigns the budget reserves
for is `unbudgeted` (`BudgetSound`). A check in progress holds a set of acceptances
that stand (`CheckSound`), so what it counted is what it compares with the budget;
what was accepted after its first count is in neither count, and `unbudgeted`.

**Sums.** The sums of places and cents are `MapThenSumSet`, a recursive function
over the subsets of a set. `Sums` shows that it unfolds, adds, is monotone,
changes by one term's difference and restricts to a subset. As the library's
induction rules take an operator parameter, the induction goes through a family of
sets instead (`SetInduction`, from the well-foundedness of the strict subsets of a
finite set).

**Only model-checked.** Every liveness property, as they need fairness and
ENABLED: `OverdueHoldsSwept`, `OrphanReclaimed`, `SuccessAudited`,
`EventuallyHandled`, `StaleEntriesEnd`, `PaymentSettledAlone`, `ObligationsEnd`.

## 5. Known divergences

Where the code does not do what a comment, a doc or its neighbour says, met
while modelling. The first is checked by a run; the others follow from reading
and were seen in traces or exempted in a property.

* `reallocate` moves a reservation with an outdated copy (`floor_stale_move`).
* A hold on the best-fit table can strand a party that has no table, and its own
  confirmation is then refused: a direct booking for 1 without a table
  (virtually on T1), a hold for 2 on T1, and T2 takes no party of 1.
* A booking committed without its idempotency record completed is found by no
  replay (`reservation.service.ts:629`, `:634`).
* A success recorded by a slow worker while a reconciler holds the lease under
  the same token is overwritten with `unknown` (`notification-idempotency.ts:407`).
* `revert` (`service-copilot-delay-recovery.service.ts:562`) compares everything
  but the size of the parties, so it can put a party that has grown back on a
  table too small for it. `apply` repeated after a reversal answers success.
* Two overlapping deliveries of one completed session: the first commits that a
  refund is owed, the second finds the event recorded and answers 2xx; if the
  first dies before it calls Stripe, nobody asks for the refund again
  (`experience-payment.service.ts:944`). `PaymentSettledAlone` is the property
  for deliveries that do not overlap.
* A repeated public checkout request may set the payment intent of a paid
  checkout to null (`experience-payment.service.ts:360`); its cancellation is then
  refused. A refund event that comes before the intent is stored is lost (`:555`).
* `contribute` refuses less under its lock than `purchaseWithPayment`, so a
  contribution refunded meanwhile is credited (`gift-card-crowdfunding.service.ts:144`);
  redelivered, a rejected contribution's checkout goes back from REFUNDED to
  REFUND_PENDING (`:195`).
* `reconcilePayment` uses the read before its lock when the payment has no entry
  (`gift-card-refund.service.ts:203`). A purchase is paid and a refund at Stripe fails;
  its event is read as harmless; the finance worker begins to fulfil; a second
  refund begins, a second delivery reads it and writes PAYMENT_REVIEW; the first
  delivery writes OPEN, and the worker credits the card. It stays usable while its
  payment is being refunded, until the next event. `undone` exempts such a payment from
  `RefundsKnown` until then; without it TLC finds this behaviour, of 12 states.
* `messageWasNotSent` (`marketing-campaign.worker.ts:194`) takes every
  `RESEND_API_ERROR` for a message that did not leave, but
  `normalizeResendSendResponse` (`shared/email/index.ts:101`) throws it for any error
  of the SDK, a failed server or a request without answer included. The slot of a
  mail that may have been taken is given back, where the comment at
  `marketing-campaign.worker.ts:143-146` says "un message dont on est certain qu'il
  n'est pas parti". `misreported` exempts it from `PressureCapped`.
* The check of the daily budget counts the accepted, then the owed
  (`marketing-campaign.service.ts:879`), in a READ COMMITTED transaction; the worker
  accepts without its lock (`marketing-campaign.worker.ts:730`). A message accepted
  between the two counts is in neither: with a budget of 1 and one message being sent,
  a second campaign of one passes, against the comment at 852-857 and
  `docs/runbooks/marketing-email-pilot.md:64-69`. Nor does an e-mail count that was
  sent while its answer was lost: it is recorded as failed. `unbudgeted` exempts the former
  from `BudgetKept`, which speaks of recorded acceptances only.
* The docblock of `closeCrowdfunding` (`gift-card-crowdfunding.service.ts:252-261`)
  still says that a commission is taken off the amount; the code, the runbook and a test
  record it beside a card of the full total.
* A refund request that Stripe refuses, because part was refunded there, is
  repeated for ever (`gift-card-finance.worker.ts:25`). A late
  `payment_failed` marks a partially refunded card failed
  (`gift-card-payment.service.ts:446`). A dispute that ends frees the card by
  itself, where `docs/runbooks/gift-card-financial-safety.md` leaves it to the support.
* A campaign's job that the daily budget refuses puts the campaign back to READY
  and throws; BullMQ's retry takes it from READY with no check, so it is sent,
  where `docs/runbooks/marketing-email-pilot.md` says it is refused. `unbudgeted`
  exempts such messages from `BudgetKept`.
* `canTransition` refuses everything after DELIVERED, so a complaint after a
  delivery suppresses nobody, against the comment of `suppressionReasonFor`. A
  callback that is matched closes every open row of its message, an earlier one
  not yet applied included.
* A request to send that writes SENDING between the job's read and its claim
  makes the job end without sending, while the request's own job is ignored,
  as its id exists: the campaign stays SENDING (`marketing-campaign.worker.ts:591`). So
  it does when a job that crashed runs again within 15 minutes of its claim.
* The job's last update overwrites CANCELLED or PAUSED, counts what is left in two
  reads, and knows only its own failures; prepare, schedule and cancel write
  without a condition what they decided from a read. The slot of a message
  cancelled after its reservation is not returned.

## 6. Plan

1. The composition of `Outbox` with `Notification`: an event is delivered at least
   once and its message sent at most once.
2. The order of the row and advisory locks; when a campaign leaves SENDING; the
   circuit breaker; availability compared with what creation accepts.
3. `Ledger` for `WaitingList`, whose recoveries change two claims in one step, and for
   `FloorOps` up to the first stale move.

## 7. Not modelled

The voice pipeline, the protocol adapters and the front ends (content and
I/O); CRM, marketing other than e-mail campaigns, loyalty, reputation, billing, analytics and
administration (records without contention); editing of the floor plan, which is
a constant here; time zones and opening hours, which decide which slots are
offered and not who gets them. Reservation payments are dormant: no code
attaches a Stripe payment to a reservation's payment row, so their webhooks find
nothing. `expireExperienceCheckouts` has no production caller.

Most of the repository's 233 000 lines are of these kinds: pages, conversations,
adapters, reports, records. What they compute is worth tests, but has no
interleaving or protocol that a model would show more of, so the share of lines
modelled stays small by nature; what is modelled is the code where several
actors meet.
