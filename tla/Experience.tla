----------------------------- MODULE Experience -----------------------------
(***************************************************************************)
(* One session of a paid experience (modules/experiences): the public      *)
(* checkout that holds places while the customer pays at Stripe, the       *)
(* webhook that turns a payment into a reservation or a refund, direct     *)
(* reservations and cancellations from the dashboard.                      *)
(*                                                                         *)
(* Stripe is modelled as the code uses it: idempotency keys replay the     *)
(* first answer, events are delivered at least once, in any order, until   *)
(* one delivery is answered without an error, and a customer may complete  *)
(* a Checkout Session after the time it was to expire.                     *)
(***************************************************************************)
EXTENDS Integers, FiniteSets, FiniteSetsExt

CONSTANTS
    Checkout,       \* checkouts, one per idempotency key of the public page
    Direct,         \* reservations the dashboard makes without a checkout
    Price,          \* the prices the experience is given, free or not
    Places,         \* the quantity each of them asks for
    Capacity,       \* capacityOverride ?? capacity
    StartsAt,       \* startsAt of the session
    HoldTime,       \* CHECKOUT_HOLD_MS
    Client,         \* executions of createPublicExperienceCheckout
    Worker,         \* executions of the webhook
    Reply,          \* what Stripe answers to a refund: pending, succeeded, failed
    Staff,          \* executions of cancelExperienceReservation
    MaxTime,        \* bound: the clock
    MaxLag,         \* bound: how old the `now` a handler has read may be
    MaxChanges,     \* bound: changes of the session's status
    MaxFailures     \* bound: executions that end in an error or a crash

Slot == Checkout \union Direct

ASSUME ExperienceAssumption ==
    /\ Price \subseteq Nat /\ Checkout \intersect Direct = {} /\ IsFiniteSet(Slot)
    /\ Places \in [Slot -> Nat \ {0}]
    /\ Reply \subseteq {"pending", "succeeded", "failed"}
    /\ {Capacity, StartsAt, HoldTime, MaxTime, MaxLag, MaxChanges, MaxFailures} \subseteq Nat

VARIABLES
    clock,
    changes,        \* how often the session, or its experience, was closed or opened
    row,            \* experience_checkouts
    linked,         \* the rows with a stripeCheckoutSessionId
    intents,        \* the rows with a stripePaymentIntentId
    refundIds,      \* the rows with a stripeRefundId
    booking,        \* experience_reservations
    recorded,       \* experience_payment_events, of completed sessions
    stripe,         \* Stripe's Checkout Session of a row, and the refund of its payment
    acked,          \* completed sessions of which a delivery was answered 2xx
    request, worker, desk,
    failures

web == <<request, worker, desk>>
db == <<row, linked, intents, refundIds, booking, recorded>>
vars == <<clock, changes, db, stripe, acked, web, failures>>

Idle == [pc |-> "idle"]
At(pc, i) == [pc |-> pc, of |-> i]
NoRefund == [key |-> "none", reply |-> "none", status |-> "none"]

Init ==
    /\ clock = 0 /\ changes = 0 /\ failures = 0
    /\ row = [c \in Checkout |-> [status |-> "NONE", expiresAt |-> 0, price |-> 0]]
    /\ linked = {} /\ intents = {} /\ refundIds = {} /\ recorded = {} /\ acked = {}
    /\ booking = [i \in Slot |-> "NONE"]
    /\ stripe = [c \in Checkout |-> [session |-> "none", late |-> FALSE, refund |-> NoRefund]]
    /\ request = [k \in Client |-> Idle]
    /\ worker = [w \in Worker |-> Idle]
    /\ desk = [s \in Staff |-> Idle]

\* The price was frozen when the checkout was made.
Free == {c \in Checkout : row[c].price = 0}

SessionOpen == changes % 2 = 0

\* The `now` of a handler, read when it began.
Now == {t \in (clock - MaxLag)..clock : t >= 0}

Confirmed == {i \in Slot : booking[i] = "CONFIRMED"}
Held(t) == {c \in Checkout : row[c].status = "OPEN" /\ row[c].expiresAt > t}
Taken(S) == MapThenSumSet(LAMBDA i : Places[i], S)
Used(t, but) == Taken(Confirmed) + Taken(Held(t) \ {but})

(***************************************************************************)
(* The public checkout: a transaction under the session's advisory lock,   *)
(* then a call to Stripe, then an update of the row by its id alone.       *)
(***************************************************************************)
BeginCheckout(k, c) ==
    /\ request[k] = Idle /\ row[c].status = "NONE"
    /\ SessionOpen
    /\ \E now \in Now, price \in Price :
        /\ StartsAt > now
        /\ Used(now, c) + Places[c] <= Capacity
        /\ row' = [row EXCEPT ![c] =
                     [status |-> "OPEN", expiresAt |-> now + HoldTime, price |-> price]]
    /\ request' = [request EXCEPT ![k] = At("create", c)]
    /\ UNCHANGED <<clock, changes, linked, intents, refundIds, booking, recorded,
                   stripe, acked, worker, desk, failures>>

\* The same idempotency key again: the row is found, open and live.
ReplayCheckout(k, c) ==
    /\ request[k] = Idle /\ row[c].status = "OPEN"
    /\ \E now \in Now : row[c].expiresAt > now
    /\ request' = [request EXCEPT ![k] = At(IF c \in linked THEN "retrieve" ELSE "create", c)]
    /\ UNCHANGED <<clock, changes, db, stripe, acked, worker, desk, failures>>

\* createExperienceCheckoutSession, under the checkout's idempotency key: a
\* second call is given the first answer.
OpenStripe(k) ==
    /\ request[k].pc = "create"
    /\ LET c == request[k].of IN
        /\ stripe' = IF stripe[c].session = "none"
                     THEN [stripe EXCEPT ![c].session = "open"] ELSE stripe
        /\ request' = [request EXCEPT ![k].pc = "link"]
    /\ UNCHANGED <<clock, changes, db, acked, worker, desk, failures>>

\* retrieveExperienceCheckoutSession throws when the session has no link left.
RetrieveStripe(k) ==
    /\ request[k].pc = "retrieve"
    /\ request' = [request EXCEPT ![k] =
                     IF stripe[@.of].session = "open" THEN At("link", @.of) ELSE Idle]
    /\ UNCHANGED <<clock, changes, db, stripe, acked, worker, desk, failures>>

\* Both answers show a session that is not paid, and so no payment intent.
Link(k) ==
    /\ request[k].pc = "link"
    /\ linked' = linked \union {request[k].of}
    /\ intents' = intents \ {request[k].of}
    /\ request' = [request EXCEPT ![k] = Idle]
    /\ UNCHANGED <<clock, changes, row, refundIds, booking, recorded,
                   stripe, acked, worker, desk, failures>>

\* cancelPublicExperienceCheckout, up to its call to Stripe.
cancelPublicExperienceCheckout(c) ==
    /\ c \in linked /\ row[c].status = "OPEN" /\ stripe[c].session = "open"
    /\ stripe' = [stripe EXCEPT ![c].session = "expired"]
    /\ UNCHANGED <<clock, changes, db, acked, web, failures>>

\* The conditional update that ends it, and that checkout.session.expired makes.
ExpireRow(c) ==
    /\ stripe[c].session = "expired" /\ row[c].status = "OPEN"
    /\ row' = [row EXCEPT ![c].status = "EXPIRED"]
    /\ UNCHANGED <<clock, changes, linked, intents, refundIds, booking, recorded,
                   stripe, acked, web, failures>>

(***************************************************************************)
(* Stripe                                                                  *)
(***************************************************************************)
\* The event's date decides, much later, whether the payment came too late.
CustomerPays(c) ==
    /\ c \in linked /\ stripe[c].session = "open"
    /\ stripe' = [stripe EXCEPT ![c].session = "complete",
                     ![c].late = row[c].expiresAt <= clock \/ StartsAt <= clock]
    /\ UNCHANGED <<clock, changes, db, acked, web, failures>>

StripeExpires(c) ==
    /\ stripe[c].session = "open" /\ row[c].expiresAt <= clock
    /\ stripe' = [stripe EXCEPT ![c].session = "expired"]
    /\ UNCHANGED <<clock, changes, db, acked, web, failures>>

\* A full refund under a key; a payment is not refunded twice.
createRefund(c, key) ==
    LET refund == stripe[c].refund IN
    \/ refund.key = key /\ UNCHANGED stripe
    \/ /\ refund.key = "none"
       /\ \E answer \in Reply :
            stripe' = [stripe EXCEPT ![c].refund =
                         [key |-> key, reply |-> answer, status |-> answer]]

RefundSettles(c) ==
    /\ stripe[c].refund.status = "pending"
    /\ \E outcome \in {"succeeded", "failed"} :
         stripe' = [stripe EXCEPT ![c].refund.status = outcome]
    /\ UNCHANGED <<clock, changes, db, acked, web, failures>>

RefundStatus(answer) ==
    CASE answer = "succeeded" -> "REFUNDED"
      [] answer = "failed" -> "REFUND_FAILED"
      [] OTHER -> "REFUND_PENDING"

Refunded == {"REFUNDED", "REFUND_FAILED"}

\* Mutant: the answer is stored whatever the row's status is.
StoreAnyRefund(c, answer) ==
    /\ row' = [row EXCEPT ![c].status = RefundStatus(answer)]
    /\ refundIds' = refundIds \union {c}

\* The conditional update of a row by a refund, persistExperienceRefund's and
\* the webhook's.
persistExperienceRefund(c, answer) ==
    IF row[c].status \in Refunded THEN UNCHANGED <<row, refundIds>>
    ELSE /\ row' = [row EXCEPT ![c].status = RefundStatus(answer)]
         /\ refundIds' = refundIds \union {c}

\* refund.created, refund.updated and refund.failed find their row by the
\* payment intent; an event that finds none is answered 2xx and lost.
handleExperienceRefundStripeEvent(c) ==
    /\ stripe[c].refund.key # "none" /\ c \in intents
    /\ \E status \in {stripe[c].refund.reply, stripe[c].refund.status} :
         persistExperienceRefund(c, status)
    /\ UNCHANGED <<clock, changes, linked, intents, booking, recorded,
                   stripe, acked, web, failures>>

(***************************************************************************)
(* handleExperienceCheckoutStripeEvent, for a completed session.  It reads *)
(* the row and the session, decides, and then acts in transactions and     *)
(* calls of their own.                                                     *)
(***************************************************************************)
ShouldRefund(c) == row[c].status # "OPEN" \/ stripe[c].late \/ ~SessionOpen

\* Mutant: the statuses of a booked checkout are forgotten.
SettledWhenRefunded(c) ==
    \/ row[c].status \in Refunded
    \/ row[c].status = "REFUND_PENDING" /\ c \in refundIds

\* Mutant: a refund that is owed counts as dealt with before it exists.
SettledWhenOwed(c) == row[c].status \in {"PAID", "FREE", "REFUND_PENDING"} \union Refunded

Settled(c) ==
    \/ row[c].status \in {"PAID", "FREE"} \union Refunded
    \/ row[c].status = "REFUND_PENDING" /\ c \in refundIds

ReadCompleted(w, c) ==
    /\ worker[w] = Idle /\ stripe[c].session = "complete" /\ c \notin acked
    /\ worker' = [worker EXCEPT ![w] =
                    At(CASE Settled(c) -> "replay"
                         [] ~Settled(c) /\ ShouldRefund(c) /\ c \in Free -> "expire"
                         [] ~Settled(c) /\ ShouldRefund(c) /\ c \notin Free -> "refund"
                         [] OTHER -> "confirm", c)]
    /\ UNCHANGED <<clock, changes, db, stripe, acked, request, desk, failures>>

\* The answer 2xx, that a crash or the network may still keep from Stripe.
Respond(c) ==
    \/ acked' = acked \union {c} /\ UNCHANGED failures
    \/ failures < MaxFailures /\ failures' = failures + 1 /\ UNCHANGED acked

\* The last transaction records the event, and the handler returns.
Answer(w, c) ==
    /\ recorded' = recorded \union {c}
    /\ Respond(c)
    /\ worker' = [worker EXCEPT ![w] = Idle]

RecordReplay(w) ==
    /\ worker[w].pc = "replay"
    /\ Answer(w, worker[w].of)
    /\ UNCHANGED <<clock, changes, row, linked, intents, refundIds, booking, stripe,
                   request, desk>>

ExpireFree(w) ==
    /\ worker[w].pc = "expire"
    /\ LET c == worker[w].of IN
        /\ row' = IF c \in recorded THEN row ELSE [row EXCEPT ![c].status = "EXPIRED"]
        /\ Answer(w, c)
    /\ UNCHANGED <<clock, changes, linked, intents, refundIds, booking, stripe,
                   request, desk>>

\* The refund of a late payment is made before its transaction ...
CreateLateRefund(w) ==
    /\ worker[w].pc = "refund"
    /\ createRefund(worker[w].of, "late")
    /\ worker' = [worker EXCEPT ![w].pc = "store"]
    /\ UNCHANGED <<clock, changes, db, acked, request, desk, failures>>

\* ... which leaves the row alone when the event is recorded already.
StoreLateRefund(w) ==
    /\ worker[w].pc = "store"
    /\ LET c == worker[w].of IN
        /\ IF c \in recorded THEN UNCHANGED <<row, refundIds, intents>>
           ELSE /\ persistExperienceRefund(c, stripe[c].refund.reply)
                /\ intents' = IF row[c].status \in Refunded THEN intents
                              ELSE intents \union {c}
        /\ Answer(w, c)
    /\ UNCHANGED <<clock, changes, linked, booking, stripe, request, desk>>

\* Mutant: the places are not counted again when the payment arrives.
StillOpen(c) == ~ShouldRefund(c)

\* What the transaction reads again under the advisory lock.
StillAvailable(c) == ~ShouldRefund(c) /\ Used(clock, c) + Places[c] <= Capacity

ConfirmCheckout(w) ==
    /\ worker[w].pc = "confirm"
    /\ LET c == worker[w].of IN
        \/ /\ c \in recorded \/ row[c].status = "PAID"
           /\ Answer(w, c)
           /\ UNCHANGED <<row, intents, booking>>
        \/ /\ c \notin recorded /\ row[c].status # "PAID" /\ StillAvailable(c)
           /\ booking' = [booking EXCEPT ![c] = "CONFIRMED"]
           /\ row' = [row EXCEPT ![c].status = IF c \in Free THEN "FREE" ELSE "PAID"]
           /\ intents' = IF c \in Free THEN intents ELSE intents \union {c}
           /\ Answer(w, c)
        \/ /\ c \notin recorded /\ row[c].status # "PAID" /\ ~StillAvailable(c)
           /\ c \in Free
           /\ row' = [row EXCEPT ![c].status = "EXPIRED"]
           /\ Answer(w, c)
           /\ UNCHANGED <<intents, booking>>
        \/ /\ c \notin recorded /\ row[c].status # "PAID" /\ ~StillAvailable(c)
           /\ c \notin Free
           /\ row' = [row EXCEPT ![c].status = "REFUND_PENDING"]
           /\ intents' = intents \union {c}
           /\ recorded' = recorded \union {c}
           /\ worker' = [worker EXCEPT ![w].pc = "owed"]
           /\ UNCHANGED <<acked, booking, failures>>
    /\ UNCHANGED <<clock, changes, linked, refundIds, stripe, request, desk>>

\* After that transaction, the refund it found to be owed.
CallRefund(w) ==
    /\ worker[w].pc = "owed"
    /\ createRefund(worker[w].of, "late")
    /\ worker' = [worker EXCEPT ![w].pc = "persist"]
    /\ UNCHANGED <<clock, changes, db, acked, request, desk, failures>>

PersistRefund(w) ==
    /\ worker[w].pc = "persist"
    /\ persistExperienceRefund(worker[w].of, stripe[worker[w].of].refund.reply)
    /\ Answer(w, worker[w].of)
    /\ UNCHANGED <<clock, changes, linked, intents, booking, stripe, request, desk>>

(***************************************************************************)
(* The dashboard                                                           *)
(***************************************************************************)
reserveExperience(d) ==
    /\ booking[d] = "NONE" /\ SessionOpen
    /\ \E now \in Now : StartsAt > now /\ Used(now, d) + Places[d] <= Capacity
    /\ booking' = [booking EXCEPT ![d] = "CONFIRMED"]
    /\ UNCHANGED <<clock, changes, row, linked, intents, refundIds, recorded,
                   stripe, acked, web, failures>>

\* Mutant: a payment the row has lost sight of needs no refund.
RefundNeededIfKnown(i) == i \in intents

\* refundPaidExperienceReservation: of a booking with a paid checkout; one
\* whose payment intent is not known cannot be cancelled.
RefundNeeded(i) == i \in Checkout /\ row[i].status \in {"PAID", "REFUND_PENDING"}

BeginCancel(s, i) ==
    /\ desk[s] = Idle /\ booking[i] # "NONE"
    /\ i \in Checkout => row[i].status # "REFUND_FAILED"
    /\ RefundNeeded(i) => i \in intents
    /\ desk' = [desk EXCEPT ![s] = At(IF RefundNeeded(i) THEN "refund" ELSE "cancel", i)]
    /\ UNCHANGED <<clock, changes, db, stripe, acked, request, worker, failures>>

CancelRefund(s) ==
    /\ desk[s].pc = "refund"
    /\ createRefund(desk[s].of, "cancel")
    /\ desk' = [desk EXCEPT ![s].pc = "persist"]
    /\ UNCHANGED <<clock, changes, db, acked, request, worker, failures>>

\* A refund that failed stops the cancellation.
CancelPersist(s) ==
    /\ desk[s].pc = "persist"
    /\ persistExperienceRefund(desk[s].of, stripe[desk[s].of].refund.reply)
    /\ desk' = [desk EXCEPT ![s] = IF row'[@.of].status = "REFUND_FAILED" THEN Idle
                                   ELSE At("cancel", @.of)]
    /\ UNCHANGED <<clock, changes, linked, intents, booking, recorded, stripe, acked,
                   request, worker, failures>>

CancelBooking(s) ==
    /\ desk[s].pc = "cancel"
    /\ booking' = [booking EXCEPT ![desk[s].of] = "CANCELLED"]
    /\ desk' = [desk EXCEPT ![s] = Idle]
    /\ UNCHANGED <<clock, changes, row, linked, intents, refundIds, recorded,
                   stripe, acked, request, worker, failures>>

\* updateExperienceSession gives the session any status; an experience that
\* is paused, and a session closed by expireExperienceSessions, look the same.
updateExperienceSession ==
    /\ changes < MaxChanges
    /\ changes' = changes + 1
    /\ UNCHANGED <<clock, db, stripe, acked, web, failures>>

(***************************************************************************)
(* Failures: an execution stops before its next step, by a crash of the    *)
(* process or an error of Stripe or PostgreSQL.  A webhook that stops is   *)
(* not answered 2xx.                                                       *)
(***************************************************************************)
Fail ==
    /\ failures < MaxFailures
    /\ failures' = failures + 1
    /\ \/ /\ \E k \in Client : request[k] # Idle /\ request' = [request EXCEPT ![k] = Idle]
          /\ UNCHANGED <<worker, desk>>
       \/ /\ \E w \in Worker : worker[w] # Idle /\ worker' = [worker EXCEPT ![w] = Idle]
          /\ UNCHANGED <<request, desk>>
       \/ /\ \E s \in Staff : desk[s] # Idle /\ desk' = [desk EXCEPT ![s] = Idle]
          /\ UNCHANGED <<request, worker>>
    /\ UNCHANGED <<clock, changes, db, stripe, acked>>

Tick ==
    /\ clock < MaxTime
    /\ clock' = clock + 1
    /\ UNCHANGED <<changes, db, stripe, acked, web, failures>>

Handle(w) ==
    \/ RecordReplay(w) \/ ExpireFree(w) \/ CreateLateRefund(w) \/ StoreLateRefund(w)
    \/ ConfirmCheckout(w) \/ CallRefund(w) \/ PersistRefund(w)

Request(k) ==
    \/ \E c \in Checkout : BeginCheckout(k, c) \/ ReplayCheckout(k, c)
    \/ OpenStripe(k) \/ RetrieveStripe(k) \/ Link(k)

Cancel(s) ==
    \/ \E i \in Slot : BeginCancel(s, i)
    \/ CancelRefund(s) \/ CancelPersist(s) \/ CancelBooking(s)

Next ==
    \/ \E k \in Client : Request(k)
    \/ \E c \in Checkout :
         \/ cancelPublicExperienceCheckout(c) \/ ExpireRow(c)
         \/ CustomerPays(c) \/ StripeExpires(c) \/ RefundSettles(c)
         \/ handleExperienceRefundStripeEvent(c)
         \/ \E w \in Worker : ReadCompleted(w, c)
    \/ \E w \in Worker : Handle(w)
    \/ \E d \in Direct : reserveExperience(d)
    \/ \E s \in Staff : Cancel(s)
    \/ updateExperienceSession \/ Fail \/ Tick

\* Stripe delivers an event again until a delivery is answered 2xx, and a
\* handler that was called goes on.
Fairness ==
    /\ \A w \in Worker : WF_vars(Handle(w))
    /\ \A c \in Checkout : WF_vars(\E w \in Worker : ReadCompleted(w, c))

Spec == Init /\ [][Next]_vars /\ Fairness

(***************************************************************************)
(* Properties                                                              *)
(***************************************************************************)
RowStatus == {"NONE", "OPEN", "PAID", "FREE", "EXPIRED", "REFUND_PENDING"} \union Refunded
Row == [status : RowStatus, expiresAt : 0..(MaxTime + HoldTime), price : Price \union {0}]
Refund == [key : {"none", "late", "cancel"}, reply : Reply \union {"none"},
           status : {"none", "pending"} \union {"succeeded", "failed"}]
StripeSession == [session : {"none", "open", "complete", "expired"}, late : BOOLEAN, refund : Refund]
PublicRequest == {Idle} \union [pc : {"create", "retrieve", "link"}, of : Checkout]
Delivery ==
    {Idle} \union [pc : {"replay", "expire", "refund", "store", "confirm", "owed", "persist"},
                   of : Checkout]
Cancellation == {Idle} \union [pc : {"refund", "persist", "cancel"}, of : Slot]

TypeOK ==
    /\ clock \in 0..MaxTime /\ changes \in 0..MaxChanges /\ failures \in 0..MaxFailures
    /\ row \in [Checkout -> Row] /\ stripe \in [Checkout -> StripeSession]
    /\ linked \subseteq Checkout /\ intents \subseteq Checkout \ Free
    /\ refundIds \subseteq Checkout \ Free /\ recorded \subseteq Checkout
    /\ acked \subseteq recorded
    /\ booking \in [Slot -> {"NONE", "CONFIRMED", "CANCELLED"}]
    /\ request \in [Client -> PublicRequest] /\ worker \in [Worker -> Delivery]
    /\ desk \in [Staff -> Cancellation]

\* Confirmed places and live holds together never exceed the capacity, though
\* a hold may lapse while its payment is under way and its places be sold.
NoOversell == Taken(Confirmed) + Taken(Held(clock)) <= Capacity

\* A confirmed booking has kept its money: a late-payment refund is never
\* made for it, unless the session was closed and opened again meanwhile.
BookedIsPaid ==
    \A c \in Checkout \intersect Confirmed : stripe[c].refund.key = "late" => changes >= 2

\* The dashboard cancels a paid booking only once Stripe has its refund and
\* the row no longer counts as paid.
CancelledIsRefunded ==
    \A c \in Checkout \ Free :
        booking[c] = "CANCELLED" =>
            stripe[c].refund.key # "none" /\ row[c].status \in {"REFUND_PENDING"} \union Refunded

\* The outcome of a refund is final: a late or repeated event or answer does
\* not reopen it.
RefundFinal ==
    [][\A c \in Checkout : row[c].status \in Refunded => row'[c].status = row[c].status]_vars

Paid(c) == stripe[c].session = "complete" /\ c \notin Free

\* A payment ends in a booking or in a refund.
PaymentSettled ==
    \A c \in Checkout : Paid(c) ~> booking[c] # "NONE" \/ stripe[c].refund.key # "none"

OneDelivery ==
    \A v, w \in Worker :
        v # w /\ worker[v] # Idle /\ worker[w] # Idle => worker[v].of # worker[w].of

\* The same where the deliveries of one event never overlap, whatever crashes.
PaymentSettledAlone ==
    []OneDelivery => PaymentSettled
=============================================================================
