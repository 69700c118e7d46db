------------------------------ MODULE GiftCard ------------------------------
(***************************************************************************)
(* One gift card (modules/gift-cards): bought by one payment, or raised by *)
(* the contributions of several people and then closed; spent bill by      *)
(* bill; cancelled and refunded; corrected after refunds and disputes that *)
(* happen at Stripe alone.                                                 *)
(*                                                                         *)
(* Handlers (requests and webhooks) and the finance worker read Stripe or  *)
(* the card first and write later, in transactions under the advisory lock *)
(* of the payment and the row lock of the card.  Each such transaction is  *)
(* one step.  Payments are those of connected accounts, which all have a   *)
(* gift_card_checkouts row and stay reachable: no checkout is CANCELLED,   *)
(* which Stripe allows only of a payment that is never made, and none      *)
(* waits for the support in RECOVERY_REQUIRED.                             *)
(***************************************************************************)
EXTENDS Integers, FiniteSets, FiniteSetsExt

CONSTANTS
    Kind,           \* the types of card considered: SINGLE, CROWDFUNDED
    Payment,        \* payment intents, each with its checkout
    Price,          \* amountCents of a checkout
    Bill,           \* tickets and reservations the card is presented for
    Total,          \* the amount of a bill
    Route,          \* executions of routes and of the webhooks of a payment
    Delivery,       \* for each kind of card, those of the webhooks of refunds and disputes
    Finance,        \* the gift-card-finance worker, of concurrency 1
    MaxLoad         \* bound, for each kind of card: checkouts, refunds and disputes that begin
                    \* at Stripe, and executions that end in an error or a crash

ASSUME GiftCardAssumption ==
    /\ Kind \subseteq {"SINGLE", "CROWDFUNDED"} 
    /\ Finance \notin Route /\ \A k \in Kind : Finance \notin Delivery[k]
    /\ IsFiniteSet(Payment) /\ IsFiniteSet(Bill)
    /\ Price \in [Payment -> Nat \ {0}] /\ Total \in [Bill -> Nat \ {0}]
    /\ \A k \in Kind : MaxLoad[k] \in Nat

VARIABLES
    kind,           \* the card's type
    card,           \* gift_cards
    checkout,       \* gift_card_checkouts: the status
    entry,          \* gift_card_payment_entries, with the contribution they are of
    request,        \* gift_card_refund_requests
    redeemed,       \* gift_card_redemptions: the amount taken for each bill
    stripe,         \* what Stripe knows of a payment
    refund,         \* status of Stripe's refund under the key of a request
    event,          \* payments with a refund or dispute event not yet delivered
    proc,           \* where each execution is, with what it has read
    late,           \* crowdfundedUntil has passed
    undone,         \* history: payments whose review an outdated reading took back, until they
                    \* are reconciled anew
    outside, failures

db == <<card, checkout, entry, request, redeemed>>
vars == <<kind, db, stripe, refund, event, proc, late, undone, outside, failures>>

Handler == Route \union UNION {Delivery[k] : k \in Kind}
Process == Handler \union {Finance}

\* idempotencyKey: one request for each payment and reason.
Key == [of : Payment, reason : {"CANCELLATION", "REJECTED_CONTRIBUTION"}]
Cancelling(p) == [of |-> p, reason |-> "CANCELLATION"]
Rejecting(p) == [of |-> p, reason |-> "REJECTED_CONTRIBUTION"]

Idle == [pc |-> "idle"]
Fulfilling(p) == [pc |-> "fulfil", of |-> p, refunded |-> stripe[p].refunded]
Declining == [pc |-> "decline"]
Applying(b) == [pc |-> "apply", bill |-> b]
Reconciling(p, review) == [pc |-> "reconcile", of |-> p, review |-> review]
Requests(todo, events) == IF todo = {} THEN Idle
                          ELSE [pc |-> "requests", todo |-> todo, events |-> events]
Storing(k, reply, todo, events) ==
    [pc |-> "store", key |-> k, reply |-> reply, todo |-> todo, events |-> events]

NewCard(amount) == [status |-> "ACTIVE", amount |-> amount, remaining |-> amount,
                    closed |-> FALSE, payment |-> "succeeded"]
NoRequest == [cents |-> 0, status |-> "none"]
NewRequest(cents) == [cents |-> cents, status |-> "REQUESTED"]
Finished == {"succeeded", "failed"}
Frozen == {"REFUND_PENDING", "REFUND_FAILED", "CANCELLED"}
Review == {"PAYMENT_REVIEW", "REFUND_REVIEW"}

Card == [status : {"NONE", "ACTIVE", "REDEEMED"} \union Review \union Frozen,
         amount : Nat, remaining : Nat, closed : BOOLEAN,
         payment : {"succeeded", "failed", "refunded", "partially_refunded", "disputed"}]
CheckoutStatus == {"NONE", "OPEN", "FULFILLED", "PAYMENT_REVIEW", "REFUND_PENDING", "REFUNDED",
                   "REFUND_FAILED"}
Entry == [credited : BOOLEAN, refunded : Nat, pending : BOOLEAN]
Request == {NoRequest} \union
           [cents : Nat \ {0}, status : {"REQUESTED", "pending"} \union Finished]
StripePayment == [paid : BOOLEAN, refunded : Nat, outside : Nat, disputed : BOOLEAN]
Fulfilment == [pc : {"fulfil"}, of : Payment, refunded : Nat]
Application == [pc : {"apply"}, bill : Bill]
Reconciliation == [pc : {"reconcile"}, of : Payment, review : BOOLEAN]
Requesting == [pc : {"requests"}, todo : SUBSET Key, events : SUBSET Payment]
Store == [pc : {"store"}, key : Key, reply : {"pending"} \union Finished,
          todo : SUBSET Key, events : SUBSET Payment]
Execution == {Idle, Declining} \union Fulfilment \union Application \union Reconciliation
             \union Requesting \union Store

Init ==
    /\ kind \in Kind
    /\ card = IF kind = "SINGLE" THEN [NewCard(0) EXCEPT !.status = "NONE"] ELSE NewCard(0)
    /\ checkout = [p \in Payment |-> "NONE"]
    /\ entry = [p \in Payment |-> [credited |-> FALSE, refunded |-> 0, pending |-> FALSE]]
    /\ request = [k \in Key |-> NoRequest]
    /\ refund = [k \in Key |-> "none"]
    /\ redeemed = [b \in Bill |-> 0]
    /\ stripe = [p \in Payment |-> [paid |-> FALSE, refunded |-> 0, outside |-> 0,
                                    disputed |-> FALSE]]
    /\ event = {} /\ late = FALSE /\ undone = {} /\ outside = 0 /\ failures = 0
    /\ proc = [h \in Process |-> Idle]

Credited == {p \in Payment : entry[p].credited}
Unfinished == {k \in Key : request[k].status \in {"REQUESTED", "pending"}}
Load == Cardinality({p \in Payment : checkout[p] # "NONE"}) + outside + failures
Floor(n) == Max({0, n})
Cents(amount, S) == MapThenSumSet(LAMBDA i : amount[i], S)
Retained(p) == Floor(Price[p] - entry[p].refunded)
Open == kind = "CROWDFUNDED" /\ ~card.closed

(***************************************************************************)
(* Stripe, as the code uses it.  refundedAmount counts refunds that        *)
(* succeeded; pendingRefund tells of the others.                           *)
(***************************************************************************)
Pending(p) == {k \in Key : k.of = p /\ refund[k] = "pending"}
PendingRefund(p) == stripe[p].outside > 0 \/ Pending(p) # {}
Suspect(p) == stripe[p].refunded > 0 \/ PendingRefund(p) \/ stripe[p].disputed
Refundable(p) ==
    Price[p] - stripe[p].refunded - stripe[p].outside
             - Cents([k \in Key |-> request[k].cents], Pending(p))

Pay(p) ==
    /\ checkout[p] # "NONE" /\ ~stripe[p].paid
    /\ stripe' = [stripe EXCEPT ![p].paid = TRUE]
    /\ UNCHANGED <<kind, undone, db, refund, event, proc, late, outside, failures>>

\* A refund the restaurant makes at Stripe itself; it is pending for a while,
\* however short.
OutsideRefund(p) ==
    /\ Load < MaxLoad[kind] /\ stripe[p].paid /\ stripe[p].outside = 0
    /\ \E n \in 1..Refundable(p) : stripe' = [stripe EXCEPT ![p].outside = n]
    /\ outside' = outside + 1
    /\ event' = event \union {p}
    /\ UNCHANGED <<kind, undone, db, refund, proc, late, failures>>

OutsideSettles(p) ==
    /\ stripe[p].outside > 0
    /\ \E n \in {0, stripe[p].outside} :
         stripe' = [stripe EXCEPT ![p] =
                      [stripe[p] EXCEPT !.outside = 0, !.refunded = stripe[p].refunded + n]]
    /\ event' = event \union {p}
    /\ UNCHANGED <<kind, undone, db, refund, proc, late, outside, failures>>

Dispute(p) ==
    /\ stripe[p].paid /\ (stripe[p].disputed \/ Load < MaxLoad[kind])
    /\ stripe' = [stripe EXCEPT ![p].disputed = ~@]
    /\ outside' = IF stripe[p].disputed THEN outside ELSE outside + 1
    /\ event' = event \union {p}
    /\ UNCHANGED <<kind, undone, db, refund, proc, late, failures>>

RefundSettles(p) ==
    /\ \E k \in Pending(p), outcome \in Finished :
        /\ refund' = [refund EXCEPT ![k] = outcome]
        /\ stripe' = IF outcome = "succeeded"
                     THEN [stripe EXCEPT ![p].refunded = @ + request[k].cents] ELSE stripe
    /\ event' = event \union {p}
    /\ UNCHANGED <<kind, undone, db, proc, late, outside, failures>>

(***************************************************************************)
(* Checkout and fulfilment.  The webhook, the customer's own page and the  *)
(* finance worker may all fulfil one payment.                              *)
(***************************************************************************)
Prepare(p) ==
    /\ checkout[p] = "NONE"
    /\ Load < MaxLoad[kind]
    /\ IF kind = "SINGLE" THEN \A q \in Payment : checkout[q] = "NONE"
       ELSE card.status = "ACTIVE" /\ ~card.closed /\ ~late
    /\ checkout' = [checkout EXCEPT ![p] = "OPEN"]
    /\ UNCHANGED <<kind, undone, card, entry, request, redeemed, stripe, refund, event, proc,
                   late, outside, failures>>

\* A payment that is credited is found to be, and nothing happens.
BeginFulfil(h, p) ==
    /\ proc[h] = Idle /\ h \in Route \union {Finance} /\ stripe[p].paid /\ ~entry[p].credited
    /\ h = Finance => checkout[p] = "OPEN"
    /\ ~stripe[p].disputed /\ ~PendingRefund(p)
    /\ kind = "SINGLE" => stripe[p].refunded = 0
    /\ proc' = [proc EXCEPT ![h] = Fulfilling(p)]
    /\ UNCHANGED <<kind, undone, db, stripe, refund, event, late, outside, failures>>

\* Mutant: the status of the checkout is not read again under the lock.
StatusTrusted(p) == TRUE

StatusAllows(p) == checkout[p] \in {"OPEN", "FULFILLED"}

purchaseWithPayment(h) ==
    /\ proc[h].pc = "fulfil" /\ kind = "SINGLE"
    /\ LET p == proc[h].of
           new == StatusAllows(p) /\ ~entry[p].credited IN
        /\ card' = IF new THEN NewCard(Price[p]) ELSE card
        /\ entry' = [entry EXCEPT ![p].credited = @ \/ new]
        /\ checkout' = IF StatusAllows(p) THEN [checkout EXCEPT ![p] = "FULFILLED"] ELSE checkout
    /\ proc' = [proc EXCEPT ![h] = Idle]
    /\ UNCHANGED <<kind, undone, request, redeemed, stripe, refund, event, late, outside, failures>>

\* Mutant: a contribution is accepted after the closing.
AcceptedWhileActive(p, refunded) == card.status = "ACTIVE" /\ ~late /\ refunded = 0

Accepted(p, refunded) ==
    ~card.closed /\ card.status = "ACTIVE" /\ ~late /\ refunded = 0

\* Mutant: the refund is not recorded as requested.
RejectUnrequested(h, p) ==
    /\ checkout' = [checkout EXCEPT ![p] = "REFUND_PENDING"]
    /\ proc' = [proc EXCEPT ![h] = Idle]
    /\ UNCHANGED <<entry, request>>

\* A contribution that comes too late is refunded, for what is left of it.
Reject(h, p) ==
    LET cents == Price[p] - proc[h].refunded IN
    /\ request' = IF cents > 0 /\ request[Rejecting(p)] = NoRequest
                  THEN [request EXCEPT ![Rejecting(p)] = NewRequest(cents)] ELSE request
    /\ checkout' = [checkout EXCEPT ![p] = "REFUND_PENDING"]
    /\ proc' = [proc EXCEPT ![h] = Requests(IF cents > 0 THEN {Rejecting(p)} ELSE {}, {})]
    /\ UNCHANGED entry

contribute(h) ==
    /\ proc[h].pc = "fulfil" /\ kind = "CROWDFUNDED"
    /\ LET p == proc[h].of IN
        \/ /\ checkout[p] = "PAYMENT_REVIEW" \/ entry[p].credited
           /\ proc' = [proc EXCEPT ![h] = Idle]
           /\ UNCHANGED <<checkout, entry, request>>
        \/ /\ checkout[p] # "PAYMENT_REVIEW" /\ ~entry[p].credited
           /\ Accepted(p, proc[h].refunded)
           /\ entry' = [entry EXCEPT ![p].credited = TRUE]
           /\ checkout' = [checkout EXCEPT ![p] = "FULFILLED"]
           /\ proc' = [proc EXCEPT ![h] = Idle]
           /\ UNCHANGED request
        \/ /\ checkout[p] # "PAYMENT_REVIEW" /\ ~entry[p].credited
           /\ ~Accepted(p, proc[h].refunded)
           /\ Reject(h, p)
    /\ UNCHANGED <<kind, undone, card, redeemed, stripe, refund, event, late, outside, failures>>

\* payment_intent.payment_failed, of an attempt before the one that was paid: the
\* card's row is read ...
ReadPaymentFailed(h) ==
    /\ proc[h] = Idle /\ h \in Route /\ kind = "SINGLE" /\ card.status # "NONE"
    /\ card.payment \notin {"succeeded", "failed"}
    /\ proc' = [proc EXCEPT ![h] = Declining]
    /\ UNCHANGED <<kind, undone, db, stripe, refund, event, late, outside, failures>>

\* ... and written, whatever it is by now.
handlePaymentFailed(h) ==
    /\ proc[h].pc = "decline"
    /\ card' = [card EXCEPT !.payment = "failed"]
    /\ proc' = [proc EXCEPT ![h] = Idle]
    /\ UNCHANGED <<kind, undone, checkout, entry, request, redeemed, stripe, refund, event,
                   late, outside, failures>>

Closable == Open /\ card.status = "ACTIVE"

closeCrowdfunding ==
    /\ Closable
    /\ LET total == Cents([p \in Payment |-> Retained(p)], Credited) IN
        /\ total > 0
        /\ card' = [card EXCEPT !.amount = total, !.remaining = total, !.closed = TRUE]
    /\ UNCHANGED <<kind, undone, checkout, entry, request, redeemed, stripe, refund, event, proc,
                   late, outside, failures>>

(***************************************************************************)
(* Spending                                                                *)
(***************************************************************************)
Spend(b) ==
    LET amount == Min({card.remaining, Total[b]}) IN
    /\ redeemed' = [redeemed EXCEPT ![b] = amount]
    /\ card' = [card EXCEPT !.remaining = @ - amount,
                  !.status = IF amount < card.remaining THEN "ACTIVE" ELSE "REDEEMED"]

PaymentKept == kind = "SINGLE" => card.payment \in {"succeeded", "partially_refunded"}

debit(b) ==
    /\ redeemed[b] = 0
    /\ card.status = "ACTIVE" /\ card.remaining > 0
    /\ ~Open /\ PaymentKept
    /\ Spend(b)
    /\ UNCHANGED <<kind, undone, checkout, entry, request, stripe, refund, event, proc,
                   late, outside, failures>>

\* Mutant: the answer of validateCode is trusted under the lock.
SpendableAsRead == TRUE

\* What applyToReservation reads again once it has the row.
StillSpendable == card.status = "ACTIVE" /\ card.remaining > 0

\* applyToReservation: the code is validated before the transaction ...
validateCode(h, b) ==
    /\ proc[h] = Idle /\ h \in Route
    /\ card.status = "ACTIVE" /\ PaymentKept /\ card.remaining > 0
    /\ redeemed[b] = 0
    /\ proc' = [proc EXCEPT ![h] = Applying(b)]
    /\ UNCHANGED <<kind, undone, db, stripe, refund, event, late, outside, failures>>

\* ... and the balance is taken in it, once for each reservation.
applyToReservation(h) ==
    /\ proc[h].pc = "apply"
    /\ LET b == proc[h].bill IN
         IF redeemed[b] = 0 /\ StillSpendable THEN Spend(b) ELSE UNCHANGED <<card, redeemed>>
    /\ proc' = [proc EXCEPT ![h] = Idle]
    /\ UNCHANGED <<kind, undone, checkout, entry, request, stripe, refund, event, late, outside,
                   failures>>

(***************************************************************************)
(* Cancellation and refunds                                                *)
(***************************************************************************)
\* What cancelling gives back of each payment.
Due(p) ==
    CASE p \notin Credited -> 0
      [] p \in Credited /\ kind = "SINGLE" -> card.remaining
      [] OTHER -> Retained(p)

\* A pot that was spent from is left to the support.
Cancellable ==
    (kind = "CROWDFUNDED" /\ Credited # {} /\ card.amount > 0) => card.remaining = card.amount

\* The transaction of cancel, in whatever execution it runs ...
cancel ==
    /\ card.status \notin {"NONE"} \union Frozen
    /\ Cancellable
    /\ LET due == {p \in Payment : Due(p) > 0} IN
        /\ request' = [k \in Key |->
                         IF k.reason = "CANCELLATION" /\ k.of \in due
                         THEN NewRequest(Due(k.of)) ELSE request[k]]
        /\ card' = IF due # {} THEN [card EXCEPT !.status = "REFUND_PENDING"]
                   ELSE [card EXCEPT !.status = "CANCELLED", !.remaining = 0]
    /\ UNCHANGED <<kind, undone, checkout, entry, redeemed, stripe, refund, event, proc,
                   late, outside, failures>>

\* ... and what follows it, as it follows a repeated call.
AfterCancel(h) ==
    /\ proc[h] = Idle /\ h \in Route
    /\ LET todo == {k \in Unfinished : k.reason = "CANCELLATION"} IN
        /\ todo # {}
        /\ proc' = [proc EXCEPT ![h] = Requests(todo, {})]
    /\ UNCHANGED <<kind, undone, db, stripe, refund, event, late, outside, failures>>

\* The finance worker takes up every refund that is not finished.
Scan ==
    /\ proc[Finance] = Idle /\ Unfinished # {}
    /\ proc' = [proc EXCEPT ![Finance] = Requests(Unfinished, {})]
    /\ UNCHANGED <<kind, undone, db, stripe, refund, event, late, outside, failures>>

\* createRefund under the request's key: a repeated call makes no other refund
\* and may be given an answer that is no longer true, and a payment is never
\* refunded beyond its amount.
createRefund(k, reply) ==
    \/ /\ refund[k] # "none" /\ reply \in {"pending", refund[k]}
       /\ UNCHANGED <<stripe, refund, event>>
    \/ /\ refund[k] = "none" /\ request[k].cents <= Refundable(k.of)
       /\ refund' = [refund EXCEPT ![k] = reply]
       /\ stripe' = IF reply = "succeeded"
                    THEN [stripe EXCEPT ![k.of].refunded = @ + request[k].cents] ELSE stripe
       /\ event' = event \union {k.of}

\* process, up to Stripe's answer: a refund whose id is stored is read again;
\* only the finance worker goes on to the next when Stripe refuses one.
Ask(h, k) ==
    LET rest == (proc[h].todo \intersect Unfinished) \ {k} IN
    \/ \E reply \in {"pending"} \union Finished :
         /\ IF request[k].status = "REQUESTED" THEN createRefund(k, reply)
            ELSE reply = refund[k] /\ UNCHANGED <<stripe, refund, event>>
         /\ proc' = [proc EXCEPT ![h] = Storing(k, reply, rest, @.events)]
    \/ /\ refund[k] = "none" /\ request[k].cents > Refundable(k.of)
       /\ proc' = [proc EXCEPT ![h] = IF h = Finance THEN Requests(rest, @.events) ELSE Idle]
       /\ event' = event \union proc[h].events
       /\ UNCHANGED <<stripe, refund>>

CallStripe(h) ==
    /\ proc[h].pc = "requests"
    /\ \/ /\ proc[h].todo \intersect Unfinished = {}
          /\ proc' = [proc EXCEPT ![h] = Idle]
          /\ UNCHANGED <<stripe, refund, event>>
       \/ \E k \in proc[h].todo \intersect Unfinished : Ask(h, k)
    /\ UNCHANGED <<kind, undone, db, late, outside, failures>>

\* Mutant: one refund that succeeded ends the cancellation.
SomeSucceeded(S) == \E k \in S : request'[k].status = "succeeded"

AllSucceeded(S) == \A k \in S : request'[k].status = "succeeded"

\* What the outcome of a refund does to the card and to the checkout.
Conclude(k, reply) ==
    LET all == {j \in Key : j.reason = "CANCELLATION" /\ request[j] # NoRequest} IN
    IF k.reason = "CANCELLATION"
    THEN /\ card' = CASE \E j \in all : request'[j].status = "failed" ->
                             [card EXCEPT !.status = "REFUND_FAILED"]
                      [] (\A j \in all : request'[j].status # "failed") /\ AllSucceeded(all) ->
                             [card EXCEPT !.status = "CANCELLED", !.remaining = 0,
                                          !.payment = "refunded"]
                      [] OTHER -> card
         /\ UNCHANGED checkout
    ELSE /\ checkout' = CASE reply = "succeeded" -> [checkout EXCEPT ![k.of] = "REFUNDED"]
                          [] reply = "failed" -> [checkout EXCEPT ![k.of] = "REFUND_FAILED"]
                          [] OTHER -> checkout
         /\ UNCHANGED card

StoreRefund(h) ==
    /\ proc[h].pc = "store"
    /\ IF proc[h].key \in Unfinished
       THEN /\ request' = [request EXCEPT ![proc[h].key].status = proc[h].reply]
            /\ Conclude(proc[h].key, proc[h].reply)
       ELSE UNCHANGED <<card, checkout, request>>
    /\ proc' = [proc EXCEPT ![h] = Requests(@.todo, @.events)]
    /\ UNCHANGED <<kind, undone, entry, redeemed, stripe, refund, event, late, outside, failures>>

(***************************************************************************)
(* reconcilePayment, called for every refund and dispute event: Stripe is  *)
(* read before the transaction, and again under the card's lock when the   *)
(* payment was credited.  When it was not, the first reading is written,   *)
(* though another execution may have written a later one since; `undone'   *)
(* notes that this took a review back.                                     *)
(***************************************************************************)
BeginReconcile(h, p) ==
    /\ proc[h] = Idle /\ h \in Delivery[kind] /\ p \in event
    /\ event' = event \ {p}
    /\ proc' = [proc EXCEPT ![h] = Reconciling(p, Suspect(p))]
    /\ UNCHANGED <<kind, undone, db, stripe, refund, late, outside, failures>>

OthersNeedReview(p) ==
    /\ card.status \in Review /\ ~stripe[p].disputed
    /\ \E q \in Credited \ {p} :
         stripe[q].disputed \/ PendingRefund(q) \/ stripe[q].refunded > entry[q].refunded

StatusAfter(p, delta, remaining) ==
    IF stripe[p].disputed \/ OthersNeedReview(p) THEN "PAYMENT_REVIEW"
    ELSE IF \E q \in Credited : entry'[q].pending THEN "REFUND_REVIEW"
    ELSE IF remaining = 0 /\ delta > 0 /\ ~Open THEN "CANCELLED"
    ELSE IF card.status \notin Review THEN card.status
    ELSE IF remaining > 0 \/ Open THEN "ACTIVE" ELSE "REDEEMED"

PaymentAfter(p) ==
    IF stripe[p].disputed \/ OthersNeedReview(p) THEN "disputed"
    ELSE IF stripe[p].refunded >= Price[p] THEN "refunded"
    ELSE IF stripe[p].refunded > 0 THEN "partially_refunded"
    ELSE IF card.payment = "disputed" THEN "succeeded" ELSE card.payment

NewlyRefunded(p) == Floor(stripe[p].refunded - entry[p].refunded)

BalanceAfter(delta) == Floor(card.remaining - delta)

HandsOff == card.status \in Frozen

reconcilePayment(h) ==
    /\ proc[h].pc = "reconcile"
    /\ LET p == proc[h].of
           delta == NewlyRefunded(p)
           remaining == BalanceAfter(delta) IN
        /\ IF p \in Credited
           THEN /\ entry' = [entry EXCEPT ![p] =
                               [entry[p] EXCEPT !.refunded = entry[p].refunded + delta,
                                                !.pending = PendingRefund(p)]]
                /\ card' = IF HandsOff THEN card
                           ELSE [card EXCEPT !.remaining = remaining,
                                   !.status = StatusAfter(p, delta, remaining),
                                   !.payment = PaymentAfter(p)]
                /\ UNCHANGED checkout
           ELSE /\ checkout' = IF checkout[p] \in {"OPEN", "PAYMENT_REVIEW"}
                               THEN [checkout EXCEPT ![p] =
                                       IF proc[h].review THEN "PAYMENT_REVIEW" ELSE "OPEN"]
                               ELSE checkout
                /\ UNCHANGED <<entry, card>>
        /\ undone' = IF p \in Credited \/ proc[h].review \/ ~Suspect(p) THEN undone \ {p}
                     ELSE IF checkout[p] = "PAYMENT_REVIEW" THEN undone \union {p} ELSE undone
        /\ proc' = [proc EXCEPT ![h] = Requests({k \in Unfinished : k.of = p}, {p})]
    /\ UNCHANGED <<kind, request, redeemed, stripe, refund, event, late, outside, failures>>

(***************************************************************************)
(* Failures and time                                                       *)
(***************************************************************************)
\* An execution that ends before its first write has changed nothing.  Later,
\* Stripe delivers again an event that was not answered 2xx.
Fail(h) ==
    /\ Load < MaxLoad[kind] /\ proc[h].pc \in {"requests", "store"}
    /\ event' = event \union proc[h].events
    /\ proc' = [proc EXCEPT ![h] = Idle]
    /\ failures' = failures + 1
    /\ UNCHANGED <<kind, undone, db, stripe, refund, late, outside>>

\* It matters only as long as the pot is open.
DeadlinePasses ==
    /\ Open /\ ~late
    /\ late' = TRUE
    /\ UNCHANGED <<kind, undone, db, stripe, refund, event, proc, outside, failures>>

Go(h) ==
    \/ purchaseWithPayment(h) \/ contribute(h) \/ applyToReservation(h)
    \/ handlePaymentFailed(h) \/ CallStripe(h) \/ StoreRefund(h) \/ reconcilePayment(h)

AtStripe(p) ==
    Pay(p) \/ OutsideRefund(p) \/ OutsideSettles(p) \/ Dispute(p) \/ RefundSettles(p)

Next ==
    \/ \E p \in Payment :
         \/ AtStripe(p) \/ Prepare(p)
         \/ \E h \in Process : BeginFulfil(h, p) \/ BeginReconcile(h, p)
    \/ \E b \in Bill : debit(b) \/ \E h \in Handler : validateCode(h, b)
    \/ \E h \in Process : Go(h) \/ ReadPaymentFailed(h) \/ AfterCancel(h) \/ Fail(h)
    \/ closeCrowdfunding \/ cancel \/ Scan \/ DeadlinePasses

\* The finance worker runs every five minutes, and Stripe settles the refunds
\* it accepted.  No request and no event needs to come again.  A checkout that
\* the worker finds paid is fulfilled; those it gives up are left out (above).
Finances == Scan \/ \E p \in Payment : BeginFulfil(Finance, p)

Fairness ==
    /\ WF_vars(Finances) /\ WF_vars(Go(Finance))
    /\ WF_vars(\E p \in Payment : RefundSettles(p))

Spec == Init /\ [][Next]_vars /\ Fairness

(***************************************************************************)
(* Properties                                                              *)
(***************************************************************************)
TypeOK ==
    /\ kind \in Kind /\ event \subseteq Payment /\ undone \subseteq Payment
    /\ late \in BOOLEAN /\ outside \in 0..MaxLoad[kind] /\ failures \in 0..MaxLoad[kind]
    /\ card \in Card /\ card.remaining <= card.amount
    /\ checkout \in [Payment -> CheckoutStatus]
    /\ entry \in [Payment -> Entry] /\ stripe \in [Payment -> StripePayment]
    /\ request \in [Key -> Request]
    /\ refund \in [Key -> {"none", "pending"} \union Finished]
    /\ redeemed \in [Bill -> Nat] /\ \A b \in Bill : redeemed[b] <= Total[b]
    /\ proc \in [Process -> Execution]

Spent == Cents(redeemed, Bill)
Collected == Cents(Price, Credited)
KnownRefunds == Cents([p \in Payment |-> entry[p].refunded], Credited)

\* The balance of a card in use is what its payments brought, less what was
\* spent and what Stripe is known to have given back: a refund is taken off
\* once however often its events come, and closing again restores nothing.
LedgerBalances ==
    card.status \notin Frozen /\ card.remaining > 0 =>
        card.remaining = Collected - KnownRefunds - Spent

\* What a cancellation gives back and what was spent never exceed what was
\* collected, however debits and cancellations interleave.
MoneyOut ==
    Spent + Cents([p \in Payment |-> request[Cancelling(p)].cents], Payment) <= Collected

\* A card that is cancelled or being refunded is never spent or usable again,
\* and a cancellation that has ended stays ended.
FrozenStays ==
    [][card.status \in Frozen =>
         /\ card'.status \in Frozen /\ redeemed' = redeemed
         /\ card.status # "REFUND_PENDING" => card'.status = card.status]_vars

Settled == event = {} /\ \A h \in Process : proc[h] = Idle

\* Once Stripe's events are handled the ledger of a purchase shows every
\* refund, and a card whose payment is disputed or being refunded cannot be
\* spent, whatever fulfilments raced with the events and however their
\* handling overlapped.  The code breaks it in one way, which is left out: of
\* two overlapping reconciliations the one with the older reading opens a
\* checkout that the other put under review, and it is fulfilled before the
\* next event (`undone').
RefundsKnown ==
    kind = "SINGLE" /\ Settled =>
        \A p \in Credited \ undone :
            /\ entry[p].refunded = stripe[p].refunded
            /\ stripe[p].disputed \/ PendingRefund(p) => card.status # "ACTIVE"

\* The finance worker alone brings every payment and every cancellation to an
\* end, whatever crashes and though no event is ever delivered: a payment is
\* credited or refunded, as far as Stripe will, and a cancelled card does not
\* stay half refunded.  A refund made at Stripe directly may prevent it, since
\* Stripe then refuses the amount that was asked for, for ever.
Answered(p) ==
    entry[p].credited \/ stripe[p].refunded = Price[p] \/ refund[Rejecting(p)] = "failed"

ObligationsEnd ==
    []<>(\/ outside > 0
         \/ /\ card.status # "REFUND_PENDING"
            /\ \A p \in Payment : stripe[p].paid => Answered(p))
=============================================================================
