--------------------------- MODULE GiftCardProofs ---------------------------
(***************************************************************************)
(* Proofs about GiftCard, for every set of payments, bills and handlers,   *)
(* every price and every value of the bounds.                              *)
(***************************************************************************)
EXTENDS GiftCard, Sums

(***************************************************************************)
(* The inductive invariant                                                 *)
(***************************************************************************)
PendingCents(k) == IF refund[k] = "pending" THEN request[k].cents ELSE 0

GivenBack(p) == stripe[p].refunded + stripe[p].outside
                + PendingCents(Cancelling(p)) + PendingCents(Rejecting(p))

\* Stripe never gives back more than was paid, counting what it has accepted,
\* and the ledger never knows of more than Stripe gave back.
StripeSound ==
    \A p \in Payment : GivenBack(p) <= Price[p] /\ entry[p].refunded <= stripe[p].refunded

RefundsAsked == \A k \in Key : refund[k] # "none" => request[k] # NoRequest

PaymentsPrepared ==
    /\ \A p \in Payment : stripe[p].paid \/ entry[p].credited => checkout[p] # "NONE"
    /\ \A h \in Process : proc[h].pc = "fulfil" => checkout[proc[h].of] # "NONE"

RejectedPrepared == \A p \in Payment : request[Rejecting(p)] # NoRequest => checkout[p] # "NONE"

\* A purchase has one payment, and the card is there from when it is credited.
OnePurchase ==
    /\ kind = "SINGLE" =>
        /\ \A p, q \in Payment : checkout[p] # "NONE" /\ checkout[q] # "NONE" => p = q
        /\ card.status = "NONE" => Credited = {}
        /\ card.status # "NONE" => Credited # {}
    /\ kind = "CROWDFUNDED" => card.status # "NONE"

UncreditedClean == \A p \in Payment : ~entry[p].credited => entry[p].refunded = 0

\* Nothing is spent before the card has its amount, and a pot that was spent
\* from is no longer whole.
Unspent ==
    /\ card.status = "NONE" \/ Open => card.amount = 0 /\ Spent = 0
    /\ kind = "CROWDFUNDED" /\ Spent > 0 => card.remaining < card.amount

Balance == Spent + card.remaining <= Collected

\* The requests of a cancellation tell the card's status, and the reverse.
CancellationSound ==
    /\ card.status \notin Frozen => \A p \in Payment : request[Cancelling(p)] = NoRequest
    /\ card.status = "REFUND_FAILED" =>
        \E p \in Payment : request[Cancelling(p)].status = "failed"
    /\ card.status = "CANCELLED" => \A p \in Payment : Cancelling(p) \notin Unfinished

CardInv ==
    /\ OnePurchase /\ UncreditedClean /\ Unspent /\ Balance
    /\ LedgerBalances /\ MoneyOut /\ CancellationSound

IInv == /\ TypeOK /\ StripeSound /\ RefundsAsked
        /\ PaymentsPrepared /\ RejectedPrepared /\ CardInv

(***************************************************************************)
(* Executions and requests                                                 *)
(***************************************************************************)
LEMMA ExecutionIs ==
    ASSUME NEW e \in Execution
    PROVE  /\ e.pc = "fulfil" => e \in Fulfilment
           /\ e.pc = "apply" => e \in Application
           /\ e.pc = "reconcile" => e \in Reconciliation
           /\ e.pc = "requests" => e \in Requesting
           /\ e.pc = "store" => e \in Store
BY DEF Execution, Idle, Declining, Fulfilment, Application, Reconciliation, Requesting, Store

LEMMA KeyFacts ==
    /\ \A p \in Payment : Cancelling(p) \in Key /\ Rejecting(p) \in Key
    /\ \A p \in Payment : Cancelling(p).of = p /\ Rejecting(p).of = p
    /\ \A p \in Payment : Cancelling(p).reason = "CANCELLATION"
    /\ \A p \in Payment : Rejecting(p).reason = "REJECTED_CONTRIBUTION"
    /\ \A p, q \in Payment : Cancelling(p) # Rejecting(q)
    /\ \A p, q \in Payment : p # q => Cancelling(p) # Cancelling(q) /\ Rejecting(p) # Rejecting(q)
    /\ \A k \in Key : k.of \in Payment
    /\ \A k \in Key : k = Cancelling(k.of) \/ k = Rejecting(k.of)
    /\ \A k \in Key : k.reason = "CANCELLATION" => k = Cancelling(k.of)
<1>1. \A p \in Payment : Cancelling(p) \in Key /\ Rejecting(p) \in Key
    BY DEF Cancelling, Rejecting, Key
<1>2. \A p \in Payment : /\ Cancelling(p).of = p /\ Rejecting(p).of = p
                         /\ Cancelling(p).reason = "CANCELLATION"
                         /\ Rejecting(p).reason = "REJECTED_CONTRIBUTION"
    BY DEF Cancelling, Rejecting
<1>3. \A k \in Key : /\ k.of \in Payment /\ k.reason \in {"CANCELLATION", "REJECTED_CONTRIBUTION"}
                     /\ k = [of |-> k.of, reason |-> k.reason]
    BY DEF Key
<1>4. \A k \in Key : /\ k.reason = "CANCELLATION" => k = Cancelling(k.of)
                     /\ k.reason = "REJECTED_CONTRIBUTION" => k = Rejecting(k.of)
    BY <1>3 DEF Cancelling, Rejecting
<1>5. \A p, q \in Payment : Cancelling(p) # Rejecting(q)
    BY <1>2
<1>6. \A p, q \in Payment : p # q => Cancelling(p) # Cancelling(q) /\ Rejecting(p) # Rejecting(q)
    BY <1>2
<1> QED BY <1>1, <1>2, <1>3, <1>4, <1>5, <1>6

LEMMA RequestFacts ==
    /\ NoRequest \in Request /\ NoRequest.cents = 0 /\ NoRequest.status = "none"
    /\ \A c \in Nat : c > 0 => /\ NewRequest(c) \in Request /\ NewRequest(c) # NoRequest
                               /\ NewRequest(c).cents = c /\ NewRequest(c).status = "REQUESTED"
    /\ \A r \in Request : r.cents \in Nat
    /\ \A r \in Request : r # NoRequest => /\ r.cents > 0 /\ r.status # "none"
                                           /\ r.status \in {"REQUESTED", "pending"} \union Finished
    /\ \A r \in Request : \A s \in {"pending"} \union Finished : r # NoRequest =>
        LET q == [r EXCEPT !.status = s] IN
        q \in Request /\ q # NoRequest /\ q.cents = r.cents /\ q.status = s
<1>1. /\ NoRequest \in Request /\ NoRequest.cents = 0 /\ NoRequest.status = "none"
    BY DEF Request, NoRequest
<1>2. \A c \in Nat : c > 0 =>
          /\ NewRequest(c) \in Request /\ NewRequest(c) # NoRequest
          /\ NewRequest(c).cents = c /\ NewRequest(c).status = "REQUESTED"
    BY DEF Request, NoRequest, NewRequest
<1>3. \A r \in Request : r.cents \in Nat
    BY DEF Request, NoRequest
<1>4. \A r \in Request : r # NoRequest =>
          r.cents > 0 /\ r.status # "none" /\ r.status \in {"REQUESTED", "pending"} \union Finished
    BY DEF Request, NoRequest, Finished
<1>5. ASSUME NEW r \in Request, NEW s \in {"pending"} \union Finished, r # NoRequest,
             NEW q, q = [r EXCEPT !.status = s]
      PROVE  q \in Request /\ q # NoRequest /\ q.cents = r.cents /\ q.status = s
    BY <1>5 DEF Request, NoRequest, Finished
<1> QED BY <1>1, <1>2, <1>3, <1>4, <1>5

LEMMA RequestsType ==
    ASSUME NEW todo \in SUBSET Key, NEW events \in SUBSET Payment
    PROVE  Requests(todo, events) \in Execution /\ Requests(todo, events).pc # "fulfil"
BY DEF Requests, Execution, Idle, Requesting

LEMMA ExecutionTypes ==
    /\ Idle \in Execution /\ Idle.pc = "idle"
    /\ Declining \in Execution /\ Declining.pc = "decline"
    /\ \A b \in Bill : Applying(b) \in Execution /\ Applying(b).pc = "apply"
    /\ \A p \in Payment : \A r \in BOOLEAN :
           Reconciling(p, r) \in Execution /\ Reconciling(p, r).pc = "reconcile"
    /\ \A k \in Key : \A reply \in {"pending"} \union Finished :
           \A todo \in SUBSET Key : \A events \in SUBSET Payment :
               /\ Storing(k, reply, todo, events) \in Execution
               /\ Storing(k, reply, todo, events).pc = "store"
<1>1. /\ Idle \in Execution /\ Idle.pc = "idle"
      /\ Declining \in Execution /\ Declining.pc = "decline"
    BY DEF Execution, Idle, Declining
<1>2. \A b \in Bill : Applying(b) \in Execution /\ Applying(b).pc = "apply"
    BY DEF Execution, Application, Applying
<1>3. \A p \in Payment : \A r \in BOOLEAN :
          Reconciling(p, r) \in Execution /\ Reconciling(p, r).pc = "reconcile"
    BY DEF Execution, Reconciliation, Reconciling
<1>4. \A k \in Key : \A reply \in {"pending"} \union Finished :
          \A todo \in SUBSET Key : \A events \in SUBSET Payment :
              /\ Storing(k, reply, todo, events) \in Execution
              /\ Storing(k, reply, todo, events).pc = "store"
    BY DEF Execution, Store, Storing
<1> QED BY <1>1, <1>2, <1>3, <1>4

\* One execution moves on, and no checkout disappears.
LEMMA ProcStep ==
    ASSUME TypeOK, PaymentsPrepared, NEW h \in Process, NEW e \in Execution,
           proc' = [proc EXCEPT ![h] = e],
           \A p \in Payment : checkout[p] # "NONE" => checkout'[p] # "NONE",
           e.pc = "fulfil" => checkout'[e.of] # "NONE"
    PROVE  /\ proc' \in [Process -> Execution]
           /\ \A g \in Process : proc'[g].pc = "fulfil" => checkout'[proc'[g].of] # "NONE"
<1>1. \A g \in Process : proc'[g] = IF g = h THEN e ELSE proc[g]
    BY DEF TypeOK
<1>2. \A g \in Process : proc[g].pc = "fulfil" => proc[g].of \in Payment
    BY ExecutionIs DEF TypeOK, Fulfilment
<1>3. proc' \in [Process -> Execution]
    BY DEF TypeOK
<1> QED BY <1>1, <1>2, <1>3 DEF PaymentsPrepared

\* Nothing but the executions, the events and the clock changes.
LEMMA ControlStep ==
    ASSUME GiftCardAssumption, IInv, UNCHANGED <<kind, undone, db, stripe, refund>>,
           event' \in SUBSET Payment, late' \in BOOLEAN,
           outside' \in 0..MaxLoad[kind], failures' \in 0..MaxLoad[kind],
           \/ UNCHANGED proc
           \/ \E h \in Process : \E e \in Execution :
                  /\ proc' = [proc EXCEPT ![h] = e]
                  /\ e.pc = "fulfil" => checkout[e.of] # "NONE"
    PROVE  IInv'
<1>1. UNCHANGED <<kind, card, checkout, entry, request, redeemed, stripe, refund>>
    BY DEF db
<1>2. /\ proc' \in [Process -> Execution]
      /\ \A g \in Process : proc'[g].pc = "fulfil" => checkout'[proc'[g].of] # "NONE"
    <2>1. CASE UNCHANGED proc
        BY <1>1, <2>1 DEF IInv, TypeOK, PaymentsPrepared
    <2>2. ASSUME NEW h \in Process, NEW e \in Execution, proc' = [proc EXCEPT ![h] = e],
                 e.pc = "fulfil" => checkout[e.of] # "NONE"
          PROVE  /\ proc' \in [Process -> Execution]
                 /\ \A g \in Process : proc'[g].pc = "fulfil" => checkout'[proc'[g].of] # "NONE"
        BY <1>1, <2>2, ProcStep DEF IInv
    <2> QED BY <2>1, <2>2
<1>3. TypeOK'
    BY <1>1, <1>2 DEF IInv, TypeOK
<1>4. StripeSound' /\ RefundsAsked'
    BY <1>1 DEF IInv, StripeSound, RefundsAsked, GivenBack, PendingCents
<1>5. PaymentsPrepared' /\ RejectedPrepared'
    BY <1>1, <1>2 DEF IInv, PaymentsPrepared, RejectedPrepared
<1>6. CardInv'
    BY <1>1 DEF IInv, CardInv, OnePurchase, UncreditedClean, Unspent, Balance, LedgerBalances,
                MoneyOut, CancellationSound, Credited, Open, Spent, Collected, KnownRefunds, Unfinished
<1> QED BY <1>3, <1>4, <1>5, <1>6 DEF IInv

LEMMA Bounded ==
    ASSUME GiftCardAssumption, TypeOK
    PROVE  /\ MaxLoad[kind] \in Nat
           /\ outside \in Nat /\ failures \in Nat
           /\ kind = "SINGLE" \/ kind = "CROWDFUNDED"
BY DEF GiftCardAssumption, TypeOK

LEMMA LoadFacts ==
    ASSUME GiftCardAssumption, TypeOK
    PROVE  /\ Load \in Int
           /\ Load < MaxLoad[kind] => /\ outside + 1 \in 0..MaxLoad[kind]
                                      /\ failures + 1 \in 0..MaxLoad[kind]
<1>1. IsFiniteSet({q \in Payment : checkout[q] # "NONE"})
    BY FS_Subset DEF GiftCardAssumption
<1>2. Cardinality({q \in Payment : checkout[q] # "NONE"}) \in Nat
    BY <1>1, FS_CardinalityType
<1> QED BY <1>2, Bounded DEF Load

LEMMA BeginFulfilStep ==
    ASSUME GiftCardAssumption, IInv, NEW h \in Process, NEW p \in Payment, BeginFulfil(h, p)
    PROVE  IInv'
<1>1. stripe[p] \in StripePayment /\ stripe[p].paid
    BY DEF BeginFulfil, IInv, TypeOK
<1>2. Fulfilling(p) \in Execution /\ Fulfilling(p).of = p
    BY <1>1 DEF Fulfilling, Execution, Fulfilment, StripePayment
<1>3. checkout[p] # "NONE"
    BY <1>1 DEF IInv, PaymentsPrepared
<1> QED BY <1>2, <1>3, ControlStep DEF BeginFulfil, IInv, TypeOK

LEMMA BeginReconcileStep ==
    ASSUME GiftCardAssumption, IInv, NEW h \in Process, NEW p \in Payment, BeginReconcile(h, p)
    PROVE  IInv'
<1>1. stripe[p] \in StripePayment
    BY DEF IInv, TypeOK
<1>2. Suspect(p) \in BOOLEAN
    BY <1>1 DEF Suspect, PendingRefund, StripePayment
<1>3. PICK r \in BOOLEAN : r = Suspect(p)
    BY <1>2
<1>4. Reconciling(p, r) \in Execution /\ Reconciling(p, r).pc # "fulfil"
    BY ExecutionTypes
<1>5. proc' = [proc EXCEPT ![h] = Reconciling(p, r)] /\ event' \in SUBSET Payment
    BY <1>3 DEF BeginReconcile, IInv, TypeOK
<1> QED BY <1>4, <1>5, ControlStep DEF BeginReconcile, IInv, TypeOK

LEMMA ValidateStep ==
    ASSUME GiftCardAssumption, IInv, NEW h \in Process, NEW b \in Bill, validateCode(h, b)
    PROVE  IInv'
BY ExecutionTypes, ControlStep DEF validateCode, IInv, TypeOK

LEMMA ReadFailedStep ==
    ASSUME GiftCardAssumption, IInv, NEW h \in Process, ReadPaymentFailed(h)
    PROVE  IInv'
BY ExecutionTypes, ControlStep DEF ReadPaymentFailed, IInv, TypeOK

LEMMA TakeUpStep ==
    ASSUME GiftCardAssumption, IInv,
           Scan \/ \E h \in Process : AfterCancel(h)
    PROVE  IInv'
<1>1. PICK h \in Process, todo \in SUBSET Unfinished :
          proc' = [proc EXCEPT ![h] = Requests(todo, {})]
    BY DEF Scan, AfterCancel, Process
<1>2. Requests(todo, {}) \in Execution /\ Requests(todo, {}).pc # "fulfil"
    BY RequestsType DEF Unfinished
<1> QED BY <1>1, <1>2, ControlStep DEF Scan, AfterCancel, IInv, TypeOK

LEMMA FailStep ==
    ASSUME GiftCardAssumption, IInv, NEW h \in Process, Fail(h)
    PROVE  IInv'
<1>1. proc[h] \in Execution /\ proc[h].pc \in {"requests", "store"}
    BY DEF Fail, IInv, TypeOK
<1>2. proc[h].events \in SUBSET Payment
    BY <1>1, ExecutionIs DEF Requesting, Store
<1>3. failures' \in 0..MaxLoad[kind]
    BY LoadFacts DEF Fail, IInv
<1>4. /\ UNCHANGED <<kind, undone, db, stripe, refund>> /\ proc' = [proc EXCEPT ![h] = Idle]
      /\ event' \in SUBSET Payment /\ late' \in BOOLEAN /\ outside' \in 0..MaxLoad[kind]
    BY <1>2 DEF Fail, IInv, TypeOK
<1>5. Idle \in Execution /\ Idle.pc # "fulfil"
    BY ExecutionTypes
<1> QED BY <1>3, <1>4, <1>5, ControlStep

LEMMA DeadlineStep ==
    ASSUME GiftCardAssumption, IInv, DeadlinePasses
    PROVE  IInv'
BY ControlStep DEF DeadlinePasses, IInv, TypeOK

(***************************************************************************)
(* Stripe                                                                  *)
(***************************************************************************)
LEMMA CentsSum == ASSUME NEW f, NEW S PROVE Cents(f, S) = Sum(f, S)
BY DEF Cents, Sum

LEMMA GivenBackFacts ==
    ASSUME TypeOK, NEW p \in Payment
    PROVE  /\ PendingCents(Cancelling(p)) \in Nat /\ PendingCents(Rejecting(p)) \in Nat
           /\ stripe[p] \in StripePayment
           /\ stripe[p].refunded \in Nat /\ stripe[p].outside \in Nat /\ GivenBack(p) \in Nat
<1>1. PendingCents(Cancelling(p)) \in Nat /\ PendingCents(Rejecting(p)) \in Nat
    BY KeyFacts, RequestFacts DEF TypeOK, PendingCents
<1>2. stripe[p] \in StripePayment /\ stripe[p].refunded \in Nat /\ stripe[p].outside \in Nat
    BY DEF TypeOK, StripePayment
<1> QED BY <1>1, <1>2 DEF GivenBack

\* Refundable is what of the price has not been given back.
LEMMA RefundableIs ==
    ASSUME GiftCardAssumption, TypeOK, NEW p \in Payment
    PROVE  Refundable(p) = Price[p] - GivenBack(p)
<1> DEFINE f == [k \in Key |-> request[k].cents]
           g == [k \in Key |-> PendingCents(k)]
           Both == {Cancelling(p), Rejecting(p)}
<1>1. /\ Cancelling(p) \in Key /\ Rejecting(p) \in Key /\ Cancelling(p) # Rejecting(p)
      /\ Pending(p) \subseteq Both
      /\ \A k \in Both : k \notin Pending(p) => refund[k] # "pending"
      /\ \A k \in Pending(p) : refund[k] = "pending"
    BY KeyFacts DEF Pending
<1>2. \A k \in Key : f[k] = request[k].cents /\ f[k] \in Int
                     /\ g[k] = PendingCents(k) /\ g[k] \in Int
    BY RequestFacts DEF TypeOK, PendingCents
<1> HIDE DEF f, g
<1>3. /\ IsFiniteSet(Both) /\ IsFiniteSet(Pending(p))
      /\ Sum(g, Both) = g[Cancelling(p)] + g[Rejecting(p)]
    <2>1. g[Cancelling(p)] \in Int /\ g[Rejecting(p)] \in Int
        BY <1>1, <1>2
    <2>2. IsFiniteSet(Both) /\ Sum(g, Both) = g[Cancelling(p)] + g[Rejecting(p)]
        BY <1>1, <2>1, SumOfTwo
    <2> QED BY <1>1, <2>2, FS_Subset
<1>4. Sum(f, Pending(p)) = Sum(g, Pending(p))
    <2>1. \A k \in Pending(p) : f[k] \in Int /\ f[k] = g[k]
        BY <1>1, <1>2 DEF PendingCents
    <2> QED BY <1>3, <2>1, SumAgrees
<1>5. Sum(g, Both) = Sum(g, Pending(p))
    <2>1. \A k \in Both : g[k] \in Int /\ (k \notin Pending(p) => g[k] = 0)
        BY <1>1, <1>2 DEF PendingCents
    <2> QED BY <1>1, <1>3, <2>1, SumRestricts
<1>6. Cents(f, Pending(p)) = PendingCents(Cancelling(p)) + PendingCents(Rejecting(p))
    BY <1>1, <1>2, <1>3, <1>4, <1>5, CentsSum
<1>7. Refundable(p) = Price[p] - stripe[p].refunded - stripe[p].outside - Cents(f, Pending(p))
    BY DEF Refundable, f
<1>8. Price[p] \in Nat
    BY DEF GiftCardAssumption
<1> QED BY <1>6, <1>7, <1>8, GivenBackFacts DEF GivenBack

\* What Stripe knows of one payment changes: it is not refunded beyond its
\* price, and the refunds it made are of requests.
LEMMA StripeRow ==
    ASSUME GiftCardAssumption, IInv, UNCHANGED <<kind, db>>, NEW p \in Payment,
           NEW row \in StripePayment, stripe' = [stripe EXCEPT ![p] = row],
           refund' \in [Key -> {"none", "pending"} \union Finished],
           \A k \in Key : k.of # p => refund'[k] = refund[k],
           \A k \in Key : refund'[k] # "none" => request[k] # NoRequest,
           GivenBack(p)' <= Price[p], row.refunded >= stripe[p].refunded,
           row.paid => checkout[p] # "NONE"
    PROVE  /\ stripe' \in [Payment -> StripePayment]
           /\ StripeSound' /\ RefundsAsked'
           /\ \A q \in Payment : stripe'[q].paid \/ entry'[q].credited => checkout'[q] # "NONE"
<1>1. UNCHANGED <<card, checkout, entry, request, redeemed>>
    BY DEF db
<1>2. \A q \in Payment : stripe'[q] = IF q = p THEN row ELSE stripe[q]
    BY DEF IInv, TypeOK
<1>3. \A q \in Payment : q # p => GivenBack(q)' = GivenBack(q)
    BY <1>1, <1>2, KeyFacts DEF GivenBack, PendingCents
<1>4. \A q \in Payment : entry'[q].refunded <= stripe'[q].refunded
    <2>1. ASSUME NEW q \in Payment PROVE entry[q].refunded <= stripe'[q].refunded
        <3>1. entry[q].refunded <= stripe[q].refunded
            BY DEF IInv, StripeSound
        <3>2. /\ entry[q].refunded \in Nat /\ stripe[q].refunded \in Nat /\ row.refunded \in Nat
              /\ stripe'[q].refunded \in Nat
            BY <1>2 DEF IInv, TypeOK, Entry, StripePayment
        <3> QED BY <1>2, <3>1, <3>2
    <2> QED BY <1>1, <2>1
<1>5. StripeSound'
    BY <1>3, <1>4 DEF IInv, StripeSound
<1>6. RefundsAsked'
    BY <1>1 DEF RefundsAsked
<1>7. \A q \in Payment : stripe'[q].paid \/ entry'[q].credited => checkout'[q] # "NONE"
    BY <1>1, <1>2 DEF IInv, PaymentsPrepared
<1>8. stripe' \in [Payment -> StripePayment]
    BY DEF IInv, TypeOK
<1> QED BY <1>5, <1>6, <1>7, <1>8

\* The rest of the state goes on as it was.
LEMMA AroundStripe ==
    ASSUME GiftCardAssumption, IInv, UNCHANGED <<kind, db>>,
           event' \in SUBSET Payment, UNCHANGED <<late, undone, failures>>, outside' \in 0..MaxLoad[kind],
           stripe' \in [Payment -> StripePayment], StripeSound', RefundsAsked',
           refund' \in [Key -> {"none", "pending"} \union Finished],
           \A q \in Payment : stripe'[q].paid \/ entry'[q].credited => checkout'[q] # "NONE",
           proc' \in [Process -> Execution],
           \A g \in Process : proc'[g].pc = "fulfil" => checkout'[proc'[g].of] # "NONE"
    PROVE  IInv'
<1>1. UNCHANGED <<kind, card, checkout, entry, request, redeemed>>
    BY DEF db
<1>2. TypeOK'
    BY <1>1 DEF IInv, TypeOK
<1>3. PaymentsPrepared' /\ RejectedPrepared'
    BY <1>1 DEF IInv, PaymentsPrepared, RejectedPrepared
<1>4. CardInv'
    BY <1>1 DEF IInv, CardInv, OnePurchase, UncreditedClean, Unspent, Balance, LedgerBalances,
                MoneyOut, CancellationSound, Credited, Open, Spent, Collected, KnownRefunds, Unfinished
<1> QED BY <1>2, <1>3, <1>4 DEF IInv

LEMMA StripeStep ==
    ASSUME GiftCardAssumption, IInv, NEW p \in Payment, AtStripe(p)
    PROVE  IInv'
<1> DEFINE row == stripe[p]
<1>1. /\ row \in StripePayment /\ row.refunded \in Nat /\ row.outside \in Nat
      /\ PendingCents(Cancelling(p)) \in Nat /\ PendingCents(Rejecting(p)) \in Nat
      /\ GivenBack(p) <= Price[p] /\ GivenBack(p) \in Nat /\ Price[p] \in Nat
    BY GivenBackFacts DEF IInv, StripeSound, GiftCardAssumption
<1>2. Refundable(p) = Price[p] - GivenBack(p)
    BY RefundableIs DEF IInv
<1>3. Load \in Int /\ (Load < MaxLoad[kind] => outside + 1 \in 0..MaxLoad[kind])
    BY LoadFacts DEF IInv
<1>4. row.paid => checkout[p] # "NONE"
    BY DEF IInv, PaymentsPrepared
<1>5. UNCHANGED <<kind, db, proc>> /\ UNCHANGED <<late, undone, failures>> /\ UNCHANGED <<checkout, request>>
    BY DEF AtStripe, Pay, OutsideRefund, OutsideSettles, Dispute, RefundSettles, db
<1>6. outside' \in 0..MaxLoad[kind] /\ event' \in SUBSET Payment
    BY <1>3 DEF AtStripe, Pay, OutsideRefund, OutsideSettles, Dispute, RefundSettles, IInv, TypeOK
<1>7. /\ proc' \in [Process -> Execution]
      /\ \A g \in Process : proc'[g].pc = "fulfil" => checkout'[proc'[g].of] # "NONE"
    BY <1>5 DEF IInv, TypeOK, PaymentsPrepared
<1>8. ASSUME NEW new \in StripePayment, stripe' = [stripe EXCEPT ![p] = new],
             new.refunded >= row.refunded, new.paid => checkout[p] # "NONE",
             refund' \in [Key -> {"none", "pending"} \union Finished],
             \A k \in Key : k.of # p => refund'[k] = refund[k],
             \A k \in Key : refund'[k] # "none" => refund[k] # "none",
             new.refunded + new.outside + PendingCents(Cancelling(p))' + PendingCents(Rejecting(p))'
                 <= Price[p]
      PROVE  IInv'
    <2>1. \A k \in Key : refund'[k] # "none" => request[k] # NoRequest
        BY <1>8 DEF IInv, RefundsAsked
    <2>2. stripe'[p] = new
        BY <1>8 DEF IInv, TypeOK
    <2>3. GivenBack(p)' <= Price[p]
        BY <1>8, <2>2 DEF GivenBack
    <2>4. /\ stripe' \in [Payment -> StripePayment]
          /\ StripeSound' /\ RefundsAsked'
          /\ \A q \in Payment : stripe'[q].paid \/ entry'[q].credited => checkout'[q] # "NONE"
        BY <1>5, <1>8, <2>1, <2>3, StripeRow
    <2> QED BY <1>5, <1>6, <1>7, <1>8, <2>4, AroundStripe
<1>9. UNCHANGED refund => PendingCents(Cancelling(p))' = PendingCents(Cancelling(p))
                          /\ PendingCents(Rejecting(p))' = PendingCents(Rejecting(p))
    BY <1>5 DEF PendingCents
<1>10. UNCHANGED refund => /\ refund' \in [Key -> {"none", "pending"} \union Finished]
                           /\ \A k \in Key : refund'[k] = refund[k]
    BY DEF IInv, TypeOK
<1> HIDE DEF row
<1>11. CASE Pay(p)
    <2> DEFINE new == [row EXCEPT !.paid = TRUE]
    <2>1. new \in StripePayment /\ new.refunded = row.refunded /\ new.outside = row.outside
        BY <1>1 DEF StripePayment
    <2>2. stripe' = [stripe EXCEPT ![p] = new] /\ checkout[p] # "NONE" /\ UNCHANGED refund
        BY <1>11 DEF Pay, row, IInv, PaymentsPrepared
    <2> HIDE DEF new
    <2>3. new.refunded + new.outside + PendingCents(Cancelling(p))' + PendingCents(Rejecting(p))'
              <= Price[p] /\ new.refunded >= row.refunded
        BY <1>1, <1>9, <2>1, <2>2 DEF GivenBack, row
    <2> QED BY <1>8, <1>10, <2>1, <2>2, <2>3
<1>12. CASE OutsideRefund(p)
    <2>1. PICK n \in 1..Refundable(p) : stripe' = [stripe EXCEPT ![p].outside = n]
        BY <1>12 DEF OutsideRefund, row
    <2> DEFINE new == [row EXCEPT !.outside = n]
    <2>2. n \in Nat /\ n <= Price[p] - GivenBack(p) /\ row.outside = 0 /\ row.paid /\ UNCHANGED refund
        BY <1>1, <1>2, <1>12, <2>1 DEF OutsideRefund, row
    <2>3. /\ new \in StripePayment /\ new.refunded = row.refunded /\ new.outside = n
          /\ new.paid = row.paid
        BY <1>1, <2>2 DEF StripePayment
    <2>4. stripe' = [stripe EXCEPT ![p] = new]
        BY <2>1 DEF row
    <2> HIDE DEF new
    <2>5. new.refunded + new.outside + PendingCents(Cancelling(p))' + PendingCents(Rejecting(p))'
              <= Price[p] /\ new.refunded >= row.refunded
        BY <1>1, <1>9, <2>2, <2>3 DEF GivenBack, row
    <2> QED BY <1>4, <1>8, <1>10, <2>2, <2>3, <2>4, <2>5
<1>13. CASE OutsideSettles(p)
    <2>1. PICK n \in {0, row.outside} : stripe' = [stripe EXCEPT ![p] =
              [stripe[p] EXCEPT !.outside = 0, !.refunded = stripe[p].refunded + n]]
        BY <1>13 DEF OutsideSettles, row
    <2> DEFINE new == [row EXCEPT !.outside = 0, !.refunded = row.refunded + n]
    <2>2. n \in Nat /\ n <= row.outside /\ UNCHANGED refund
        BY <1>1, <1>13, <2>1 DEF OutsideSettles, row
    <2>3. /\ new \in StripePayment /\ new.refunded = row.refunded + n /\ new.outside = 0
          /\ new.paid = row.paid
        <3>1. row.refunded + n \in Nat
            BY <1>1, <2>2
        <3> QED BY <1>1, <3>1 DEF StripePayment
    <2>4. stripe' = [stripe EXCEPT ![p] = new]
        BY <2>1 DEF row
    <2> HIDE DEF new
    <2>5. new.refunded + new.outside + PendingCents(Cancelling(p))' + PendingCents(Rejecting(p))'
              <= Price[p] /\ new.refunded >= row.refunded
        BY <1>1, <1>9, <2>2, <2>3 DEF GivenBack, row
    <2> QED BY <1>4, <1>8, <1>10, <2>2, <2>3, <2>4, <2>5
<1>14. CASE Dispute(p)
    <2> DEFINE new == [row EXCEPT !.disputed = ~row.disputed]
    <2>1. /\ new \in StripePayment /\ new.refunded = row.refunded /\ new.outside = row.outside
          /\ new.paid = row.paid
        BY <1>1 DEF StripePayment
    <2>2. stripe' = [stripe EXCEPT ![p] = new] /\ UNCHANGED refund
        BY <1>14 DEF Dispute, row
    <2> HIDE DEF new
    <2>3. new.refunded + new.outside + PendingCents(Cancelling(p))' + PendingCents(Rejecting(p))'
              <= Price[p] /\ new.refunded >= row.refunded
        BY <1>1, <1>9, <2>1, <2>2 DEF GivenBack, row
    <2> QED BY <1>4, <1>8, <1>10, <2>1, <2>2, <2>3
<1>15. CASE RefundSettles(p)
    <2>1. PICK k \in Pending(p), outcome \in Finished :
              /\ refund' = [refund EXCEPT ![k] = outcome]
              /\ stripe' = IF outcome = "succeeded"
                           THEN [stripe EXCEPT ![p].refunded = @ + request[k].cents] ELSE stripe
        BY <1>15 DEF RefundSettles
    <2>2. k \in Key /\ k.of = p /\ refund[k] = "pending" /\ request[k].cents \in Nat
        BY RequestFacts DEF Pending, IInv, TypeOK
    <2>3. refund' \in [Key -> {"none", "pending"} \union Finished]
        BY <2>1 DEF IInv, TypeOK
    <2>4. /\ \A j \in Key : refund'[j] = IF j = k THEN outcome ELSE refund[j]
          /\ outcome # "pending"
        BY <2>1 DEF IInv, TypeOK, Finished
    <2>5. \E m \in {0, request[k].cents} :
              /\ stripe' = [stripe EXCEPT ![p] = [row EXCEPT !.refunded = row.refunded + m]]
        <3>1. CASE outcome = "succeeded"
            <4>1. stripe' = [stripe EXCEPT ![p] =
                      [row EXCEPT !.refunded = row.refunded + request[k].cents]]
                BY <2>1, <3>1 DEF row
            <4> QED BY <4>1
        <3>2. CASE outcome # "succeeded"
            <4>1. [row EXCEPT !.refunded = row.refunded + 0] = row
                BY <1>1 DEF StripePayment
            <4>2. stripe' = [stripe EXCEPT ![p] = [row EXCEPT !.refunded = row.refunded + 0]]
                BY <2>1, <3>2, <4>1 DEF IInv, TypeOK, row
            <4> QED BY <4>2
        <3> QED BY <3>1, <3>2
    <2>6. PICK m \in {0, request[k].cents} :
              stripe' = [stripe EXCEPT ![p] = [row EXCEPT !.refunded = row.refunded + m]]
        BY <2>5
    <2> DEFINE new == [row EXCEPT !.refunded = row.refunded + m]
    <2>7. m \in Nat /\ m <= request[k].cents
        BY <2>2
    <2>8. /\ new \in StripePayment /\ new.refunded = row.refunded + m /\ new.outside = row.outside
          /\ new.paid = row.paid
        BY <1>1, <2>7 DEF StripePayment
    <2>9. stripe' = [stripe EXCEPT ![p] = new]
        BY <2>6
    <2>10. PendingCents(Cancelling(p))' + PendingCents(Rejecting(p))' + request[k].cents
               = PendingCents(Cancelling(p)) + PendingCents(Rejecting(p))
        <3>1. /\ Cancelling(p) \in Key /\ Rejecting(p) \in Key /\ Cancelling(p) # Rejecting(p)
              /\ (k = Cancelling(p) \/ k = Rejecting(p))
            BY <2>2, KeyFacts
        <3>2. PendingCents(k)' = 0 /\ PendingCents(k) = request[k].cents
            BY <2>2, <2>4 DEF PendingCents
        <3>3. \A j \in Key : j # k => PendingCents(j)' = PendingCents(j)
            BY <1>5, <2>4 DEF PendingCents
        <3>4. CASE k = Cancelling(p)
            <4>1. PendingCents(Cancelling(p))' = 0
                BY <2>2, <2>4, <3>1, <3>4 DEF PendingCents
            <4> QED BY <1>1, <2>2, <3>1, <3>2, <3>3, <3>4, <4>1
        <3>5. CASE k = Rejecting(p)
            <4>1. PendingCents(Rejecting(p))' = 0
                BY <2>2, <2>4, <3>1, <3>5 DEF PendingCents
            <4> QED BY <1>1, <2>2, <3>1, <3>2, <3>3, <3>5, <4>1
        <3> QED BY <3>1, <3>4, <3>5
    <2>11. PendingCents(Cancelling(p))' \in Nat /\ PendingCents(Rejecting(p))' \in Nat
        <3>1. \A j \in Key : request[j].cents \in Nat
            BY RequestFacts DEF IInv, TypeOK
        <3> QED BY <1>5, <3>1, KeyFacts DEF PendingCents
    <2> HIDE DEF new
    <2>12. new.refunded + new.outside + PendingCents(Cancelling(p))' + PendingCents(Rejecting(p))'
               <= Price[p] /\ new.refunded >= row.refunded
        BY <1>1, <2>2, <2>7, <2>8, <2>10, <2>11 DEF GivenBack, row
    <2>13. \A j \in Key : /\ j.of # p => refund'[j] = refund[j]
                          /\ refund'[j] # "none" => refund[j] # "none"
        BY <2>2, <2>4
    <2> QED BY <1>4, <1>8, <2>3, <2>8, <2>9, <2>12, <2>13
<1> QED BY <1>11, <1>12, <1>13, <1>14, <1>15 DEF AtStripe

\* A refund that Stripe is first asked for: it fits in what is refundable.
LEMMA NewRefundStep ==
    ASSUME GiftCardAssumption, IInv, NEW k \in Key, k \in Unfinished,
           refund[k] = "none", request[k].cents <= Refundable(k.of),
           NEW reply \in {"pending"} \union Finished,
           refund' = [refund EXCEPT ![k] = reply],
           stripe' = IF reply = "succeeded"
                     THEN [stripe EXCEPT ![k.of].refunded = @ + request[k].cents] ELSE stripe,
           event' = event \union {k.of}, UNCHANGED <<kind, db, late, undone, outside, failures>>,
           proc' \in [Process -> Execution],
           \A g \in Process : proc'[g].pc = "fulfil" => checkout'[proc'[g].of] # "NONE"
    PROVE  IInv'
<1>1. PICK p \in Payment : p = k.of
    BY KeyFacts
<1>2. PICK row \in StripePayment : row = stripe[p]
    BY DEF IInv, TypeOK
<1>3. PICK c \in Nat : c = request[k].cents
    BY RequestFacts DEF IInv, TypeOK
<1>4. row.refunded \in Nat /\ row.outside \in Nat /\ Price[p] \in Nat
    BY DEF StripePayment, GiftCardAssumption
<1>5. request[k] # NoRequest
    BY RequestFacts DEF Unfinished
<1>6. refund' \in [Key -> {"none", "pending"} \union Finished]
    BY DEF IInv, TypeOK
<1>7. \A j \in Key : refund'[j] = IF j = k THEN reply ELSE refund[j]
    BY DEF IInv, TypeOK
<1>8. UNCHANGED <<request, checkout>>
    BY DEF db
<1>9. PICK m \in Nat : /\ m = IF reply = "succeeded" THEN c ELSE 0
                       /\ stripe' = [stripe EXCEPT ![p] = [row EXCEPT !.refunded = row.refunded + m]]
    <2>1. CASE reply = "succeeded"
        BY <1>1, <1>2, <1>3, <2>1
    <2>2. CASE reply # "succeeded"
        <3>1. row.refunded + 0 = row.refunded
            BY <1>4
        <3>2. [row EXCEPT !.refunded = row.refunded + 0] = row
            BY <3>1 DEF StripePayment
        <3>3. stripe' = [stripe EXCEPT ![p] = [row EXCEPT !.refunded = row.refunded + 0]]
            BY <1>2, <2>2, <3>2 DEF IInv, TypeOK
        <3> QED BY <2>2, <3>3
    <2> QED BY <2>1, <2>2
<1> DEFINE new == [row EXCEPT !.refunded = row.refunded + m]
<1>10. /\ new \in StripePayment /\ new.refunded = row.refunded + m /\ new.outside = row.outside
       /\ new.paid = row.paid
    <2>1. row.refunded + m \in Nat
        BY <1>4
    <2> QED BY <2>1 DEF StripePayment
<1>11. stripe' = [stripe EXCEPT ![p] = new]
    BY <1>9
<1> HIDE DEF new
<1>12. /\ Cancelling(p) \in Key /\ Rejecting(p) \in Key /\ Cancelling(p) # Rejecting(p)
       /\ (k = Cancelling(p) \/ k = Rejecting(p))
    BY <1>1, KeyFacts
<1>13. /\ PendingCents(Cancelling(p)) \in Nat /\ PendingCents(Rejecting(p)) \in Nat
       /\ GivenBack(p) = row.refunded + row.outside + PendingCents(Cancelling(p))
                                                    + PendingCents(Rejecting(p))
       /\ c <= Price[p] - GivenBack(p)
    BY <1>1, <1>2, <1>3, GivenBackFacts, RefundableIs DEF IInv, GivenBack
<1>14. /\ PendingCents(k) = 0
       /\ PendingCents(k)' = IF reply = "pending" THEN c ELSE 0
       /\ \A j \in Key : j # k => PendingCents(j)' = PendingCents(j)
    <2>1. refund'[k] = reply /\ request'[k].cents = c
        BY <1>3, <1>7, <1>8
    <2>2. \A j \in Key : j # k => PendingCents(j)' = PendingCents(j)
        BY <1>7, <1>8 DEF PendingCents
    <2> QED BY <2>1, <2>2 DEF PendingCents
<1>15. PICK x \in Nat : x = IF reply = "pending" THEN c ELSE 0
    OBVIOUS
<1>16. PendingCents(Cancelling(p))' + PendingCents(Rejecting(p))'
           = PendingCents(Cancelling(p)) + PendingCents(Rejecting(p)) + x
    <2>1. CASE k = Cancelling(p)
        <3>1. PendingCents(Cancelling(p))' = x /\ PendingCents(Cancelling(p)) = 0
            BY <1>14, <1>15, <2>1 DEF PendingCents
        <3>2. PendingCents(Rejecting(p))' = PendingCents(Rejecting(p))
            BY <1>12, <1>14, <2>1
        <3> QED BY <1>13, <3>1, <3>2
    <2>2. CASE k = Rejecting(p)
        <3>1. PendingCents(Rejecting(p))' = x /\ PendingCents(Rejecting(p)) = 0
            BY <1>14, <1>15, <2>2 DEF PendingCents
        <3>2. PendingCents(Cancelling(p))' = PendingCents(Cancelling(p))
            BY <1>12, <1>14, <2>2
        <3> QED BY <1>13, <3>1, <3>2
    <2> QED BY <1>12, <2>1, <2>2
<1>17. PendingCents(Cancelling(p))' \in Nat /\ PendingCents(Rejecting(p))' \in Nat
    <2>1. \A j \in Key : request[j].cents \in Nat
        BY RequestFacts DEF IInv, TypeOK
    <2> QED BY <1>8, <1>12, <2>1 DEF PendingCents
<1>18. x + m <= c
    BY <1>9, <1>15
<1>19. stripe'[p] = new
    BY <1>11 DEF IInv, TypeOK
<1>20. GivenBack(p)' <= Price[p]
    <2>1. GivenBack(p)' = new.refunded + new.outside + PendingCents(Cancelling(p))'
                                                     + PendingCents(Rejecting(p))'
        BY <1>19 DEF GivenBack
    <2> QED BY <1>4, <1>10, <1>13, <1>16, <1>17, <1>18, <2>1
<1>21. /\ \A j \in Key : j.of # p => refund'[j] = refund[j]
       /\ \A j \in Key : refund'[j] # "none" => request[j] # NoRequest
    BY <1>1, <1>5, <1>7 DEF IInv, RefundsAsked
<1>22. new.refunded >= stripe[p].refunded /\ (new.paid => checkout[p] # "NONE")
    BY <1>2, <1>4, <1>10 DEF IInv, PaymentsPrepared
<1>23. UNCHANGED <<kind, db>>
    OBVIOUS
<1>24. /\ stripe' \in [Payment -> StripePayment]
       /\ StripeSound' /\ RefundsAsked'
       /\ \A q \in Payment : stripe'[q].paid \/ entry'[q].credited => checkout'[q] # "NONE"
    BY ONLY GiftCardAssumption, IInv, p \in Payment,
            <1>6, <1>10, <1>11, <1>20, <1>21, <1>22, <1>23, StripeRow
<1>25. event' \in SUBSET Payment /\ outside' \in 0..MaxLoad[kind] /\ UNCHANGED <<late, undone, failures>>
    BY <1>1 DEF IInv, TypeOK
<1> QED BY <1>6, <1>23, <1>24, <1>25, AroundStripe

LEMMA CallStripeStep ==
    ASSUME GiftCardAssumption, IInv, NEW h \in Process, CallStripe(h)
    PROVE  IInv'
<1>1. proc[h] \in Requesting
    BY ExecutionIs DEF CallStripe, IInv, TypeOK
<1>2. proc[h].events \in SUBSET Payment /\ event \in SUBSET Payment
    BY <1>1 DEF Requesting, IInv, TypeOK
<1>3. UNCHANGED <<kind, db, late, undone, outside, failures>> /\ UNCHANGED checkout
    BY DEF CallStripe, db
<1>4. outside' \in 0..MaxLoad[kind] /\ failures' \in 0..MaxLoad[kind] /\ late' \in BOOLEAN
    BY <1>3 DEF IInv, TypeOK
<1>5. CASE UNCHANGED <<stripe, refund, event>> /\ proc' = [proc EXCEPT ![h] = Idle]
    BY <1>2, <1>3, <1>4, <1>5, ExecutionTypes, ControlStep
<1>6. ASSUME NEW k \in proc[h].todo \intersect Unfinished, Ask(h, k)
      PROVE  IInv'
    <2>1. PICK rest \in SUBSET Key : rest = (proc[h].todo \intersect Unfinished) \ {k}
        BY DEF Unfinished
    <2>2. k \in Key /\ k \in Unfinished
        BY DEF Unfinished
    <2>3. ASSUME NEW reply \in {"pending"} \union Finished,
                 IF request[k].status = "REQUESTED" THEN createRefund(k, reply)
                 ELSE reply = refund[k] /\ UNCHANGED <<stripe, refund, event>>,
                 proc' = [proc EXCEPT ![h] = Storing(k, reply, rest, proc[h].events)]
          PROVE  IInv'
        <3>1. /\ Storing(k, reply, rest, proc[h].events) \in Execution
              /\ Storing(k, reply, rest, proc[h].events).pc # "fulfil"
            BY <1>2, <2>2, ExecutionTypes
        <3>2. CASE UNCHANGED <<stripe, refund, event>>
            BY <1>2, <1>3, <1>4, <2>3, <3>1, <3>2, ControlStep
        <3>3. CASE /\ refund[k] = "none" /\ request[k].cents <= Refundable(k.of)
                   /\ refund' = [refund EXCEPT ![k] = reply]
                   /\ stripe' = IF reply = "succeeded"
                                THEN [stripe EXCEPT ![k.of].refunded = @ + request[k].cents]
                                ELSE stripe
                   /\ event' = event \union {k.of}
            <4>1. \A p \in Payment : checkout[p] # "NONE" => checkout'[p] # "NONE"
                BY <1>3
            <4>2. /\ proc' \in [Process -> Execution]
                  /\ \A g \in Process : proc'[g].pc = "fulfil" => checkout'[proc'[g].of] # "NONE"
                BY <2>3, <3>1, <4>1, ProcStep DEF IInv
            <4> QED BY <1>3, <2>2, <3>3, <4>2, NewRefundStep
        <3> QED BY <2>3, <3>2, <3>3 DEF createRefund
    <2>4. CASE /\ proc' = [proc EXCEPT ![h] = IF h = Finance THEN Requests(rest, proc[h].events)
                                              ELSE Idle]
               /\ event' = event \union proc[h].events
               /\ UNCHANGED <<stripe, refund>>
        <3>1. /\ Requests(rest, proc[h].events) \in Execution
              /\ Requests(rest, proc[h].events).pc # "fulfil"
            BY <1>2, RequestsType
        <3>2. PICK e \in Execution : e.pc # "fulfil" /\ proc' = [proc EXCEPT ![h] = e]
            <4>1. CASE h = Finance
                BY <2>4, <3>1, <4>1
            <4>2. CASE h # Finance
                BY <2>4, <4>2, ExecutionTypes
            <4> QED BY <4>1, <4>2
        <3>3. event' \in SUBSET Payment
            BY <1>2, <2>4
        <3> QED BY <1>3, <1>4, <2>4, <3>2, <3>3, ControlStep
    <2>5. CASE \E reply \in {"pending"} \union Finished :
                   /\ IF request[k].status = "REQUESTED" THEN createRefund(k, reply)
                      ELSE reply = refund[k] /\ UNCHANGED <<stripe, refund, event>>
                   /\ proc' = [proc EXCEPT ![h] =
                                 Storing(k, reply, (proc[h].todo \intersect Unfinished) \ {k},
                                         proc[h].events)]
        <3>1. PICK reply \in {"pending"} \union Finished :
                   /\ IF request[k].status = "REQUESTED" THEN createRefund(k, reply)
                      ELSE reply = refund[k] /\ UNCHANGED <<stripe, refund, event>>
                   /\ proc' = [proc EXCEPT ![h] = Storing(k, reply, rest, proc[h].events)]
            BY <2>1, <2>5
        <3> QED BY <2>3, <3>1
    <2> QED BY <1>6, <2>1, <2>4, <2>5 DEF Ask
<1> QED BY <1>5, <1>6 DEF CallStripe

(***************************************************************************)
(* Sums of money                                                           *)
(***************************************************************************)
Returned == Cents([p \in Payment |-> request[Cancelling(p)].cents], Payment)

LEMMA MoneyOutIs == MoneyOut = (Spent + Returned <= Collected)
BY DEF MoneyOut, Returned

LEMMA MoneyType ==
    ASSUME GiftCardAssumption, TypeOK
    PROVE  /\ Spent \in Nat /\ Collected \in Nat /\ KnownRefunds \in Nat /\ Returned \in Nat
           /\ IsFiniteSet(Credited) /\ Credited \in SUBSET Payment
           /\ \A p \in Payment : entry[p].refunded \in Nat /\ Price[p] \in Nat /\ Price[p] > 0
           /\ card.remaining \in Nat /\ card.amount \in Nat
<1> DEFINE f == [p \in Payment |-> entry[p].refunded]
           g == [p \in Payment |-> request[Cancelling(p)].cents]
<1>1. IsFiniteSet(Credited) /\ Credited \in SUBSET Payment /\ IsFiniteSet(Payment) /\ IsFiniteSet(Bill)
    BY FS_Subset DEF Credited, GiftCardAssumption
<1>2. \A p \in Payment : entry[p].refunded \in Nat /\ Price[p] \in Nat /\ Price[p] > 0
    BY DEF TypeOK, Entry, GiftCardAssumption
<1>3. \A p \in Payment : f[p] \in Nat /\ g[p] \in Nat
    BY <1>2, KeyFacts, RequestFacts DEF TypeOK
<1>4. card.remaining \in Nat /\ card.amount \in Nat
    BY DEF TypeOK, Card
<1>5. KnownRefunds = Sum(f, Credited) /\ Returned = Sum(g, Payment)
    BY CentsSum DEF KnownRefunds, Returned
<1> HIDE DEF f, g
<1>6. KnownRefunds \in Nat /\ Returned \in Nat
    BY <1>1, <1>3, <1>5, SumIsNat
<1>7. Spent \in Nat
    <2>1. \A b \in Bill : redeemed[b] \in Nat
        BY DEF TypeOK
    <2>2. Sum(redeemed, Bill) \in Nat
        BY <1>1, <2>1, SumIsNat
    <2> QED BY <2>2, CentsSum DEF Spent
<1>8. Collected \in Nat
    <2>1. Sum(Price, Credited) \in Nat
        BY <1>1, <1>2, SumIsNat
    <2> QED BY <2>1, CentsSum DEF Collected
<1> QED BY <1>1, <1>2, <1>4, <1>6, <1>7, <1>8

\* A bill is paid in part.
LEMMA SpentStep ==
    ASSUME GiftCardAssumption, TypeOK, NEW b \in Bill, redeemed[b] = 0, NEW n \in Nat,
           redeemed' = [redeemed EXCEPT ![b] = n]
    PROVE  Spent' = Spent + n
<1>1. \A c \in Bill : /\ redeemed'[c] = IF c = b THEN n ELSE redeemed[c]
                      /\ redeemed[c] \in Int /\ redeemed'[c] \in Int
    BY DEF TypeOK
<1>2. PICK g : g = redeemed'
    OBVIOUS
<1>3. Sum(g, Bill) = Sum(redeemed, Bill) - redeemed[b] + g[b]
    <2>1. /\ IsFiniteSet(Bill) /\ b \in Bill
          /\ \A c \in Bill : redeemed[c] \in Int /\ g[c] \in Int
          /\ \A c \in Bill : c # b => g[c] = redeemed[c]
        BY <1>1, <1>2 DEF GiftCardAssumption
    <2> QED BY <2>1, SumChanges
<1>4. Spent' = Sum(g, Bill) /\ Spent = Sum(redeemed, Bill) /\ g[b] = n
    BY <1>1, <1>2, CentsSum DEF Spent
<1>5. Spent \in Nat
    BY MoneyType
<1> QED BY <1>3, <1>4, <1>5

\* A payment is credited.
LEMMA CreditStep ==
    ASSUME GiftCardAssumption, TypeOK, UncreditedClean, NEW p \in Payment, ~entry[p].credited,
           entry' = [entry EXCEPT ![p].credited = TRUE]
    PROVE  /\ Credited' = Credited \union {p} /\ p \notin Credited
           /\ entry' \in [Payment -> Entry]
           /\ \A q \in Payment : entry'[q].refunded = entry[q].refunded
           /\ \A q \in Payment : q # p => entry'[q].credited = entry[q].credited
           /\ entry'[p].credited
           /\ Collected' = Collected + Price[p]
           /\ KnownRefunds' = KnownRefunds
           /\ UncreditedClean'
<1> DEFINE f == [q \in Payment |-> entry[q].refunded]
           g == [q \in Payment |-> entry'[q].refunded]
<1>1. entry' \in [Payment -> Entry]
    BY DEF TypeOK, Entry
<1>2. \A q \in Payment : /\ entry'[q].refunded = entry[q].refunded
                         /\ q # p => entry'[q].credited = entry[q].credited
    BY DEF TypeOK, Entry
<1>3. entry'[p].credited
    BY DEF TypeOK, Entry
<1>4. Credited' = Credited \union {p} /\ p \notin Credited
    BY <1>2, <1>3 DEF Credited
<1>5. Credited \in SUBSET Payment /\ IsFiniteSet(Credited) /\ IsFiniteSet(Credited')
    BY <1>4, MoneyType, FS_AddElement
<1>6. Sum(Price, Credited \union {p}) = Sum(Price, Credited) + Price[p]
    <2>1. \A q \in Credited \union {p} : Price[q] \in Int
        BY <1>5 DEF GiftCardAssumption
    <2> QED BY <1>4, <1>5, <2>1, SumAdds
<1>7. \A q \in Payment : f[q] \in Int /\ g[q] = f[q] /\ f[q] = entry[q].refunded
    BY <1>2, MoneyType
<1>8. KnownRefunds = Sum(f, Credited) /\ KnownRefunds' = Sum(g, Credited')
    BY CentsSum DEF KnownRefunds
<1> HIDE DEF f, g
<1>9. Sum(g, Credited') = Sum(f, Credited')
    <2>1. Credited' \in SUBSET Payment
        BY <1>4, <1>5
    <2>2. \A q \in Credited' : g[q] \in Int /\ g[q] = f[q]
        BY <1>7, <2>1
    <2> QED BY <1>5, <2>2, SumAgrees
<1>10. Sum(f, Credited \union {p}) = Sum(f, Credited) + f[p]
    <2>1. \A q \in Credited \union {p} : f[q] \in Int
        BY <1>5, <1>7
    <2> QED BY <1>4, <1>5, <2>1, SumAdds
<1>11. f[p] = 0
    BY <1>7 DEF UncreditedClean
<1>12. Sum(f, Credited) \in Int
    BY <1>8, MoneyType
<1>13. KnownRefunds' = KnownRefunds
    BY <1>4, <1>8, <1>9, <1>10, <1>11, <1>12
<1>14. Collected' = Collected + Price[p]
    BY <1>4, <1>6, CentsSum DEF Collected
<1>15. UncreditedClean'
    BY <1>2, <1>3 DEF UncreditedClean
<1> QED BY <1>1, <1>2, <1>3, <1>4, <1>13, <1>14, <1>15

\* The ledger learns of more that was given back of a credited payment.
LEMMA RefundKnownStep ==
    ASSUME GiftCardAssumption, TypeOK, UncreditedClean, NEW p \in Credited, NEW d \in Nat,
           NEW pending \in BOOLEAN,
           entry' = [entry EXCEPT ![p] = [entry[p] EXCEPT !.refunded = entry[p].refunded + d,
                                                          !.pending = pending]]
    PROVE  /\ Credited' = Credited
           /\ entry' \in [Payment -> Entry]
           /\ \A q \in Payment : entry'[q].refunded =
                  IF q = p THEN entry[q].refunded + d ELSE entry[q].refunded
           /\ \A q \in Payment : entry'[q].credited = entry[q].credited
           /\ Collected' = Collected
           /\ KnownRefunds' = KnownRefunds + d
           /\ UncreditedClean'
<1> DEFINE f == [q \in Payment |-> entry[q].refunded]
           g == [q \in Payment |-> entry'[q].refunded]
<1>1. p \in Payment /\ entry[p] \in Entry /\ entry[p].refunded \in Nat
    BY MoneyType DEF TypeOK
<1>2. PICK sum \in Nat : sum = entry[p].refunded + d
    BY <1>1
<1> DEFINE new == [entry[p] EXCEPT !.refunded = sum, !.pending = pending]
<1>3. new \in Entry /\ new.refunded = sum /\ new.credited = entry[p].credited
    BY <1>1 DEF Entry
<1>4. entry' = [entry EXCEPT ![p] = new]
    BY <1>2
<1> HIDE DEF new
<1>5. entry' \in [Payment -> Entry] /\ \A q \in Payment : entry'[q] = IF q = p THEN new ELSE entry[q]
    BY <1>1, <1>3, <1>4 DEF TypeOK
<1>6. /\ \A q \in Payment : entry'[q].refunded =
             IF q = p THEN entry[q].refunded + d ELSE entry[q].refunded
      /\ \A q \in Payment : entry'[q].credited = entry[q].credited
    BY <1>2, <1>3, <1>5
<1>7. Credited' = Credited
    BY <1>6 DEF Credited
<1>8. \A q \in Payment : f[q] \in Int /\ g[q] \in Int /\ g[q] = entry'[q].refunded
                         /\ f[q] = entry[q].refunded
    BY <1>6, MoneyType
<1>9. KnownRefunds = Sum(f, Credited) /\ KnownRefunds' = Sum(g, Credited')
    BY CentsSum DEF KnownRefunds
<1> HIDE DEF f, g
<1>10. Credited \in SUBSET Payment /\ IsFiniteSet(Credited)
    BY MoneyType
<1>11. Sum(g, Credited) = Sum(f, Credited) - f[p] + g[p]
    <2>1. /\ \A q \in Credited : f[q] \in Int /\ g[q] \in Int
          /\ \A q \in Credited : q # p => g[q] = f[q]
        BY <1>6, <1>8, <1>10
    <2> QED BY <1>10, <2>1, SumChanges
<1>12. f[p] \in Int /\ g[p] = f[p] + d /\ Sum(f, Credited) \in Int
    BY <1>1, <1>6, <1>8, <1>9, MoneyType
<1>13. KnownRefunds' = KnownRefunds + d
    BY <1>7, <1>9, <1>11, <1>12
<1>14. Collected' = Collected
    BY <1>7 DEF Collected
<1>15. UncreditedClean'
    BY <1>1, <1>6 DEF UncreditedClean, Credited
<1> QED BY <1>5, <1>6, <1>7, <1>13, <1>14, <1>15

LEMMA ReturnedSame ==
    ASSUME GiftCardAssumption, TypeOK,
           \A p \in Payment : request'[Cancelling(p)].cents = request[Cancelling(p)].cents
    PROVE  Returned' = Returned
<1> DEFINE f == [p \in Payment |-> request[Cancelling(p)].cents]
           g == [p \in Payment |-> request'[Cancelling(p)].cents]
<1>1. f = g
    OBVIOUS
<1>2. Returned = Sum(f, Payment) /\ Returned' = Sum(g, Payment)
    BY CentsSum DEF Returned
<1> QED BY <1>1, <1>2

\* As long as nothing is cancelled nothing is returned.
LEMMA NothingReturned ==
    ASSUME GiftCardAssumption, TypeOK, CancellationSound, card.status \notin Frozen
    PROVE  Returned = 0
<1> DEFINE f == [p \in Payment |-> request[Cancelling(p)].cents]
<1>1. \A p \in Payment : f[p] = 0
    BY RequestFacts DEF CancellationSound
<1>2. Returned = Sum(f, Payment)
    BY CentsSum DEF Returned
<1> HIDE DEF f
<1> QED BY <1>1, <1>2, SumOfZeros DEF GiftCardAssumption

(***************************************************************************)
(* Steps of the database                                                   *)
(***************************************************************************)
\* What a request asks for is never changed, a checkout does not disappear,
\* and the ledger does not know of more than Stripe.
LEMMA DbStep ==
    ASSUME GiftCardAssumption, IInv,
           UNCHANGED <<kind, stripe, refund, event, late, outside, failures>>,
           UNCHANGED undone \/ undone' \subseteq Payment,
           card' \in Card, card'.remaining <= card'.amount,
           checkout' \in [Payment -> CheckoutStatus],
           \A p \in Payment : checkout[p] # "NONE" => checkout'[p] # "NONE",
           entry' \in [Payment -> Entry],
           \A p \in Payment : entry'[p].refunded <= stripe[p].refunded,
           \A p \in Payment : entry'[p].credited => checkout'[p] # "NONE",
           request' \in [Key -> Request],
           \A k \in Key : request[k] # NoRequest => request'[k] # NoRequest,
           \A k \in Key : request[k] # NoRequest => request'[k].cents = request[k].cents,
           \A p \in Payment : request'[Rejecting(p)] # NoRequest =>
               request[Rejecting(p)] # NoRequest \/ checkout'[p] # "NONE",
           redeemed' \in [Bill -> Nat], \A b \in Bill : redeemed'[b] <= Total[b],
           \/ UNCHANGED proc
           \/ \E h \in Process : \E e \in Execution :
                  e.pc # "fulfil" /\ proc' = [proc EXCEPT ![h] = e],
           CardInv'
    PROVE  IInv'
<1>1. /\ proc' \in [Process -> Execution]
      /\ \A g \in Process : proc'[g].pc = "fulfil" => checkout'[proc'[g].of] # "NONE"
    <2>1. CASE UNCHANGED proc
        <3>1. \A g \in Process : proc[g].pc = "fulfil" => proc[g].of \in Payment
            BY ExecutionIs DEF IInv, TypeOK, Fulfilment
        <3> QED BY <2>1, <3>1 DEF IInv, TypeOK, PaymentsPrepared
    <2>2. ASSUME NEW h \in Process, NEW e \in Execution, e.pc # "fulfil",
                 proc' = [proc EXCEPT ![h] = e]
          PROVE  /\ proc' \in [Process -> Execution]
                 /\ \A g \in Process : proc'[g].pc = "fulfil" => checkout'[proc'[g].of] # "NONE"
        BY <2>2, ProcStep DEF IInv
    <2> QED BY <2>1, <2>2
<1>2. TypeOK'
    BY <1>1 DEF IInv, TypeOK
<1>3. RefundsAsked'
    BY DEF IInv, RefundsAsked
<1>4. \A k \in Key : PendingCents(k)' = PendingCents(k)
    BY DEF IInv, RefundsAsked, PendingCents
<1>5. StripeSound'
    BY <1>4, KeyFacts DEF IInv, StripeSound, GivenBack
<1>6. PaymentsPrepared' /\ RejectedPrepared'
    BY <1>1 DEF IInv, PaymentsPrepared, RejectedPrepared
<1> QED BY <1>2, <1>3, <1>5, <1>6 DEF IInv

\* The card's balance and status, its payments and its cancellation are as
\* they were.
LEMMA CardRest ==
    ASSUME IInv, UNCHANGED <<kind, entry, redeemed>>,
           card'.status = card.status, card'.amount = card.amount,
           card'.remaining = card.remaining, card'.closed = card.closed,
           \/ kind = "CROWDFUNDED"
           \/ \A p, q \in Payment : checkout'[p] # "NONE" /\ checkout'[q] # "NONE" => p = q,
           \A p \in Payment : request'[Cancelling(p)] = request[Cancelling(p)]
    PROVE  CardInv'
<1>1. Credited' = Credited /\ Open' = Open /\ Spent' = Spent
    BY DEF Credited, Open, Spent
<1>2. Collected' = Collected /\ KnownRefunds' = KnownRefunds
    BY <1>1 DEF Collected, KnownRefunds
<1>3. Returned' = Returned
    <2>1. [p \in Payment |-> request'[Cancelling(p)].cents]
              = [p \in Payment |-> request[Cancelling(p)].cents]
        OBVIOUS
    <2>2. Returned' = Cents([p \in Payment |-> request'[Cancelling(p)].cents], Payment)
        BY DEF Returned
    <2> QED BY <2>1, <2>2 DEF Returned
<1>4. OnePurchase' /\ UncreditedClean'
    BY <1>1 DEF IInv, CardInv, OnePurchase, UncreditedClean
<1>5. Unspent' /\ Balance' /\ LedgerBalances'
    BY <1>1, <1>2 DEF IInv, CardInv, Unspent, Balance, LedgerBalances
<1>6. MoneyOut'
    <2>1. MoneyOut' = (Spent' + Returned' <= Collected')
        BY MoneyOutIs DEF MoneyOut, Returned
    <2> QED BY <1>1, <1>2, <1>3, <2>1, MoneyOutIs DEF IInv, CardInv
<1>7. CancellationSound'
    <2>1. \A p \in Payment : (Cancelling(p) \in Unfinished') = (Cancelling(p) \in Unfinished)
        BY DEF Unfinished
    <2> QED BY <2>1 DEF IInv, CardInv, CancellationSound
<1> QED BY <1>4, <1>5, <1>6, <1>7 DEF CardInv

LEMMA PrepareStep ==
    ASSUME GiftCardAssumption, IInv, NEW p \in Payment, Prepare(p)
    PROVE  IInv'
<1>1. checkout' = [checkout EXCEPT ![p] = "OPEN"] /\ checkout \in [Payment -> CheckoutStatus]
    BY DEF Prepare, IInv, TypeOK
<1>2. /\ UNCHANGED <<kind, card, entry, request, redeemed, stripe, refund, event, proc>>
      /\ UNCHANGED <<late, undone, outside, failures>>
    BY DEF Prepare
<1>3. checkout' \in [Payment -> CheckoutStatus]
    BY <1>1 DEF CheckoutStatus
<1>4. \A q \in Payment : checkout'[q] = IF q = p THEN "OPEN" ELSE checkout[q]
    BY <1>1
<1>5. \/ kind = "CROWDFUNDED"
      \/ \A q, r \in Payment : checkout'[q] # "NONE" /\ checkout'[r] # "NONE" => q = r
    BY <1>4, Bounded DEF Prepare, IInv
<1>6. CardInv'
    BY <1>2, <1>5, CardRest
<1>7. /\ \A q \in Payment : checkout[q] # "NONE" => checkout'[q] # "NONE"
      /\ \A q \in Payment : entry'[q].credited => checkout'[q] # "NONE"
      /\ \A q \in Payment : entry'[q].refunded <= stripe[q].refunded
    BY <1>2, <1>4 DEF IInv, PaymentsPrepared, StripeSound
<1>8. /\ card' \in Card /\ card'.remaining <= card'.amount /\ entry' \in [Payment -> Entry]
      /\ request' \in [Key -> Request]
      /\ redeemed' \in [Bill -> Nat] /\ \A b \in Bill : redeemed'[b] <= Total[b]
    BY <1>2 DEF IInv, TypeOK
<1> QED BY <1>2, <1>3, <1>6, <1>7, <1>8, DbStep

LEMMA PaymentFailedStep ==
    ASSUME GiftCardAssumption, IInv, NEW h \in Process, handlePaymentFailed(h)
    PROVE  IInv'
<1>1. /\ card \in Card /\ card' = [card EXCEPT !.payment = "failed"]
      /\ proc' = [proc EXCEPT ![h] = Idle]
      /\ UNCHANGED <<kind, checkout, entry, request, redeemed, stripe, refund, event>>
      /\ UNCHANGED <<late, undone, outside, failures>>
    BY DEF handlePaymentFailed, IInv, TypeOK
<1>2. /\ card' \in Card /\ card'.status = card.status /\ card'.amount = card.amount
      /\ card'.remaining = card.remaining /\ card'.closed = card.closed
    BY <1>1 DEF Card
<1>3. \/ kind = "CROWDFUNDED"
      \/ \A q, r \in Payment : checkout'[q] # "NONE" /\ checkout'[r] # "NONE" => q = r
    BY <1>1, Bounded DEF IInv, CardInv, OnePurchase
<1>4. CardInv'
    BY <1>1, <1>2, <1>3, CardRest
<1>5. /\ \A q \in Payment : entry'[q].credited => checkout'[q] # "NONE"
      /\ \A q \in Payment : entry'[q].refunded <= stripe[q].refunded
    BY <1>1 DEF IInv, PaymentsPrepared, StripeSound
<1>6. /\ card'.remaining <= card'.amount /\ entry' \in [Payment -> Entry]
      /\ request' \in [Key -> Request] /\ checkout' \in [Payment -> CheckoutStatus]
      /\ redeemed' \in [Bill -> Nat] /\ \A b \in Bill : redeemed'[b] <= Total[b]
    BY <1>1, <1>2 DEF IInv, TypeOK
<1> QED BY <1>1, <1>2, <1>4, <1>5, <1>6, ExecutionTypes, DbStep

LEMMA FulfilmentOf ==
    ASSUME IInv, NEW h \in Process, proc[h].pc = "fulfil"
    PROVE  proc[h].of \in Payment /\ proc[h].refunded \in Nat /\ checkout[proc[h].of] # "NONE"
BY ExecutionIs DEF IInv, TypeOK, Fulfilment, PaymentsPrepared

LEMMA NothingCollected ==
    ASSUME Credited = {}
    PROVE  Collected = 0 /\ KnownRefunds = 0
BY SumOfNone, CentsSum DEF Collected, KnownRefunds

LEMMA NewCardFacts ==
    ASSUME NEW amount \in Nat
    PROVE  /\ NewCard(amount) \in Card /\ NewCard(amount).status = "ACTIVE"
           /\ NewCard(amount).amount = amount /\ NewCard(amount).remaining = amount
           /\ NewCard(amount).closed = FALSE
BY DEF NewCard, Card

LEMMA OnlyOneCheckout ==
    ASSUME GiftCardAssumption, IInv, kind' = kind,
           \A q \in Payment : checkout'[q] # "NONE" => checkout[q] # "NONE"
    PROVE  \/ kind = "CROWDFUNDED"
           \/ \A q, r \in Payment : checkout'[q] # "NONE" /\ checkout'[r] # "NONE" => q = r
BY Bounded DEF IInv, CardInv, OnePurchase

\* The payment of a purchase is credited to a card that is not there yet.
LEMMA FirstPurchase ==
    ASSUME IInv, kind = "SINGLE", NEW p \in Payment, checkout[p] # "NONE", ~entry[p].credited
    PROVE  Credited = {} /\ card.status = "NONE"
<1>1. \A q \in Credited : checkout[q] # "NONE" /\ q \in Payment /\ q # p
    BY DEF Credited, IInv, PaymentsPrepared
<1>2. Credited = {}
    BY <1>1 DEF IInv, CardInv, OnePurchase
<1> QED BY <1>2 DEF IInv, CardInv, OnePurchase

LEMMA MoneyPrimed ==
    /\ Spent' + card'.remaining <= Collected' => Balance'
    /\ Spent' + Returned' <= Collected' => MoneyOut'
    /\ card'.remaining = 0 \/ card'.status \in Frozen
          \/ card'.remaining = Collected' - KnownRefunds' - Spent' => LedgerBalances'
<1>1. MoneyOut' = (Spent' + Returned' <= Collected')
    BY MoneyOutIs DEF MoneyOut, Returned
<1>2. Spent' + card'.remaining <= Collected' => Balance'
    BY DEF Balance
<1>3. card'.remaining = 0 \/ card'.status \in Frozen
          \/ card'.remaining = Collected' - KnownRefunds' - Spent' => LedgerBalances'
    BY DEF LedgerBalances
<1> QED BY <1>1, <1>2, <1>3

LEMMA PurchaseStep ==
    ASSUME GiftCardAssumption, IInv, NEW h \in Process, purchaseWithPayment(h)
    PROVE  IInv'
<1>1. PICK p \in Payment : p = proc[h].of /\ checkout[p] # "NONE"
    BY FulfilmentOf DEF purchaseWithPayment
<1>2. /\ kind = "SINGLE" /\ proc' = [proc EXCEPT ![h] = Idle]
      /\ UNCHANGED <<kind, request, redeemed, stripe, refund, event, late, undone, outside, failures>>
      /\ checkout' = IF StatusAllows(p) THEN [checkout EXCEPT ![p] = "FULFILLED"] ELSE checkout
    BY <1>1 DEF purchaseWithPayment
<1>3. checkout' \in [Payment -> CheckoutStatus]
    BY <1>2 DEF IInv, TypeOK, CheckoutStatus
<1>4. \A q \in Payment : (checkout'[q] # "NONE") <=> (checkout[q] # "NONE")
    BY <1>1, <1>2 DEF IInv, TypeOK
<1>5. /\ request' \in [Key -> Request] /\ redeemed' \in [Bill -> Nat]
      /\ \A b \in Bill : redeemed'[b] <= Total[b]
    BY <1>2 DEF IInv, TypeOK
<1>6. Idle \in Execution /\ Idle.pc # "fulfil"
    BY ExecutionTypes
<1>7. CASE ~(StatusAllows(p) /\ ~entry[p].credited)
    <2>1. card' = card
        BY <1>1, <1>7 DEF purchaseWithPayment
    <2>2. entry' = entry
        <3>1. entry[p].credited \in BOOLEAN /\ entry \in [Payment -> Entry]
            BY DEF IInv, TypeOK, Entry
        <3>2. (entry[p].credited \/ (StatusAllows(p) /\ ~entry[p].credited)) = entry[p].credited
            BY <1>7, <3>1
        <3>3. entry' = [entry EXCEPT ![p].credited =
                           entry[p].credited \/ (StatusAllows(p) /\ ~entry[p].credited)]
            BY <1>1 DEF purchaseWithPayment
        <3>4. entry' = [entry EXCEPT ![p].credited = entry[p].credited]
            BY <3>2, <3>3
        <3> QED BY <3>1, <3>4 DEF Entry
    <2>3. CardInv'
        BY <1>2, <1>4, <2>1, <2>2, OnlyOneCheckout, CardRest
    <2>4. /\ card' \in Card /\ card'.remaining <= card'.amount /\ entry' \in [Payment -> Entry]
          /\ \A q \in Payment : entry'[q].credited => checkout'[q] # "NONE"
          /\ \A q \in Payment : entry'[q].refunded <= stripe[q].refunded
        BY <1>4, <2>1, <2>2 DEF IInv, TypeOK, PaymentsPrepared, StripeSound
    <2> QED BY <1>2, <1>3, <1>4, <1>5, <1>6, <2>3, <2>4, DbStep
<1>8. CASE StatusAllows(p) /\ ~entry[p].credited
    <2>1. card' = NewCard(Price[p])
        BY <1>1, <1>8 DEF purchaseWithPayment
    <2>2. entry' = [entry EXCEPT ![p].credited = TRUE]
        <3>1. (entry[p].credited \/ (StatusAllows(p) /\ ~entry[p].credited)) = TRUE
            BY <1>8
        <3>2. entry' = [entry EXCEPT ![p].credited =
                           entry[p].credited \/ (StatusAllows(p) /\ ~entry[p].credited)]
            BY <1>1 DEF purchaseWithPayment
        <3> QED BY <3>1, <3>2
    <2>3. Price[p] \in Nat /\ Price[p] > 0
        BY MoneyType DEF IInv
    <2>4. /\ card' \in Card /\ card'.status = "ACTIVE" /\ card'.remaining = Price[p]
          /\ card'.amount = Price[p]
        BY <2>1, <2>3, NewCardFacts
    <2>5. /\ Credited' = Credited \union {p} /\ p \notin Credited
          /\ entry' \in [Payment -> Entry]
          /\ \A q \in Payment : entry'[q].refunded = entry[q].refunded
          /\ \A q \in Payment : q # p => entry'[q].credited = entry[q].credited
          /\ Collected' = Collected + Price[p] /\ KnownRefunds' = KnownRefunds /\ UncreditedClean'
        BY <1>8, <2>2, CreditStep DEF IInv, CardInv
    <2>6. Credited = {} /\ card.status = "NONE"
        BY <1>1, <1>2, <1>8, FirstPurchase
    <2>7. Collected = 0 /\ KnownRefunds = 0
        BY <2>6, NothingCollected
    <2>8. card.status = "NONE"
        BY <2>6
    <2>9. Spent = 0 /\ Spent' = Spent
        BY <1>2, <2>8 DEF IInv, CardInv, Unspent, Spent
    <2>10. Returned = 0 /\ Returned' = Returned
        BY <1>2, <2>8, NothingReturned, ReturnedSame DEF IInv, CardInv, Frozen
    <2>11. OnePurchase'
        BY <1>2, <1>4, <2>4, <2>5 DEF OnePurchase, IInv, CardInv
    <2>12. Unspent'
        BY <1>2, <2>4, <2>9 DEF Unspent, Open
    <2>13. Balance' /\ LedgerBalances' /\ MoneyOut'
        BY <2>3, <2>4, <2>5, <2>7, <2>9, <2>10, MoneyPrimed
    <2>14. CancellationSound'
        BY <1>2, <2>4, <2>8 DEF CancellationSound, IInv, CardInv, Frozen
    <2>15. CardInv'
        BY <2>5, <2>11, <2>12, <2>13, <2>14 DEF CardInv
    <2>16. /\ card'.remaining <= card'.amount
           /\ \A q \in Payment : entry'[q].credited => checkout'[q] # "NONE"
           /\ \A q \in Payment : entry'[q].refunded <= stripe[q].refunded
        BY <1>1, <1>4, <2>3, <2>4, <2>5 DEF IInv, PaymentsPrepared, StripeSound
    <2> QED BY <1>2, <1>3, <1>4, <1>5, <1>6, <2>4, <2>5, <2>15, <2>16, DbStep
<1> QED BY <1>7, <1>8

\* What every contribution leaves alone.
LEMMA ContributeStep ==
    ASSUME GiftCardAssumption, IInv, NEW h \in Process, contribute(h)
    PROVE  IInv'
<1>1. PICK p \in Payment : p = proc[h].of /\ checkout[p] # "NONE"
    BY FulfilmentOf DEF contribute
<1>2. /\ kind = "CROWDFUNDED"
      /\ UNCHANGED <<kind, card, redeemed, stripe, refund, event, late, undone, outside, failures>>
    BY DEF contribute
<1>3. /\ redeemed' \in [Bill -> Nat] /\ \A b \in Bill : redeemed'[b] <= Total[b]
      /\ card' \in Card /\ card'.remaining <= card'.amount
    BY <1>2 DEF IInv, TypeOK
<1>4. Idle \in Execution /\ Idle.pc # "fulfil"
    BY ExecutionTypes
<1>5. CASE proc' = [proc EXCEPT ![h] = Idle] /\ UNCHANGED <<checkout, entry, request>>
    <2>1. CardInv'
        BY <1>2, <1>5, CardRest
    <2>2. /\ checkout' \in [Payment -> CheckoutStatus] /\ entry' \in [Payment -> Entry]
          /\ request' \in [Key -> Request]
          /\ \A q \in Payment : entry'[q].credited => checkout'[q] # "NONE"
          /\ \A q \in Payment : entry'[q].refunded <= stripe[q].refunded
        BY <1>5 DEF IInv, TypeOK, PaymentsPrepared, StripeSound
    <2> QED BY <1>2, <1>3, <1>4, <1>5, <2>1, <2>2, DbStep
<1>6. CASE /\ ~entry[p].credited /\ Accepted(p, proc[h].refunded)
           /\ entry' = [entry EXCEPT ![p].credited = TRUE]
           /\ checkout' = [checkout EXCEPT ![p] = "FULFILLED"]
           /\ proc' = [proc EXCEPT ![h] = Idle]
           /\ UNCHANGED request
    <2>1. checkout' \in [Payment -> CheckoutStatus]
        BY <1>6 DEF IInv, TypeOK, CheckoutStatus
    <2>2. \A q \in Payment : (checkout'[q] # "NONE") <=> (checkout[q] # "NONE")
        BY <1>1, <1>6 DEF IInv, TypeOK
    <2>3. /\ Credited' = Credited \union {p} /\ p \notin Credited
          /\ entry' \in [Payment -> Entry]
          /\ \A q \in Payment : entry'[q].refunded = entry[q].refunded
          /\ \A q \in Payment : q # p => entry'[q].credited = entry[q].credited
          /\ Collected' = Collected + Price[p] /\ KnownRefunds' = KnownRefunds /\ UncreditedClean'
        BY <1>6, CreditStep DEF IInv, CardInv
    <2>4. /\ Spent' = Spent /\ Returned' = Returned /\ Open' = Open
          /\ \A q \in Payment : (Cancelling(q) \in Unfinished') = (Cancelling(q) \in Unfinished)
        BY <1>2, <1>6, ReturnedSame DEF IInv, Spent, Open, Unfinished
    <2>5. Open
        BY <1>2, <1>6 DEF Accepted, Open
    <2>6. card.amount = 0 /\ card.remaining = 0
        BY <2>5, MoneyType DEF IInv, CardInv, Unspent, TypeOK
    <2>7. OnePurchase' /\ Unspent' /\ CancellationSound'
        BY <1>2, <1>6, <2>4 DEF IInv, CardInv, OnePurchase, Unspent, CancellationSound
    <2>8. Balance' /\ LedgerBalances' /\ MoneyOut'
        <3>1. /\ Spent \in Nat /\ Returned \in Nat /\ Collected \in Nat /\ Price[p] \in Nat
              /\ Spent + card.remaining <= Collected /\ Spent + Returned <= Collected
            BY MoneyType, MoneyOutIs DEF IInv, CardInv, Balance
        <3> QED BY <1>2, <2>3, <2>4, <2>6, <3>1, MoneyPrimed
    <2>9. CardInv'
        BY <2>3, <2>7, <2>8 DEF CardInv
    <2>10. /\ \A q \in Payment : entry'[q].credited => checkout'[q] # "NONE"
           /\ \A q \in Payment : entry'[q].refunded <= stripe[q].refunded
           /\ request' \in [Key -> Request]
        BY <1>1, <1>6, <2>2, <2>3 DEF IInv, TypeOK, PaymentsPrepared, StripeSound
    <2> QED BY <1>2, <1>3, <1>4, <1>6, <2>1, <2>2, <2>3, <2>9, <2>10, DbStep
<1>7. CASE Reject(h, p)
    <2>1. PICK c \in Int : c = Price[p] - proc[h].refunded
        BY <1>1, FulfilmentOf, MoneyType DEF contribute, IInv
    <2>2. /\ checkout' = [checkout EXCEPT ![p] = "REFUND_PENDING"] /\ UNCHANGED entry
          /\ request' = IF c > 0 /\ request[Rejecting(p)] = NoRequest
                        THEN [request EXCEPT ![Rejecting(p)] = NewRequest(c)] ELSE request
          /\ proc' = [proc EXCEPT ![h] = Requests(IF c > 0 THEN {Rejecting(p)} ELSE {}, {})]
        BY <1>7, <2>1 DEF Reject
    <2>3. checkout' \in [Payment -> CheckoutStatus]
        BY <2>2 DEF IInv, TypeOK, CheckoutStatus
    <2>4. \A q \in Payment : checkout[q] # "NONE" => checkout'[q] # "NONE"
        BY <2>2 DEF IInv, TypeOK
    <2>5. /\ request' \in [Key -> Request]
          /\ \A k \in Key : request[k] # NoRequest => request'[k] = request[k]
          /\ \A k \in Key : k # Rejecting(p) => request'[k] = request[k]
        BY <2>1, <2>2, RequestFacts, KeyFacts DEF IInv, TypeOK
    <2>6. CardInv'
        <3>1. \A q \in Payment : request'[Cancelling(q)] = request[Cancelling(q)]
            BY <2>5, KeyFacts
        <3>2. UNCHANGED <<kind, entry, redeemed>> /\ UNCHANGED card
            BY <1>2, <2>2
        <3> QED BY <1>2, <3>1, <3>2, CardRest
    <2>7. PICK todo \in SUBSET Key : proc' = [proc EXCEPT ![h] = Requests(todo, {})]
        <3>1. (IF c > 0 THEN {Rejecting(p)} ELSE {}) \in SUBSET Key
            BY KeyFacts
        <3> QED BY <2>2, <3>1
    <2>8. Requests(todo, {}) \in Execution /\ Requests(todo, {}).pc # "fulfil"
        BY RequestsType
    <2>9. /\ \A q \in Payment : entry'[q].credited => checkout'[q] # "NONE"
          /\ \A q \in Payment : entry'[q].refunded <= stripe[q].refunded
          /\ entry' \in [Payment -> Entry]
        BY <2>2, <2>4 DEF IInv, TypeOK, PaymentsPrepared, StripeSound
    <2>10. \A q \in Payment : request'[Rejecting(q)] # NoRequest =>
               request[Rejecting(q)] # NoRequest \/ checkout'[q] # "NONE"
        BY <1>1, <2>4, <2>5, KeyFacts
    <2> QED BY <1>2, <1>3, <2>3, <2>4, <2>5, <2>6, <2>7, <2>8, <2>9, <2>10, DbStep
<1> QED BY <1>1, <1>5, <1>6, <1>7 DEF contribute

LEMMA FloorFacts ==
    ASSUME NEW n \in Int
    PROVE  Floor(n) = IF n > 0 THEN n ELSE 0
<1>1. IF n > 0 THEN n \in {0, n} /\ (\A y \in {0, n} : n >= y)
      ELSE 0 \in {0, n} /\ \A y \in {0, n} : 0 >= y
    OBVIOUS
<1>2. PICK m : m \in {0, n} /\ \A y \in {0, n} : m >= y
    BY <1>1
<1>3. Floor(n) \in {0, n} /\ \A y \in {0, n} : Floor(n) >= y
    BY <1>2 DEF Floor, Max
<1> QED BY <1>3

LEMMA MinFacts ==
    ASSUME NEW m \in Int, NEW n \in Int
    PROVE  Min({m, n}) = IF m < n THEN m ELSE n
<1>1. IF m < n THEN m \in {m, n} /\ (\A y \in {m, n} : m <= y)
      ELSE n \in {m, n} /\ \A y \in {m, n} : n <= y
    OBVIOUS
<1>2. PICK k : k \in {m, n} /\ \A y \in {m, n} : k <= y
    BY <1>1
<1>3. Min({m, n}) \in {m, n} /\ \A y \in {m, n} : Min({m, n}) <= y
    BY <1>2 DEF Min
<1> QED BY <1>3

\* What is left of the payments together is what the ledger says.
LEMMA RetainedSum ==
    ASSUME GiftCardAssumption, IInv
    PROVE  /\ \A p \in Payment : Retained(p) = Price[p] - entry[p].refunded /\ Retained(p) \in Nat
           /\ Cents([p \in Payment |-> Retained(p)], Credited) = Collected - KnownRefunds
<1> DEFINE f == [p \in Payment |-> entry[p].refunded]
           d == [p \in Payment |-> Retained(p)]
<1>1. \A p \in Payment : /\ entry[p].refunded \in Nat /\ Price[p] \in Nat
                         /\ entry[p].refunded <= Price[p]
    <2> TAKE p \in Payment
    <2>1. /\ entry[p].refunded \in Nat /\ Price[p] \in Nat /\ GivenBack(p) <= Price[p]
          /\ entry[p].refunded <= stripe[p].refunded
        BY MoneyType DEF IInv, StripeSound
    <2>2. /\ stripe[p].refunded <= GivenBack(p) /\ stripe[p].refunded \in Nat /\ GivenBack(p) \in Nat
        BY GivenBackFacts DEF IInv, GivenBack
    <2> QED BY <2>1, <2>2
<1>2. \A p \in Payment : Retained(p) = Price[p] - entry[p].refunded /\ Retained(p) \in Nat
    BY <1>1, FloorFacts DEF Retained
<1>3. \A p \in Payment : f[p] = entry[p].refunded /\ d[p] = Retained(p)
    OBVIOUS
<1>4. KnownRefunds = Sum(f, Credited) /\ Cents(d, Credited) = Sum(d, Credited)
    BY CentsSum DEF KnownRefunds
<1> HIDE DEF f, d
<1>5. Credited \in SUBSET Payment /\ IsFiniteSet(Credited)
    BY MoneyType DEF IInv
<1>6. \A p \in Credited : Price[p] \in Int /\ f[p] \in Int /\ d[p] = Price[p] - f[p]
    BY <1>1, <1>2, <1>3, <1>5
<1>7. Sum(d, Credited) = Sum(Price, Credited) - Sum(f, Credited)
    BY <1>5, <1>6, SumSubtracts
<1>8. Cents(d, Credited) = Collected - KnownRefunds
    BY <1>4, <1>7, CentsSum DEF Collected
<1> QED BY <1>2, <1>8 DEF d

\* Only the card, its bills and its executions change.
LEMMA CardStep ==
    ASSUME GiftCardAssumption, IInv,
           UNCHANGED <<kind, checkout, entry, request, stripe, refund, event, late, undone, outside, failures>>,
           card' \in Card, card'.remaining <= card'.amount,
           redeemed' \in [Bill -> Nat], \A b \in Bill : redeemed'[b] <= Total[b],
           \/ UNCHANGED proc
           \/ \E h \in Process : \E e \in Execution :
                  e.pc # "fulfil" /\ proc' = [proc EXCEPT ![h] = e],
           CardInv'
    PROVE  IInv'
<1>1. /\ checkout' \in [Payment -> CheckoutStatus] /\ entry' \in [Payment -> Entry]
      /\ request' \in [Key -> Request]
      /\ \A q \in Payment : entry'[q].credited => checkout'[q] # "NONE"
      /\ \A q \in Payment : entry'[q].refunded <= stripe[q].refunded
    BY DEF IInv, TypeOK, PaymentsPrepared, StripeSound
<1> QED BY <1>1, DbStep

LEMMA CloseStep ==
    ASSUME GiftCardAssumption, IInv, closeCrowdfunding
    PROVE  IInv'
<1>1. PICK total : /\ total = Cents([p \in Payment |-> Retained(p)], Credited) /\ total > 0
                   /\ card' = [card EXCEPT !.amount = total, !.remaining = total, !.closed = TRUE]
    BY DEF closeCrowdfunding
<1>2. /\ Open /\ card.status = "ACTIVE"
      /\ UNCHANGED <<kind, checkout, entry, request, redeemed, stripe, refund, event, proc>>
      /\ UNCHANGED <<late, undone, outside, failures>>
    BY DEF closeCrowdfunding, Closable
<1>3. total = Collected - KnownRefunds /\ Collected \in Nat /\ KnownRefunds \in Nat
    BY <1>1, RetainedSum, MoneyType DEF IInv
<1>4. total \in Nat
    BY <1>1, <1>3
<1>5. /\ card' \in Card /\ card'.status = "ACTIVE" /\ card'.amount = total
      /\ card'.remaining = total /\ card'.closed = TRUE
    BY <1>1, <1>2, <1>4 DEF Card, IInv, TypeOK
<1>6. Spent = 0 /\ Returned = 0 /\ Spent' = Spent /\ Returned' = Returned
    BY <1>2, NothingReturned, ReturnedSame DEF IInv, CardInv, Unspent, Frozen, Spent
<1>7. Credited' = Credited /\ Collected' = Collected /\ KnownRefunds' = KnownRefunds
    BY <1>2 DEF Credited, Collected, KnownRefunds
<1>8. OnePurchase' /\ UncreditedClean'
    BY <1>2, <1>5, <1>7 DEF OnePurchase, UncreditedClean, IInv, CardInv, Open
<1>9. Unspent'
    BY <1>2, <1>5, <1>6 DEF Unspent, Open
<1>10. Balance' /\ LedgerBalances' /\ MoneyOut'
    BY <1>3, <1>4, <1>5, <1>6, <1>7, MoneyPrimed
<1>11. CancellationSound'
    BY <1>2, <1>5 DEF CancellationSound, IInv, CardInv, Frozen
<1>12. CardInv'
    BY <1>8, <1>9, <1>10, <1>11 DEF CardInv
<1>13. /\ card'.remaining <= card'.amount
       /\ redeemed' \in [Bill -> Nat] /\ \A b \in Bill : redeemed'[b] <= Total[b]
    BY <1>2, <1>4, <1>5 DEF IInv, TypeOK
<1> QED BY <1>2, <1>5, <1>12, <1>13, CardStep

LEMMA SpendStep ==
    ASSUME GiftCardAssumption, IInv, NEW b \in Bill, redeemed[b] = 0,
           card.status = "ACTIVE", card.remaining > 0, Spend(b),
           UNCHANGED <<kind, checkout, entry, request, stripe, refund, event, late, undone, outside, failures>>,
           \/ UNCHANGED proc
           \/ \E h \in Process : \E e \in Execution :
                  e.pc # "fulfil" /\ proc' = [proc EXCEPT ![h] = e]
    PROVE  IInv'
<1>1. card.remaining \in Nat /\ card.amount \in Nat /\ Total[b] \in Nat /\ Total[b] > 0
      /\ card.remaining <= card.amount /\ card \in Card
    BY MoneyType DEF IInv, TypeOK, GiftCardAssumption
<1>2. PICK n \in Nat : /\ n = Min({card.remaining, Total[b]})
                       /\ 0 < n /\ n <= card.remaining /\ n <= Total[b]
    BY <1>1, MinFacts
<1>3. PICK status \in {"ACTIVE", "REDEEMED"}, left \in Nat :
          /\ left = card.remaining - n
          /\ card' = [card EXCEPT !.remaining = left, !.status = status]
    <2>1. card.remaining - n \in Nat
        BY <1>1, <1>2
    <2>2. card' = [card EXCEPT !.remaining = card.remaining - n,
                               !.status = IF n < card.remaining THEN "ACTIVE" ELSE "REDEEMED"]
        BY <1>2 DEF Spend
    <2> QED BY <2>1, <2>2
<1>4. redeemed' = [redeemed EXCEPT ![b] = n]
    BY <1>2 DEF Spend
<1>5. /\ card' \in Card /\ card'.status = status /\ card'.remaining = left
      /\ card'.amount = card.amount /\ card'.closed = card.closed
    BY <1>1, <1>3 DEF Card
<1>6. Spent' = Spent + n
    BY <1>4, SpentStep DEF IInv
<1>7. Credited' = Credited /\ Collected' = Collected /\ KnownRefunds' = KnownRefunds
      /\ Returned' = Returned /\ Returned = 0
    BY NothingReturned, ReturnedSame
       DEF Credited, Collected, KnownRefunds, IInv, CardInv, Frozen
<1>8. /\ Spent \in Nat /\ Collected \in Nat /\ KnownRefunds \in Nat
      /\ Spent + card.remaining <= Collected
      /\ card.remaining = Collected - KnownRefunds - Spent
    BY MoneyType DEF IInv, CardInv, Balance, LedgerBalances, Frozen
<1>9. ~Open /\ Open' = Open
    <2>1. Open => card.amount = 0
        BY DEF IInv, CardInv, Unspent
    <2> QED BY <1>1, <1>5, <2>1 DEF Open
<1>10. OnePurchase' /\ UncreditedClean'
    BY <1>5, <1>7 DEF OnePurchase, UncreditedClean, IInv, CardInv
<1>11. Unspent'
    <2>1. card'.remaining < card'.amount /\ card'.status # "NONE"
        BY <1>1, <1>2, <1>3, <1>5
    <2> QED BY <1>9, <2>1 DEF Unspent
<1>12. Balance' /\ LedgerBalances' /\ MoneyOut'
    BY <1>1, <1>2, <1>3, <1>5, <1>6, <1>7, <1>8, MoneyPrimed
<1>13. CancellationSound'
    BY <1>5 DEF CancellationSound, IInv, CardInv, Frozen
<1>14. CardInv'
    BY <1>10, <1>11, <1>12, <1>13 DEF CardInv
<1>15. card'.remaining <= card'.amount
    BY <1>1, <1>2, <1>3, <1>5
<1>16. redeemed' \in [Bill -> Nat] /\ \A c \in Bill : redeemed'[c] <= Total[c]
    <2>1. \A c \in Bill : redeemed'[c] = IF c = b THEN n ELSE redeemed[c]
        BY <1>4 DEF IInv, TypeOK
    <2> QED BY <1>2, <1>4, <2>1 DEF IInv, TypeOK
<1> QED BY <1>5, <1>14, <1>15, <1>16, CardStep

LEMMA ApplyStep ==
    ASSUME GiftCardAssumption, IInv, NEW h \in Process, applyToReservation(h)
    PROVE  IInv'
<1>1. PICK b \in Bill : b = proc[h].bill
    BY ExecutionIs DEF applyToReservation, IInv, TypeOK, Application
<1>2. /\ proc' = [proc EXCEPT ![h] = Idle] /\ Idle \in Execution /\ Idle.pc # "fulfil"
      /\ UNCHANGED <<kind, checkout, entry, request, stripe, refund, event, late, undone, outside, failures>>
    BY ExecutionTypes DEF applyToReservation
<1>3. CASE redeemed[b] = 0 /\ StillSpendable
    BY <1>1, <1>2, <1>3, SpendStep DEF applyToReservation, StillSpendable
<1>4. CASE ~(redeemed[b] = 0 /\ StillSpendable)
    <2>1. UNCHANGED <<card, redeemed>>
        BY <1>1, <1>4 DEF applyToReservation
    <2>2. CardInv'
        BY <1>2, <2>1, OnlyOneCheckout, CardRest
    <2>3. /\ card' \in Card /\ card'.remaining <= card'.amount
          /\ redeemed' \in [Bill -> Nat] /\ \A c \in Bill : redeemed'[c] <= Total[c]
        BY <2>1 DEF IInv, TypeOK
    <2> QED BY <1>2, <2>2, <2>3, CardStep
<1> QED BY <1>3, <1>4

LEMMA DebitStep ==
    ASSUME GiftCardAssumption, IInv, NEW b \in Bill, debit(b)
    PROVE  IInv'
BY SpendStep DEF debit

LEMMA DueFacts ==
    ASSUME GiftCardAssumption, IInv, NEW p \in Payment
    PROVE  /\ Due(p) = IF p \notin Credited THEN 0
                       ELSE IF kind = "SINGLE" THEN card.remaining ELSE Retained(p)
           /\ Due(p) \in Nat
<1>1. Due(p) = IF p \notin Credited THEN 0
               ELSE IF kind = "SINGLE" THEN card.remaining ELSE Retained(p)
    BY DEF Due
<1>2. card.remaining \in Nat /\ Retained(p) \in Nat
    BY MoneyType, RetainedSum DEF IInv
<1> QED BY <1>1, <1>2

\* What a cancellation gives back was collected and not spent.
LEMMA DueSum ==
    ASSUME GiftCardAssumption, IInv, card.status # "NONE", Cancellable
    PROVE  Spent + Cents([p \in Payment |-> Due(p)], Payment) <= Collected
<1> DEFINE d == [p \in Payment |-> Due(p)]
<1>1. /\ \A p \in Payment : d[p] = Due(p) /\ d[p] \in Int
      /\ \A p \in Payment : p \notin Credited => d[p] = 0
    BY DueFacts
<1>2. /\ IsFiniteSet(Payment) /\ IsFiniteSet(Credited) /\ Credited \in SUBSET Payment
      /\ Spent \in Nat /\ Collected \in Nat /\ KnownRefunds \in Nat
      /\ card.remaining \in Nat /\ card.amount \in Nat
    BY MoneyType DEF IInv, GiftCardAssumption
<1>3. Spent + card.remaining <= Collected
    BY DEF IInv, CardInv, Balance
<1>4. Cents(d, Payment) = Sum(d, Payment)
    BY CentsSum
<1> HIDE DEF d
<1>5. Sum(d, Payment) = Sum(d, Credited)
    BY <1>1, <1>2, SumRestricts
<1>6. CASE kind = "SINGLE"
    <2>1. PICK q \in Payment : q \in Credited
        BY <1>2, <1>6 DEF IInv, CardInv, OnePurchase
    <2>2. Credited = {q}
        <3>1. \A r \in Credited : checkout[r] # "NONE" /\ r \in Payment
            BY DEF Credited, IInv, PaymentsPrepared
        <3> QED BY <1>6, <2>1, <3>1 DEF IInv, CardInv, OnePurchase
    <2>3. Sum(d, {q}) = d[q]
        BY <1>1, SumOfOne
    <2>4. d[q] = card.remaining
        BY <1>1, <1>6, <2>1, DueFacts
    <2> QED BY <1>2, <1>3, <1>4, <1>5, <2>2, <2>3, <2>4 DEF d
<1>7. CASE kind = "CROWDFUNDED"
    <2>1. Spent = 0
        <3> SUFFICES ASSUME Spent > 0 PROVE FALSE
            BY <1>2
        <3>1. card.remaining < card.amount
            BY <1>7 DEF IInv, CardInv, Unspent
        <3>2. Credited = {}
            BY <1>2, <1>7, <3>1 DEF Cancellable
        <3> QED BY <1>2, <1>3, <3>2, NothingCollected
    <2> DEFINE r == [p \in Payment |-> Retained(p)]
    <2>2. /\ \A p \in Credited : d[p] \in Int /\ d[p] = r[p]
          /\ Cents(r, Credited) = Sum(r, Credited)
        BY <1>1, <1>2, <1>7, DueFacts, CentsSum
    <2>3. Cents(r, Credited) = Collected - KnownRefunds
        BY RetainedSum
    <2> HIDE DEF r
    <2>4. Sum(d, Credited) = Sum(r, Credited)
        BY <1>2, <2>2, SumAgrees
    <2> QED BY <1>2, <1>4, <1>5, <2>1, <2>2, <2>3, <2>4 DEF d
<1> QED BY <1>6, <1>7, Bounded DEF IInv

LEMMA CancelStep ==
    ASSUME GiftCardAssumption, IInv, cancel
    PROVE  IInv'
<1> DEFINE due == {p \in Payment : Due(p) > 0}
<1>1. /\ card.status # "NONE" /\ card.status \notin Frozen /\ Cancellable
      /\ UNCHANGED <<kind, checkout, entry, redeemed, stripe, refund, event, proc>>
      /\ UNCHANGED <<late, undone, outside, failures>>
      /\ request' = [k \in Key |-> IF k.reason = "CANCELLATION" /\ k.of \in due
                                   THEN NewRequest(Due(k.of)) ELSE request[k]]
      /\ card' = IF due # {} THEN [card EXCEPT !.status = "REFUND_PENDING"]
                 ELSE [card EXCEPT !.status = "CANCELLED", !.remaining = 0]
    BY DEF cancel
<1>2. \A p \in Payment : (p \in due) <=> Due(p) > 0
    OBVIOUS
<1> HIDE DEF due
<1>3. \A p \in Payment : Due(p) \in Nat
    BY DueFacts
<1>4. \A p \in Payment : request[Cancelling(p)] = NoRequest
    BY <1>1 DEF IInv, CardInv, CancellationSound
<1>5. \A k \in Key : request[k] # NoRequest => request'[k] = request[k]
    BY <1>1, <1>4, KeyFacts
<1>6. request' \in [Key -> Request]
    <2>1. ASSUME NEW k \in Key, k.of \in due PROVE NewRequest(Due(k.of)) \in Request
        BY <1>2, <1>3, <2>1, KeyFacts, RequestFacts
    <2>2. \A k \in Key : request[k] \in Request
        BY DEF IInv, TypeOK
    <2> QED BY <1>1, <2>1, <2>2
<1>7. \A p \in Payment : /\ p \in due => request'[Cancelling(p)] = NewRequest(Due(p))
                         /\ p \notin due => request'[Cancelling(p)] = NoRequest
    BY <1>1, <1>4, KeyFacts
<1>8. \A p \in Payment : request'[Cancelling(p)].cents = Due(p)
    BY <1>2, <1>3, <1>7, RequestFacts
<1>9. Spent + Returned' <= Collected
    <2>1. [p \in Payment |-> request'[Cancelling(p)].cents] = [p \in Payment |-> Due(p)]
        BY <1>8
    <2>2. Returned' = Cents([p \in Payment |-> request'[Cancelling(p)].cents], Payment)
        BY DEF Returned
    <2> QED BY <1>1, <2>1, <2>2, DueSum
<1>10. card.remaining \in Nat /\ card.remaining <= card.amount /\ card.amount \in Nat /\ card \in Card
    BY MoneyType DEF IInv, TypeOK
<1>11. /\ card' \in Card /\ card'.amount = card.amount /\ card'.closed = card.closed
       /\ card'.status = IF due # {} THEN "REFUND_PENDING" ELSE "CANCELLED"
       /\ card'.remaining = IF due # {} THEN card.remaining ELSE 0
    BY <1>1, <1>10 DEF Card, Frozen
<1>12. /\ Credited' = Credited /\ Collected' = Collected /\ KnownRefunds' = KnownRefunds
       /\ Spent' = Spent
    BY <1>1 DEF Credited, Collected, KnownRefunds, Spent
<1>13. Spent \in Nat /\ Collected \in Nat /\ Spent + card.remaining <= Collected
    BY MoneyType DEF IInv, CardInv, Balance
<1>14. OnePurchase' /\ UncreditedClean'
    BY <1>1, <1>11, <1>12 DEF OnePurchase, UncreditedClean, IInv, CardInv
<1>15. Unspent'
    <2>1. card'.remaining <= card.remaining
        BY <1>10, <1>11
    <2>2. /\ Open' = Open /\ card'.status # "NONE"
        BY <1>1, <1>11 DEF Open
    <2> QED BY <1>1, <1>10, <1>11, <1>12, <2>1, <2>2 DEF IInv, CardInv, Unspent
<1>16. Balance' /\ LedgerBalances' /\ MoneyOut'
    BY <1>9, <1>10, <1>11, <1>12, <1>13, MoneyPrimed DEF Frozen
<1>17. CancellationSound'
    <2>1. card'.status \in Frozen /\ card'.status # "REFUND_FAILED"
        BY <1>11 DEF Frozen
    <2>2. ASSUME card'.status = "CANCELLED", NEW p \in Payment PROVE Cancelling(p) \notin Unfinished'
        <3>1. request'[Cancelling(p)] = NoRequest
            BY <1>7, <1>11, <2>2
        <3> QED BY <3>1, RequestFacts DEF Unfinished
    <2> QED BY <2>1, <2>2 DEF CancellationSound
<1>18. CardInv'
    BY <1>14, <1>15, <1>16, <1>17 DEF CardInv
<1>19. /\ card'.remaining <= card'.amount /\ checkout' \in [Payment -> CheckoutStatus]
       /\ entry' \in [Payment -> Entry]
       /\ \A q \in Payment : entry'[q].credited => checkout'[q] # "NONE"
       /\ \A q \in Payment : entry'[q].refunded <= stripe[q].refunded
       /\ redeemed' \in [Bill -> Nat] /\ \A b \in Bill : redeemed'[b] <= Total[b]
    BY <1>1, <1>10, <1>11 DEF IInv, TypeOK, PaymentsPrepared, StripeSound
<1>20. /\ UNCHANGED <<kind, stripe, refund, event, late, undone, outside, failures>> /\ UNCHANGED proc
       /\ \A p \in Payment : checkout[p] # "NONE" => checkout'[p] # "NONE"
       /\ \A p \in Payment : request'[Rejecting(p)] # NoRequest => request[Rejecting(p)] # NoRequest
    BY <1>1, KeyFacts
<1> QED BY <1>5, <1>6, <1>11, <1>18, <1>19, <1>20, DbStep

\* A refund of a cancellation is answered: the card stays frozen, and a
\* cancellation that has ended is not touched.
LEMMA ConcludeFacts ==
    ASSUME GiftCardAssumption, IInv, NEW p \in Payment, NEW k \in Key, k = Cancelling(p),
           k \in Unfinished, NEW reply \in {"pending"} \union Finished,
           request' = [request EXCEPT ![k].status = reply], Conclude(k, reply)
    PROVE  /\ card.status \in Frozen /\ card.status # "CANCELLED"
           /\ card' \in Card /\ card'.amount = card.amount /\ card'.closed = card.closed
           /\ card'.status \in Frozen /\ CancellationSound'
           /\ card.status = "REFUND_FAILED" => card'.status = "REFUND_FAILED"
           /\ card'.remaining = card.remaining \/ card'.remaining = 0
           /\ UNCHANGED checkout
<1> DEFINE all == {j \in Key : j.reason = "CANCELLATION" /\ request[j] # NoRequest}
<1>1. k.reason = "CANCELLATION" /\ request[k] # NoRequest /\ k \in all
    BY KeyFacts, RequestFacts DEF Unfinished
<1>2. card.status \in Frozen /\ card.status # "CANCELLED" /\ card \in Card
    BY <1>1 DEF IInv, TypeOK, CardInv, CancellationSound
<1>3. \A j \in Key : j # k => request'[j] = request[j]
    BY DEF IInv, TypeOK
<1>4. \A j \in Key : j.reason = "CANCELLATION" => \E q \in Payment : j = Cancelling(q)
    BY KeyFacts
<1>5. \A q \in Payment : Cancelling(q) \in Key /\ Cancelling(q).reason = "CANCELLATION"
    BY KeyFacts
<1>6. card.status = "REFUND_FAILED" => \E j \in all : request'[j].status = "failed"
    <2> SUFFICES ASSUME card.status = "REFUND_FAILED"
                 PROVE  \E j \in all : request'[j].status = "failed"
        OBVIOUS
    <2>1. PICK q \in Payment : request[Cancelling(q)].status = "failed"
        BY DEF IInv, CardInv, CancellationSound
    <2>2. Cancelling(q) # k
        BY <2>1 DEF Unfinished
    <2>3. request[Cancelling(q)] # NoRequest
        BY <2>1, RequestFacts
    <2> QED BY <1>3, <1>5, <2>1, <2>2, <2>3
<1>7. \A q \in Payment : Cancelling(q) \notin all => request'[Cancelling(q)] = NoRequest
    BY <1>1, <1>3, <1>5
<1>8. /\ card' = CASE \E j \in all : request'[j].status = "failed" ->
                         [card EXCEPT !.status = "REFUND_FAILED"]
                   [] (\A j \in all : request'[j].status # "failed") /\ AllSucceeded(all) ->
                         [card EXCEPT !.status = "CANCELLED", !.remaining = 0, !.payment = "refunded"]
                   [] OTHER -> card
      /\ UNCHANGED checkout
    BY <1>1 DEF Conclude
<1> HIDE DEF all
<1>9. CASE \E j \in all : request'[j].status = "failed"
    <2>1. card' = [card EXCEPT !.status = "REFUND_FAILED"]
        BY <1>8, <1>9
    <2>2. /\ card' \in Card /\ card'.amount = card.amount /\ card'.closed = card.closed
          /\ card'.status = "REFUND_FAILED" /\ card'.remaining = card.remaining
        BY <1>2, <2>1 DEF Card, Frozen
    <2>3. \E q \in Payment : request'[Cancelling(q)].status = "failed"
        BY <1>4, <1>9 DEF all
    <2> QED BY <1>2, <1>8, <2>2, <2>3 DEF CancellationSound, Frozen
<1>10. CASE (\A j \in all : request'[j].status # "failed") /\ AllSucceeded(all)
    <2>1. card' = [card EXCEPT !.status = "CANCELLED", !.remaining = 0, !.payment = "refunded"]
        BY <1>8, <1>10
    <2>2. /\ card' \in Card /\ card'.amount = card.amount /\ card'.closed = card.closed
          /\ card'.status = "CANCELLED" /\ card'.remaining = 0
        BY <1>2, <2>1 DEF Card, Frozen
    <2>3. ASSUME NEW q \in Payment PROVE Cancelling(q) \notin Unfinished'
        <3>1. CASE Cancelling(q) \in all
            <4>1. request'[Cancelling(q)].status = "succeeded"
                BY <1>10, <3>1 DEF AllSucceeded
            <4> QED BY <4>1 DEF Unfinished
        <3>2. CASE Cancelling(q) \notin all
            BY <1>7, <3>2, RequestFacts DEF Unfinished
        <3> QED BY <3>1, <3>2
    <2> QED BY <1>2, <1>6, <1>8, <1>10, <2>2, <2>3 DEF CancellationSound, Frozen
<1>11. CASE /\ ~ \E j \in all : request'[j].status = "failed"
            /\ ~ ((\A j \in all : request'[j].status # "failed") /\ AllSucceeded(all))
    <2>1. card' = card
        BY <1>8, <1>11
    <2> QED BY <1>2, <1>6, <1>8, <1>11, <2>1 DEF CancellationSound
<1> QED BY <1>9, <1>10, <1>11

LEMMA StoreStep ==
    ASSUME GiftCardAssumption, IInv, NEW h \in Process, StoreRefund(h)
    PROVE  IInv'
<1>1. proc[h] \in Store
    BY ExecutionIs DEF StoreRefund, IInv, TypeOK
<1>2. PICK k \in Key, reply \in {"pending"} \union Finished, todo \in SUBSET Key,
           events \in SUBSET Payment :
          k = proc[h].key /\ reply = proc[h].reply /\ todo = proc[h].todo /\ events = proc[h].events
    BY <1>1 DEF Store
<1>3. /\ UNCHANGED <<kind, entry, redeemed, stripe, refund, event, late, undone, outside, failures>>
      /\ proc' = [proc EXCEPT ![h] = Requests(todo, events)]
    BY <1>2 DEF StoreRefund
<1>4. Requests(todo, events) \in Execution /\ Requests(todo, events).pc # "fulfil"
    BY RequestsType
<1>5. /\ entry' \in [Payment -> Entry]
      /\ \A q \in Payment : entry'[q].refunded <= stripe[q].refunded
      /\ redeemed' \in [Bill -> Nat] /\ \A b \in Bill : redeemed'[b] <= Total[b]
    BY <1>3 DEF IInv, TypeOK, StripeSound
<1>6. CASE k \notin Unfinished
    <2>1. UNCHANGED <<card, checkout, request>>
        BY <1>2, <1>6 DEF StoreRefund
    <2>2. CardInv'
        BY <1>3, <2>1, OnlyOneCheckout, CardRest
    <2>3. /\ card' \in Card /\ card'.remaining <= card'.amount
          /\ checkout' \in [Payment -> CheckoutStatus] /\ request' \in [Key -> Request]
          /\ \A q \in Payment : entry'[q].credited => checkout'[q] # "NONE"
        BY <1>3, <2>1 DEF IInv, TypeOK, PaymentsPrepared
    <2> QED BY <1>3, <1>4, <1>5, <2>1, <2>2, <2>3, DbStep
<1>7. CASE k \in Unfinished
    <2>1. request' = [request EXCEPT ![k].status = reply] /\ Conclude(k, reply)
        BY <1>2, <1>7 DEF StoreRefund
    <2>2. request[k] \in Request /\ request[k] # NoRequest
        BY <1>7, RequestFacts DEF Unfinished, IInv, TypeOK
    <2> DEFINE new == [request[k] EXCEPT !.status = reply]
    <2>3. new \in Request /\ new # NoRequest /\ new.cents = request[k].cents
        <3>1. \A r \in Request : \A answer \in {"pending"} \union Finished :
                 r # NoRequest => /\ [r EXCEPT !.status = answer] \in Request
                                  /\ [r EXCEPT !.status = answer] # NoRequest
                                  /\ [r EXCEPT !.status = answer].cents = r.cents
            BY RequestFacts
        <3> HIDE DEF Request, NoRequest
        <3> QED BY <1>2, <2>2, <3>1 DEF new
    <2>4. request' = [request EXCEPT ![k] = new]
        BY <2>1
    <2> HIDE DEF new
    <2>5. request' \in [Key -> Request]
          /\ \A j \in Key : request'[j] = IF j = k THEN new ELSE request[j]
        BY <2>3, <2>4 DEF IInv, TypeOK
    <2>6. /\ \A j \in Key : request[j] # NoRequest => request'[j] # NoRequest
          /\ \A j \in Key : request'[j].cents = request[j].cents
          /\ \A q \in Payment : request'[Rejecting(q)] # NoRequest => request[Rejecting(q)] # NoRequest
        BY <2>2, <2>3, <2>5, KeyFacts
    <2>7. PICK p \in Payment : p = k.of
        BY KeyFacts
    <2>8. CASE k = Cancelling(p)
        <3>1. /\ card.status \in Frozen
              /\ card' \in Card /\ card'.amount = card.amount /\ card'.closed = card.closed
              /\ card'.status \in Frozen /\ CancellationSound'
              /\ card'.remaining = card.remaining \/ card'.remaining = 0
              /\ UNCHANGED checkout
            BY <1>7, <2>1, <2>8, ConcludeFacts
        <3>2. /\ card.remaining \in Nat /\ card.remaining <= card.amount /\ card.amount \in Nat
              /\ Spent \in Nat /\ Collected \in Nat /\ Returned \in Nat
              /\ Spent + card.remaining <= Collected /\ Spent + Returned <= Collected
            BY MoneyType, MoneyOutIs DEF IInv, TypeOK, CardInv, Balance
        <3>3. Returned' = Returned
            BY <2>6, KeyFacts, ReturnedSame DEF IInv
        <3>4. /\ Credited' = Credited /\ Collected' = Collected /\ Spent' = Spent
              /\ Open' = Open
            BY <1>3, <3>1 DEF Credited, Collected, Spent, Open
        <3>5. card'.remaining <= card.remaining
            BY <3>1, <3>2
        <3>6. OnePurchase' /\ UncreditedClean'
            BY <1>3, <3>1, <3>4 DEF OnePurchase, UncreditedClean, IInv, CardInv, Frozen
        <3>7. Unspent'
            <4>1. card'.status # "NONE"
                BY <3>1 DEF Frozen
            <4>2. card'.remaining \in Nat
                BY <3>1, <3>2
            <4> QED BY <1>3, <3>1, <3>2, <3>4, <3>5, <4>1, <4>2 DEF IInv, CardInv, Unspent
        <3>8. Balance' /\ LedgerBalances' /\ MoneyOut'
            BY <3>1, <3>2, <3>3, <3>4, <3>5, MoneyPrimed
        <3>9. CardInv'
            BY <3>1, <3>6, <3>7, <3>8 DEF CardInv
        <3>10. /\ card'.remaining <= card'.amount /\ checkout' \in [Payment -> CheckoutStatus]
               /\ \A q \in Payment : entry'[q].credited => checkout'[q] # "NONE"
            BY <1>3, <3>1, <3>2, <3>5 DEF IInv, TypeOK, PaymentsPrepared
        <3> QED BY <1>3, <1>4, <1>5, <2>5, <2>6, <3>1, <3>9, <3>10, DbStep
    <2>9. CASE k = Rejecting(p)
        <3>1. /\ checkout' = CASE reply = "succeeded" -> [checkout EXCEPT ![p] = "REFUNDED"]
                               [] reply = "failed" -> [checkout EXCEPT ![p] = "REFUND_FAILED"]
                               [] OTHER -> checkout
              /\ UNCHANGED card
            BY <2>1, <2>7, <2>9, KeyFacts DEF Conclude
        <3>2. checkout' = checkout \/ checkout' = [checkout EXCEPT ![p] = "REFUNDED"]
              \/ checkout' = [checkout EXCEPT ![p] = "REFUND_FAILED"]
            BY <3>1
        <3>3. checkout' \in [Payment -> CheckoutStatus]
            BY <3>2 DEF IInv, TypeOK, CheckoutStatus
        <3>4. \A q \in Payment : q # p => checkout'[q] = checkout[q]
            BY <3>2 DEF IInv, TypeOK
        <3>5. checkout[p] # "NONE" => checkout'[p] # "NONE"
            BY <3>2 DEF IInv, TypeOK
        <3>6. checkout[p] # "NONE"
            BY <2>2, <2>9 DEF IInv, RejectedPrepared
        <3>7. \A q \in Payment : (checkout'[q] # "NONE") <=> (checkout[q] # "NONE")
            BY <3>4, <3>5, <3>6
        <3>8. \A q \in Payment : request'[Cancelling(q)] = request[Cancelling(q)]
            BY <2>5, <2>9, KeyFacts
        <3>9. CardInv'
            BY <1>3, <3>1, <3>7, <3>8, OnlyOneCheckout, CardRest
        <3>10. /\ card' \in Card /\ card'.remaining <= card'.amount
               /\ \A q \in Payment : entry'[q].credited => checkout'[q] # "NONE"
            BY <1>3, <3>1, <3>7 DEF IInv, TypeOK, PaymentsPrepared
        <3> QED BY <1>3, <1>4, <1>5, <2>5, <2>6, <3>3, <3>7, <3>9, <3>10, DbStep
    <2> QED BY <2>7, <2>8, <2>9, KeyFacts
<1> QED BY <1>6, <1>7

LEMMA ReconcileStep ==
    ASSUME GiftCardAssumption, IInv, NEW h \in Process, reconcilePayment(h)
    PROVE  IInv'
<1>1. PICK p \in Payment : p = proc[h].of
    BY ExecutionIs DEF reconcilePayment, IInv, TypeOK, Reconciliation
<1>2. /\ UNCHANGED <<kind, request, redeemed, stripe, refund, event, late, outside, failures>>
      /\ undone' \subseteq Payment
      /\ proc' = [proc EXCEPT ![h] = Requests({k \in Unfinished : k.of = p}, {p})]
    BY <1>1 DEF reconcilePayment, IInv, TypeOK
<1>3. PICK e \in Execution : e.pc # "fulfil" /\ proc' = [proc EXCEPT ![h] = e]
    BY <1>2, RequestsType DEF Unfinished
<1>4. /\ request' \in [Key -> Request]
      /\ redeemed' \in [Bill -> Nat] /\ \A b \in Bill : redeemed'[b] <= Total[b]
    BY <1>2 DEF IInv, TypeOK
<1>5. card \in Card /\ card.remaining \in Nat /\ card.amount \in Nat /\ card.remaining <= card.amount
    BY MoneyType DEF IInv, TypeOK
<1>6. CASE p \notin Credited
    <2>1. /\ UNCHANGED <<entry, card>>
          /\ checkout' = IF checkout[p] \in {"OPEN", "PAYMENT_REVIEW"}
                         THEN [checkout EXCEPT ![p] =
                                 IF proc[h].review THEN "PAYMENT_REVIEW" ELSE "OPEN"]
                         ELSE checkout
        BY <1>1, <1>6 DEF reconcilePayment
    <2>2. \/ checkout' = checkout
          \/ /\ checkout[p] # "NONE"
             /\ \E s \in {"PAYMENT_REVIEW", "OPEN"} : checkout' = [checkout EXCEPT ![p] = s]
        BY <2>1
    <2>3. checkout' \in [Payment -> CheckoutStatus]
        BY <2>2 DEF IInv, TypeOK, CheckoutStatus
    <2>4. \A q \in Payment : (checkout'[q] # "NONE") <=> (checkout[q] # "NONE")
        BY <2>2 DEF IInv, TypeOK
    <2>5. CardInv'
        BY <1>2, <2>1, <2>4, OnlyOneCheckout, CardRest
    <2>6. /\ card' \in Card /\ card'.remaining <= card'.amount /\ entry' \in [Payment -> Entry]
          /\ \A q \in Payment : entry'[q].credited => checkout'[q] # "NONE"
          /\ \A q \in Payment : entry'[q].refunded <= stripe[q].refunded
        BY <2>1, <2>4 DEF IInv, TypeOK, PaymentsPrepared, StripeSound
    <2> QED BY <1>2, <1>3, <1>4, <2>3, <2>4, <2>5, <2>6, DbStep
<1>7. CASE p \in Credited
    <2>1. PICK d \in Nat : d = NewlyRefunded(p) /\ d = stripe[p].refunded - entry[p].refunded
        <3>1. /\ stripe[p].refunded \in Nat /\ entry[p].refunded \in Nat
              /\ entry[p].refunded <= stripe[p].refunded
            BY GivenBackFacts, MoneyType DEF IInv, StripeSound
        <3>2. stripe[p].refunded - entry[p].refunded \in Nat
            BY <3>1
        <3>3. NewlyRefunded(p) = stripe[p].refunded - entry[p].refunded
            BY <3>1, <3>2, FloorFacts DEF NewlyRefunded
        <3> QED BY <3>2, <3>3
    <2>2. /\ entry' = [entry EXCEPT ![p] = [entry[p] EXCEPT !.refunded = entry[p].refunded + d,
                                                            !.pending = PendingRefund(p)]]
          /\ card' = IF HandsOff THEN card
                     ELSE [card EXCEPT !.remaining = BalanceAfter(d),
                             !.status = StatusAfter(p, d, BalanceAfter(d)),
                             !.payment = PaymentAfter(p)]
          /\ UNCHANGED checkout
        BY <1>1, <1>7, <2>1 DEF reconcilePayment
    <2>3. PICK pending \in BOOLEAN : pending = PendingRefund(p)
        BY DEF PendingRefund
    <2>4. /\ Credited' = Credited
          /\ entry' \in [Payment -> Entry]
          /\ \A q \in Payment : entry'[q].refunded =
                 IF q = p THEN entry[q].refunded + d ELSE entry[q].refunded
          /\ \A q \in Payment : entry'[q].credited = entry[q].credited
          /\ Collected' = Collected /\ KnownRefunds' = KnownRefunds + d /\ UncreditedClean'
        BY <1>7, <2>2, <2>3, RefundKnownStep DEF IInv, CardInv
    <2>5. /\ Spent' = Spent /\ Returned' = Returned
          /\ \A q \in Payment : (Cancelling(q) \in Unfinished') = (Cancelling(q) \in Unfinished)
        BY <1>2, ReturnedSame DEF IInv, Spent, Unfinished
    <2>6. /\ Spent \in Nat /\ Collected \in Nat /\ KnownRefunds \in Nat /\ Returned \in Nat
          /\ Spent + card.remaining <= Collected /\ Spent + Returned <= Collected
        BY MoneyType, MoneyOutIs DEF IInv, CardInv, Balance
    <2>7. /\ \A q \in Payment : entry'[q].credited => checkout'[q] # "NONE"
          /\ checkout' \in [Payment -> CheckoutStatus]
        BY <2>2, <2>4 DEF IInv, TypeOK, PaymentsPrepared
    <2>8. \A q \in Payment : entry'[q].refunded <= stripe[q].refunded
        <3>1. entry[p].refunded + d = stripe[p].refunded
            BY <2>1, GivenBackFacts, MoneyType DEF IInv
        <3>2. stripe[p].refunded <= stripe[p].refunded
            BY GivenBackFacts DEF IInv
        <3> QED BY <2>4, <3>1, <3>2 DEF IInv, StripeSound
    <2>9. CASE HandsOff
        <3>1. card' = card /\ card.status \in Frozen
            BY <2>2, <2>9 DEF HandsOff
        <3>2. Open' = Open
            BY <1>2, <3>1 DEF Open
        <3>3. OnePurchase' /\ Unspent' /\ CancellationSound'
            BY <1>2, <2>2, <2>4, <2>5, <3>1, <3>2
               DEF IInv, CardInv, OnePurchase, Unspent, CancellationSound
        <3>4. Balance' /\ LedgerBalances' /\ MoneyOut'
            BY <2>4, <2>5, <2>6, <3>1, MoneyPrimed
        <3>5. CardInv'
            BY <2>4, <3>3, <3>4 DEF CardInv
        <3> QED BY <1>2, <1>3, <1>4, <1>5, <2>2, <2>4, <2>7, <2>8, <3>1, <3>5, DbStep
    <2>10. CASE ~HandsOff
        <3>1. card.status \notin Frozen /\ card.status # "NONE"
            BY <1>7, <2>10, Bounded DEF HandsOff, IInv, CardInv, OnePurchase
        <3>2. PICK status \in {"ACTIVE", "REDEEMED", "CANCELLED"} \union Review,
                   payment \in {"succeeded", "failed", "refunded", "partially_refunded", "disputed"} :
                  status = StatusAfter(p, d, BalanceAfter(d)) /\ payment = PaymentAfter(p)
            <4>1. card.status \in {"ACTIVE", "REDEEMED"} \union Review
                BY <1>5, <3>1 DEF Card
            <4>2. StatusAfter(p, d, BalanceAfter(d)) \in
                      {"ACTIVE", "REDEEMED", "CANCELLED"} \union Review
                BY <4>1 DEF StatusAfter, Review
            <4>3. PaymentAfter(p) \in
                      {"succeeded", "failed", "refunded", "partially_refunded", "disputed"}
                BY <1>5 DEF PaymentAfter, Card
            <4> QED BY <4>2, <4>3
        <3>3. PICK left \in Nat : /\ left = BalanceAfter(d) /\ left <= card.remaining
                                  /\ left > 0 => left = card.remaining - d
            <4>1. card.remaining - d \in Int
                BY <1>5
            <4>2. BalanceAfter(d) = IF card.remaining - d > 0 THEN card.remaining - d ELSE 0
                BY <4>1, FloorFacts DEF BalanceAfter
            <4>3. /\ BalanceAfter(d) \in Nat /\ BalanceAfter(d) <= card.remaining
                  /\ BalanceAfter(d) > 0 => BalanceAfter(d) = card.remaining - d
                BY <1>5, <4>2
            <4> QED BY <4>3
        <3>4. card' = [card EXCEPT !.remaining = left, !.status = status, !.payment = payment]
            BY <2>2, <2>10, <3>2, <3>3
        <3>5. /\ card' \in Card /\ card'.status = status /\ card'.remaining = left
              /\ card'.amount = card.amount /\ card'.closed = card.closed
            BY <1>5, <3>4 DEF Card, Review, Frozen
        <3>6. Returned = 0
            BY <3>1, NothingReturned DEF IInv, CardInv
        <3>7. Open' = Open /\ status # "NONE" /\ status # "REFUND_FAILED"
            BY <1>2, <3>5 DEF Open, Review
        <3>8. OnePurchase'
            BY <1>2, <2>2, <2>4, <3>1, <3>5, <3>7 DEF IInv, CardInv, OnePurchase
        <3>9. Unspent'
            BY <1>2, <1>5, <2>5, <3>3, <3>5, <3>7 DEF IInv, CardInv, Unspent
        <3>10. Balance' /\ LedgerBalances' /\ MoneyOut'
            <4>1. card.remaining > 0 => card.remaining = Collected - KnownRefunds - Spent
                BY <3>1 DEF IInv, CardInv, LedgerBalances
            <4> QED BY <1>5, <2>4, <2>5, <2>6, <3>3, <3>5, <3>6, <4>1, MoneyPrimed
        <3>11. CancellationSound'
            <4>1. \A q \in Payment : request'[Cancelling(q)] = NoRequest
                BY <1>2, <3>1 DEF IInv, CardInv, CancellationSound
            <4>2. \A q \in Payment : Cancelling(q) \notin Unfinished'
                BY <4>1, RequestFacts DEF Unfinished
            <4> QED BY <3>5, <3>7, <4>1, <4>2 DEF CancellationSound
        <3>12. CardInv'
            BY <2>4, <3>8, <3>9, <3>10, <3>11 DEF CardInv
        <3>13. card'.remaining <= card'.amount
            BY <1>5, <3>3, <3>5
        <3> QED BY <1>2, <1>3, <1>4, <2>2, <2>4, <2>7, <2>8, <3>5, <3>12, <3>13, DbStep
    <2> QED BY <2>9, <2>10
<1> QED BY <1>6, <1>7

(***************************************************************************)
(* The theorems                                                            *)
(***************************************************************************)
LEMMA InitIInv == ASSUME GiftCardAssumption, Init PROVE IInv
<1>1. /\ kind \in Kind /\ card \in Card /\ card.amount = 0 /\ card.remaining = 0
      /\ kind = "SINGLE" => card.status = "NONE"
      /\ kind # "SINGLE" => card.status = "ACTIVE"
    BY DEF Init, NewCard, Card
<1>2. /\ \A p \in Payment : entry[p].credited = FALSE /\ entry[p].refunded = 0
      /\ \A p \in Payment : stripe[p].refunded = 0 /\ stripe[p].outside = 0 /\ ~stripe[p].paid
      /\ \A k \in Key : request[k] = NoRequest /\ refund[k] = "none"
      /\ \A h \in Process : proc[h] = Idle
      /\ \A p \in Payment : checkout[p] = "NONE"
    BY DEF Init
<1>3. TypeOK
    <2>1. /\ entry \in [Payment -> Entry] /\ stripe \in [Payment -> StripePayment]
          /\ checkout \in [Payment -> CheckoutStatus]
        BY DEF Init, Entry, StripePayment, CheckoutStatus
    <2>2. /\ request \in [Key -> Request] /\ proc \in [Process -> Execution]
          /\ refund \in [Key -> {"none", "pending"} \union Finished]
        BY RequestFacts, ExecutionTypes DEF Init
    <2>3. redeemed \in [Bill -> Nat] /\ \A b \in Bill : redeemed[b] <= Total[b]
        BY DEF Init, GiftCardAssumption
    <2>4. outside \in 0..MaxLoad[kind] /\ failures \in 0..MaxLoad[kind]
        BY <1>1 DEF Init, GiftCardAssumption
    <2>5. late \in BOOLEAN /\ event \subseteq Payment /\ undone \subseteq Payment
        BY DEF Init
    <2> QED BY <1>1, <2>1, <2>2, <2>3, <2>4, <2>5 DEF TypeOK
<1>4. StripeSound
    <2>1. \A p \in Payment : GivenBack(p) = 0
        BY <1>2, KeyFacts DEF GivenBack, PendingCents
    <2> QED BY <1>2, <2>1 DEF StripeSound, GiftCardAssumption
<1>5. RefundsAsked /\ PaymentsPrepared /\ RejectedPrepared
    BY <1>2, ExecutionTypes, KeyFacts DEF RefundsAsked, PaymentsPrepared, RejectedPrepared
<1>6. Credited = {}
    BY <1>2 DEF Credited
<1>7. Collected = 0 /\ KnownRefunds = 0
    BY <1>6, NothingCollected
<1>8. Spent = 0
    <2>1. \A b \in Bill : redeemed[b] = 0
        BY DEF Init
    <2> QED BY <2>1, SumOfZeros, CentsSum DEF Spent, GiftCardAssumption
<1>9. card.status \notin Frozen
    BY <1>1 DEF Frozen
<1>10. CancellationSound
    BY <1>2, <1>9, KeyFacts DEF CancellationSound, Frozen
<1>11. Returned = 0
    BY <1>3, <1>9, <1>10, NothingReturned
<1>12. OnePurchase /\ UncreditedClean /\ Unspent
    BY <1>1, <1>2, <1>6, <1>8 DEF OnePurchase, UncreditedClean, Unspent
<1>13. Balance /\ LedgerBalances /\ MoneyOut
    <2>1. card.remaining = 0
        BY <1>1
    <2>2. Balance
        BY ONLY <2>1, <1>7, <1>8 DEF Balance
    <2>3. LedgerBalances
        BY ONLY <2>1 DEF LedgerBalances
    <2>4. Spent + Returned <= Collected
        BY ONLY <1>7, <1>8, <1>11
    <2> QED BY <2>2, <2>3, <2>4, MoneyOutIs
<1> QED BY <1>3, <1>4, <1>5, <1>10, <1>12, <1>13 DEF IInv, CardInv

LEMMA StutterStep == ASSUME GiftCardAssumption, IInv, UNCHANGED vars PROVE IInv'
<1>1. UNCHANGED <<kind, db, stripe, refund>> /\ UNCHANGED <<event, proc, late, undone, outside, failures>>
    BY DEF vars
<1> QED BY <1>1, ControlStep DEF IInv, TypeOK

LEMMA NextIInv == ASSUME GiftCardAssumption, IInv, [Next]_vars PROVE IInv'
<1>1. ASSUME NEW p \in Payment,
             \/ AtStripe(p) \/ Prepare(p)
             \/ \E h \in Process : BeginFulfil(h, p) \/ BeginReconcile(h, p)
      PROVE  IInv'
    BY <1>1, StripeStep, PrepareStep, BeginFulfilStep, BeginReconcileStep
<1>2. ASSUME NEW b \in Bill, debit(b) \/ \E h \in Handler : validateCode(h, b)
      PROVE  IInv'
    BY <1>2, DebitStep, ValidateStep DEF Process
<1>3. ASSUME NEW h \in Process, Go(h) \/ ReadPaymentFailed(h) \/ AfterCancel(h) \/ Fail(h)
      PROVE  IInv'
    BY <1>3, PurchaseStep, ContributeStep, ApplyStep, CallStripeStep, StoreStep, ReconcileStep,
       PaymentFailedStep, ReadFailedStep, TakeUpStep, FailStep DEF Go
<1>4. CASE closeCrowdfunding \/ cancel \/ Scan \/ DeadlinePasses
    BY <1>4, CloseStep, CancelStep, TakeUpStep, DeadlineStep
<1> QED BY <1>1, <1>2, <1>3, <1>4, StutterStep DEF Next

THEOREM InvariantHolds == Spec => []IInv
BY InitIInv, NextIInv, GiftCardAssumption, PTL DEF Spec


\* No step takes a card out of these statuses or spends from it, and only the
\* outcome of its refunds changes the status.
LEMMA FrozenStep ==
    ASSUME GiftCardAssumption, IInv, [Next]_vars, card.status \in Frozen
    PROVE  /\ card'.status \in Frozen /\ redeemed' = redeemed
           /\ card.status # "REFUND_PENDING" => card'.status = card.status
<1>1. card.status \notin {"NONE", "ACTIVE"} /\ card \in Card
    BY DEF Frozen, IInv, TypeOK
<1>2. CASE UNCHANGED <<card, redeemed>>
    BY <1>2
<1>3. ASSUME NEW h \in Process, purchaseWithPayment(h)
      PROVE  UNCHANGED <<card, redeemed>>
    <2>1. PICK p \in Payment : p = proc[h].of /\ checkout[p] # "NONE"
        BY <1>3, FulfilmentOf DEF purchaseWithPayment
    <2>2. kind = "SINGLE" /\ UNCHANGED redeemed
          /\ card' = IF StatusAllows(p) /\ ~entry[p].credited THEN NewCard(Price[p]) ELSE card
        BY <1>3, <2>1 DEF purchaseWithPayment
    <2>3. entry[p].credited
        BY <1>1, <2>1, <2>2, FirstPurchase
    <2> QED BY <2>2, <2>3
<1>4. ASSUME NEW h \in Process, contribute(h) \/ applyToReservation(h) \/ CallStripe(h)
      PROVE  UNCHANGED <<card, redeemed>>
    BY <1>1, <1>4 DEF contribute, applyToReservation, StillSpendable, CallStripe, db
<1>5. ASSUME NEW h \in Process, StoreRefund(h)
      PROVE  /\ card'.status \in Frozen /\ UNCHANGED redeemed
             /\ card.status # "REFUND_PENDING" => card'.status = card.status
    <2>1. proc[h] \in Store
        BY <1>5, ExecutionIs DEF StoreRefund, IInv, TypeOK
    <2>2. PICK k \in Key, reply \in {"pending"} \union Finished :
              k = proc[h].key /\ reply = proc[h].reply
        BY <2>1 DEF Store
    <2>3. UNCHANGED redeemed
        BY <1>5 DEF StoreRefund
    <2>4. CASE k \notin Unfinished
        BY <1>5, <2>2, <2>3, <2>4 DEF StoreRefund
    <2>5. CASE k \in Unfinished
        <3>1. request' = [request EXCEPT ![k].status = reply] /\ Conclude(k, reply)
            BY <1>5, <2>2, <2>5 DEF StoreRefund
        <3>2. PICK p \in Payment : k = Cancelling(p) \/ k = Rejecting(p)
            BY KeyFacts
        <3>3. CASE k = Cancelling(p)
            BY <2>3, <2>5, <3>1, <3>3, ConcludeFacts DEF Frozen
        <3>4. CASE k = Rejecting(p)
            BY <2>3, <3>1, <3>4, KeyFacts DEF Conclude
        <3> QED BY <3>2, <3>3, <3>4
    <2> QED BY <2>4, <2>5
<1>6. ASSUME NEW h \in Process, reconcilePayment(h)
      PROVE  UNCHANGED <<card, redeemed>>
    BY <1>6 DEF reconcilePayment, HandsOff
<1>7. ASSUME NEW p \in Payment,
             \/ AtStripe(p) \/ Prepare(p)
             \/ \E h \in Process : BeginFulfil(h, p) \/ BeginReconcile(h, p)
      PROVE  UNCHANGED <<card, redeemed>>
    BY <1>7 DEF AtStripe, Pay, OutsideRefund, OutsideSettles, Dispute, RefundSettles, Prepare,
                BeginFulfil, BeginReconcile, db
<1>8. ASSUME NEW b \in Bill, debit(b) \/ \E h \in Handler : validateCode(h, b)
      PROVE  UNCHANGED <<card, redeemed>>
    BY <1>1, <1>8 DEF debit, validateCode, db
<1>9. ASSUME NEW h \in Process, ReadPaymentFailed(h) \/ AfterCancel(h) \/ Fail(h)
      PROVE  UNCHANGED <<card, redeemed>>
    BY <1>9 DEF ReadPaymentFailed, AfterCancel, Fail, db
<1>10. CASE closeCrowdfunding \/ cancel \/ Scan \/ DeadlinePasses
    BY <1>1, <1>10 DEF closeCrowdfunding, Closable, cancel, Scan, DeadlinePasses, db
<1>11. ASSUME NEW h \in Process, handlePaymentFailed(h)
       PROVE  card'.status = card.status /\ UNCHANGED redeemed
    BY <1>1, <1>11 DEF handlePaymentFailed, Card
<1>12. CASE UNCHANGED vars
    BY <1>12 DEF vars, db
<1> QED BY <1>3, <1>4, <1>5, <1>6, <1>7, <1>8, <1>9, <1>10, <1>11, <1>12 DEF Next, Go

(***************************************************************************)
(* What Stripe did is known, or somebody is about to be told               *)
(***************************************************************************)
Told(p) == p \in event \/ \E h \in Process : proc[h].pc = "reconcile" /\ proc[h].of = p

\* An event waits, or an execution is about to put the checkout in review.
Warned(p) ==
    p \in event \/ \E h \in Process : /\ proc[h].pc = "reconcile" /\ proc[h].of = p
                                       /\ proc[h].review

Known(p) ==
    /\ entry[p].refunded = stripe[p].refunded
    /\ stripe[p].disputed \/ PendingRefund(p) => card.status # "ACTIVE"

Prepared(p) == Suspect(p) \/ request[Cancelling(p)] # NoRequest => checkout[p] # "NONE"

Story(p) ==
    /\ entry[p].credited => Known(p) \/ Told(p) \/ p \in undone
    /\ ~entry[p].credited /\ checkout[p] = "OPEN" /\ Suspect(p) => Warned(p) \/ p \in undone
    /\ checkout[p] = "FULFILLED" => entry[p].credited
    /\ Prepared(p)

StoriesTold == kind = "SINGLE" => \A p \in Payment : Story(p)

StripeSame(p) ==
    /\ stripe'[p] = stripe[p]
    /\ \A k \in Key : k.of = p => (refund'[k] = "pending") = (refund[k] = "pending")

LEMMA SuspectSame ==
    ASSUME NEW p \in Payment, StripeSame(p)
    PROVE  /\ PendingRefund(p)' = PendingRefund(p) /\ Suspect(p)' = Suspect(p)
           /\ stripe'[p] = stripe[p]
<1>1. Pending(p)' = Pending(p)
    BY DEF StripeSame, Pending
<1>2. PendingRefund(p)' = PendingRefund(p)
    BY <1>1 DEF StripeSame, PendingRefund
<1> QED BY <1>2 DEF StripeSame, Suspect

\* A step that tells of what it changes at Stripe, and neither credits the
\* payment nor makes the card usable.
LEMMA StoryKept ==
    ASSUME NEW p \in Payment, Story(p),
           StripeSame(p) \/ p \in event',
           event \subseteq event', UNCHANGED undone,
           \A h \in Process : /\ proc[h].pc = "reconcile" => proc'[h] = proc[h]
                              /\ proc'[h].pc = "reconcile" => proc'[h] = proc[h],
           entry'[p] = entry[p],
           checkout'[p] \in {"OPEN", "FULFILLED"} => checkout'[p] = checkout[p],
           card'.status = "ACTIVE" => card.status = "ACTIVE",
           Prepared(p)'
    PROVE  Story(p)'
<1>1. (Told(p) => Told(p)') /\ (Warned(p) => Warned(p)')
    BY DEF Told, Warned
<1>2. CASE p \in event'
    <2>1. Told(p)' /\ Warned(p)'
        BY <1>2 DEF Told, Warned
    <2> QED BY <2>1 DEF Story
<1>3. CASE StripeSame(p) /\ p \notin event'
    <2>1. /\ PendingRefund(p)' = PendingRefund(p) /\ Suspect(p)' = Suspect(p)
          /\ stripe'[p] = stripe[p]
        BY <1>3, SuspectSame
    <2>2. Known(p) => Known(p)'
        BY <2>1 DEF Known
    <2> QED BY <1>1, <2>1, <2>2 DEF Story
<1> QED BY <1>2, <1>3

\* No reconciliation begins or ends, and the one execution that moves is none.
LEMMA OthersKept ==
    ASSUME TypeOK, NEW h \in Process, NEW e \in Execution, e.pc # "reconcile",
           proc[h].pc # "reconcile", proc' = [proc EXCEPT ![h] = e]
    PROVE  \A g \in Process : /\ proc[g].pc = "reconcile" => proc'[g] = proc[g]
                              /\ proc'[g].pc = "reconcile" => proc'[g] = proc[g]
BY DEF TypeOK

LEMMA PreparedSame ==
    ASSUME NEW p \in Payment, Prepared(p), StripeSame(p),
           request'[Cancelling(p)] # NoRequest => request[Cancelling(p)] # NoRequest,
           checkout[p] # "NONE" => checkout'[p] # "NONE"
    PROVE  Prepared(p)'
<1>1. Suspect(p)' = Suspect(p)
    BY SuspectSame
<1> QED BY <1>1 DEF Prepared

LEMMA StoryAtStripe ==
    ASSUME IInv, NEW q \in Payment, AtStripe(q), NEW p \in Payment, Story(p)
    PROVE  Story(p)'
<1>1. UNCHANGED <<card, checkout, entry, request, proc, undone>>
    BY DEF AtStripe, Pay, OutsideRefund, OutsideSettles, Dispute, RefundSettles, db
<1>2. event \subseteq event'
    BY DEF AtStripe, Pay, OutsideRefund, OutsideSettles, Dispute, RefundSettles
<1>3. ASSUME Story(q) PROVE checkout[q] # "NONE"
    <2>1. CASE Pay(q)
        BY <2>1 DEF Pay
    <2>2. CASE OutsideRefund(q) \/ Dispute(q)
        BY <2>2 DEF OutsideRefund, Dispute, IInv, PaymentsPrepared
    <2>3. CASE OutsideSettles(q) \/ RefundSettles(q)
        BY <1>3, <2>3 DEF OutsideSettles, RefundSettles, Story, Prepared, Suspect, PendingRefund
    <2> QED BY <2>1, <2>2, <2>3 DEF AtStripe
<1>4. CASE p # q
    <2>1. stripe'[p] = stripe[p]
        BY <1>4 DEF AtStripe, Pay, OutsideRefund, OutsideSettles, Dispute, RefundSettles, IInv, TypeOK
    <2>2. \A k \in Key : k.of = p => refund'[k] = refund[k]
        BY <1>4 DEF AtStripe, Pay, OutsideRefund, OutsideSettles, Dispute, RefundSettles, Pending,
                    IInv, TypeOK
    <2>3. StripeSame(p)
        BY <2>1, <2>2 DEF StripeSame
    <2> QED BY <1>1, <1>2, <2>3, PreparedSame, StoryKept DEF Story
<1>5. CASE p = q /\ ~Pay(q)
    <2>1. p \in event'
        BY <1>5 DEF AtStripe, OutsideRefund, OutsideSettles, Dispute, RefundSettles
    <2>2. Prepared(p)'
        BY <1>1, <1>3, <1>5 DEF Prepared
    <2> QED BY <1>1, <1>2, <2>1, <2>2, StoryKept
<1>6. CASE p = q /\ Pay(q)
    <2>1. /\ UNCHANGED <<refund, event>>
          /\ stripe'[p] = [stripe[p] EXCEPT !.paid = TRUE] /\ stripe[p] \in StripePayment
        BY <1>6 DEF Pay, IInv, TypeOK
    <2>2. /\ stripe'[p].refunded = stripe[p].refunded /\ stripe'[p].outside = stripe[p].outside
          /\ stripe'[p].disputed = stripe[p].disputed
        BY <2>1 DEF StripePayment
    <2>3. Pending(p)' = Pending(p)
        BY <2>1 DEF Pending
    <2>4. PendingRefund(p)' = PendingRefund(p)
        BY <2>2, <2>3 DEF PendingRefund
    <2>5. Suspect(p)' = Suspect(p)
        BY <2>2, <2>4 DEF Suspect
    <2>6. /\ Known(p)' = Known(p) /\ Prepared(p)' = Prepared(p)
          /\ Told(p)' = Told(p) /\ Warned(p)' = Warned(p)
        BY <1>1, <2>1, <2>2, <2>4, <2>5 DEF Known, Prepared, Told, Warned
    <2> QED BY <1>1, <2>5, <2>6 DEF Story
<1> QED BY <1>4, <1>5, <1>6

LEMMA StoryCalling ==
    ASSUME IInv, NEW h \in Process, CallStripe(h), NEW p \in Payment, Story(p)
    PROVE  Story(p)'
<1>1. UNCHANGED <<card, checkout, entry, request, undone>>
    BY DEF CallStripe, db
<1>2. proc[h] \in Requesting
    BY ExecutionIs DEF CallStripe, IInv, TypeOK
<1>3. proc[h].events \in SUBSET Payment /\ proc[h].pc # "reconcile"
    BY <1>2 DEF Requesting, CallStripe
<1>4. ASSUME NEW e \in Execution, e.pc # "reconcile", proc' = [proc EXCEPT ![h] = e],
             event \subseteq event',
             \/ UNCHANGED <<stripe, refund>>
             \/ p \in event' /\ \E k \in Unfinished : k.of = p
             \/ StripeSame(p)
      PROVE  Story(p)'
    <2>1. \A g \in Process : /\ proc[g].pc = "reconcile" => proc'[g] = proc[g]
                             /\ proc'[g].pc = "reconcile" => proc'[g] = proc[g]
        BY <1>3, <1>4, OthersKept DEF IInv
    <2>2. CASE StripeSame(p)
        BY <1>1, <1>4, <2>1, <2>2, PreparedSame, StoryKept DEF Story
    <2>3. ASSUME NEW k \in Unfinished, k.of = p, p \in event'
          PROVE  Story(p)'
        <3>1. k \in Key /\ request[k] # NoRequest
            BY RequestFacts DEF Unfinished
        <3>2. checkout[p] # "NONE"
            BY <2>3, <3>1, KeyFacts DEF Story, Prepared, IInv, RejectedPrepared
        <3>3. Prepared(p)'
            BY <1>1, <3>2 DEF Prepared
        <3> QED BY <1>1, <1>4, <2>1, <2>3, <3>3, StoryKept
    <2>4. UNCHANGED <<stripe, refund>> => StripeSame(p)
        BY DEF StripeSame
    <2> QED BY <1>4, <2>2, <2>3, <2>4
<1>5. CASE UNCHANGED <<stripe, refund, event>> /\ proc' = [proc EXCEPT ![h] = Idle]
    BY <1>4, <1>5, ExecutionTypes
<1>6. ASSUME NEW k \in proc[h].todo \intersect Unfinished, Ask(h, k)
      PROVE  Story(p)'
    <2>1. PICK rest \in SUBSET Key : rest = (proc[h].todo \intersect Unfinished) \ {k}
        BY DEF Unfinished
    <2>2. k \in Unfinished /\ k \in Key
        BY DEF Unfinished
    <2>3. ASSUME NEW reply \in {"pending"} \union Finished,
                 IF request[k].status = "REQUESTED" THEN createRefund(k, reply)
                 ELSE reply = refund[k] /\ UNCHANGED <<stripe, refund, event>>,
                 proc' = [proc EXCEPT ![h] = Storing(k, reply, rest, proc[h].events)]
          PROVE  Story(p)'
        <3>1. /\ Storing(k, reply, rest, proc[h].events) \in Execution
              /\ Storing(k, reply, rest, proc[h].events).pc = "store"
            BY <1>3, <2>2, ExecutionTypes
        <3>2. CASE UNCHANGED <<stripe, refund, event>>
            BY <1>4, <2>3, <3>1, <3>2
        <3>3. CASE /\ refund' = [refund EXCEPT ![k] = reply]
                   /\ stripe' = IF reply = "succeeded"
                                THEN [stripe EXCEPT ![k.of].refunded = @ + request[k].cents]
                                ELSE stripe
                   /\ event' = event \union {k.of}
            <4>1. CASE p = k.of
                BY <1>4, <2>2, <2>3, <3>1, <3>3, <4>1
            <4>2. CASE p # k.of
                <5>1. stripe'[p] = stripe[p] /\ \A j \in Key : j.of = p => refund'[j] = refund[j]
                    BY <2>2, <3>3, <4>2, KeyFacts DEF IInv, TypeOK
                <5>2. StripeSame(p)
                    BY <5>1 DEF StripeSame
                <5> QED BY <1>4, <2>3, <3>1, <3>3, <5>2
            <4> QED BY <4>1, <4>2
        <3> QED BY <2>3, <3>2, <3>3 DEF createRefund
    <2>4. CASE /\ proc' = [proc EXCEPT ![h] = IF h = Finance THEN Requests(rest, proc[h].events)
                                              ELSE Idle]
               /\ event' = event \union proc[h].events
               /\ UNCHANGED <<stripe, refund>>
        <3>1. /\ Requests(rest, proc[h].events) \in Execution
              /\ Requests(rest, proc[h].events).pc # "reconcile"
            BY <1>3, RequestsType DEF Requests, Idle
        <3>2. PICK e \in Execution : e.pc # "reconcile" /\ proc' = [proc EXCEPT ![h] = e]
            <4>1. CASE h = Finance
                BY <2>4, <3>1, <4>1
            <4>2. CASE h # Finance
                BY <2>4, <4>2, ExecutionTypes
            <4> QED BY <4>1, <4>2
        <3> QED BY <1>4, <2>4, <3>2
    <2>5. CASE \E reply \in {"pending"} \union Finished :
                   /\ IF request[k].status = "REQUESTED" THEN createRefund(k, reply)
                      ELSE reply = refund[k] /\ UNCHANGED <<stripe, refund, event>>
                   /\ proc' = [proc EXCEPT ![h] =
                                 Storing(k, reply, (proc[h].todo \intersect Unfinished) \ {k},
                                         proc[h].events)]
        <3>1. PICK reply \in {"pending"} \union Finished :
                   /\ IF request[k].status = "REQUESTED" THEN createRefund(k, reply)
                      ELSE reply = refund[k] /\ UNCHANGED <<stripe, refund, event>>
                   /\ proc' = [proc EXCEPT ![h] = Storing(k, reply, rest, proc[h].events)]
            BY <2>1, <2>5
        <3> QED BY <2>3, <3>1
    <2> QED BY <1>6, <2>1, <2>4, <2>5 DEF Ask
<1> QED BY <1>5, <1>6 DEF CallStripe

LEMMA StoryMoving ==
    ASSUME IInv, NEW p \in Payment, Story(p), UNCHANGED <<db, stripe, refund, undone>>,
           event \subseteq event', NEW h \in Process, NEW e \in Execution, e.pc # "reconcile",
           proc[h].pc # "reconcile", proc' = [proc EXCEPT ![h] = e]
    PROVE  Story(p)'
<1>1. UNCHANGED <<card, checkout, entry, request>>
    BY DEF db
<1>2. StripeSame(p)
    BY DEF StripeSame
<1>3. \A g \in Process : /\ proc[g].pc = "reconcile" => proc'[g] = proc[g]
                         /\ proc'[g].pc = "reconcile" => proc'[g] = proc[g]
    BY OthersKept DEF IInv
<1> QED BY <1>1, <1>2, <1>3, PreparedSame, StoryKept DEF Story

LEMMA StoryUntouched ==
    ASSUME NEW p \in Payment, Story(p), UNCHANGED <<db, stripe, refund, event, proc, undone>>
    PROVE  Story(p)'
<1>1. UNCHANGED <<card, checkout, entry, request>>
    BY DEF db
<1>2. StripeSame(p)
    BY DEF StripeSame
<1> QED BY <1>1, <1>2, PreparedSame, StoryKept DEF Story

LEMMA StoryControl ==
    ASSUME IInv, NEW p \in Payment, Story(p),
           \/ \E h \in Process : \/ \E q \in Payment : BeginFulfil(h, q)
                                 \/ \E b \in Bill : validateCode(h, b)
                                 \/ ReadPaymentFailed(h) \/ AfterCancel(h) \/ Fail(h)
           \/ Scan \/ DeadlinePasses
    PROVE  Story(p)'
<1>1. ASSUME NEW h \in Process, NEW q \in Payment, BeginFulfil(h, q)
      PROVE  Story(p)'
    <2>1. stripe[q] \in StripePayment
        BY DEF IInv, TypeOK
    <2>2. Fulfilling(q) \in Execution /\ Fulfilling(q).pc = "fulfil"
        BY <2>1 DEF Fulfilling, Execution, Fulfilment, StripePayment
    <2> QED BY <1>1, <2>2, ExecutionTypes, StoryMoving DEF BeginFulfil
<1>2. ASSUME NEW h \in Process, NEW b \in Bill, validateCode(h, b)
      PROVE  Story(p)'
    BY <1>2, ExecutionTypes, StoryMoving DEF validateCode
<1>3. CASE Scan \/ \E h \in Process : AfterCancel(h)
    <2>1. PICK h \in Process, todo \in SUBSET Unfinished :
              proc[h] = Idle /\ proc' = [proc EXCEPT ![h] = Requests(todo, {})]
        BY <1>3 DEF Scan, AfterCancel, Process
    <2>2. Requests(todo, {}) \in Execution /\ Requests(todo, {}).pc # "reconcile"
        BY RequestsType DEF Unfinished, Requests, Idle
    <2>3. UNCHANGED <<db, stripe, refund, event, undone>>
        BY <1>3 DEF Scan, AfterCancel
    <2> QED BY <2>1, <2>2, <2>3, ExecutionTypes, StoryMoving
<1>4. ASSUME NEW h \in Process, Fail(h)
      PROVE  Story(p)'
    BY <1>4, ExecutionTypes, StoryMoving DEF Fail
<1>5. CASE DeadlinePasses
    BY <1>5, StoryUntouched DEF DeadlinePasses
<1>6. ASSUME NEW h \in Process, ReadPaymentFailed(h)
      PROVE  Story(p)'
    BY <1>6, ExecutionTypes, StoryMoving DEF ReadPaymentFailed
<1> QED BY <1>1, <1>2, <1>3, <1>4, <1>5, <1>6

\* The steps that only spend, freeze or correct the card, or store the outcome
\* of a refund.
LEMMA StoryWriting ==
    ASSUME IInv, kind = "SINGLE", NEW p \in Payment, Story(p),
           \/ \E b \in Bill : debit(b)
           \/ \E h \in Process : applyToReservation(h) \/ StoreRefund(h) \/ handlePaymentFailed(h)
           \/ cancel
    PROVE  Story(p)'
<1>1. UNCHANGED <<entry, stripe, refund, event, undone>>
    BY DEF debit, applyToReservation, StoreRefund, cancel, handlePaymentFailed
<1>2. \A g \in Process : /\ proc[g].pc = "reconcile" => proc'[g] = proc[g]
                         /\ proc'[g].pc = "reconcile" => proc'[g] = proc[g]
    <2>1. CASE UNCHANGED proc
        BY <2>1
    <2>2. ASSUME NEW h \in Process, applyToReservation(h) \/ handlePaymentFailed(h)
          PROVE  /\ proc[h].pc # "reconcile"
                 /\ \E e \in Execution : e.pc # "reconcile" /\ proc' = [proc EXCEPT ![h] = e]
        BY <2>2, ExecutionTypes DEF applyToReservation, handlePaymentFailed
    <2>3. ASSUME NEW h \in Process, StoreRefund(h)
          PROVE  /\ proc[h].pc # "reconcile"
                 /\ \E e \in Execution : e.pc # "reconcile" /\ proc' = [proc EXCEPT ![h] = e]
        <3>1. proc[h] \in Store /\ proc[h].pc = "store"
            BY <2>3, ExecutionIs DEF StoreRefund, IInv, TypeOK
        <3>2. /\ Requests(proc[h].todo, proc[h].events) \in Execution
              /\ Requests(proc[h].todo, proc[h].events).pc # "reconcile"
            BY <3>1, RequestsType DEF Store, Requests, Idle
        <3>3. proc' = [proc EXCEPT ![h] = Requests(proc[h].todo, proc[h].events)]
            BY <2>3 DEF StoreRefund
        <3> QED BY <3>1, <3>2, <3>3
    <2>4. \/ UNCHANGED proc
          \/ \E h \in Process : applyToReservation(h) \/ StoreRefund(h) \/ handlePaymentFailed(h)
        BY DEF debit, cancel
    <2> QED BY <2>1, <2>2, <2>3, <2>4, OthersKept DEF IInv
<1>3. /\ checkout'[p] \in {"OPEN", "FULFILLED"} => checkout'[p] = checkout[p]
      /\ checkout[p] # "NONE" => checkout'[p] # "NONE"
    <2>1. UNCHANGED checkout \/ \E h \in Process : StoreRefund(h)
        BY DEF debit, applyToReservation, cancel, handlePaymentFailed
    <2>2. ASSUME NEW h \in Process, StoreRefund(h)
          PROVE  \/ UNCHANGED checkout
                 \/ \E q \in Payment : \E s \in {"REFUNDED", "REFUND_FAILED"} :
                        checkout' = [checkout EXCEPT ![q] = s]
        <3>1. proc[h].key \in Key
            BY <2>2, ExecutionIs DEF StoreRefund, IInv, TypeOK, Store
        <3>2. proc[h].key.of \in Payment
            BY <3>1, KeyFacts
        <3> QED BY <2>2, <3>2 DEF StoreRefund, Conclude
    <2> QED BY <2>1, <2>2 DEF IInv, TypeOK
<1>4. card'.status = "ACTIVE" => card.status = "ACTIVE"
    <2>1. card \in Card
        BY DEF IInv, TypeOK
    <2>2. CASE \E b \in Bill : debit(b)
        BY <2>2 DEF debit
    <2>3. CASE \E h \in Process : applyToReservation(h)
        BY <2>3 DEF applyToReservation, StillSpendable
    <2>4. CASE \E h \in Process : StoreRefund(h)
        <3>1. \/ UNCHANGED card
              \/ card' = [card EXCEPT !.status = "REFUND_FAILED"]
              \/ card' = [card EXCEPT !.status = "CANCELLED", !.remaining = 0,
                                      !.payment = "refunded"]
            BY <2>4 DEF StoreRefund, Conclude
        <3> QED BY <2>1, <3>1 DEF Card
    <2>5. CASE cancel
        <3>1. \/ card' = [card EXCEPT !.status = "REFUND_PENDING"]
              \/ card' = [card EXCEPT !.status = "CANCELLED", !.remaining = 0]
            BY <2>5 DEF cancel
        <3> QED BY <2>1, <3>1 DEF Card
    <2>6. CASE \E h \in Process : handlePaymentFailed(h)
        BY <2>1, <2>6 DEF handlePaymentFailed, Card
    <2> QED BY <2>2, <2>3, <2>4, <2>5, <2>6
<1>5. request'[Cancelling(p)] # NoRequest =>
          request[Cancelling(p)] # NoRequest \/ checkout'[p] # "NONE"
    <2>1. CASE UNCHANGED request
        BY <2>1
    <2>2. CASE \E h \in Process : StoreRefund(h)
        <3>1. PICK h \in Process : StoreRefund(h)
            BY <2>2
        <3>2. proc[h].key \in Key /\ Cancelling(p) \in Key
            BY <3>1, ExecutionIs, KeyFacts DEF StoreRefund, IInv, TypeOK, Store
        <3>3. CASE proc[h].key \in Unfinished
            <4>1. request[proc[h].key] # NoRequest
                BY <3>3, RequestFacts DEF Unfinished
            <4>2. request' = [request EXCEPT ![proc[h].key].status = proc[h].reply]
                BY <3>1, <3>3 DEF StoreRefund
            <4> QED BY <3>2, <4>1, <4>2 DEF IInv, TypeOK
        <3>4. CASE proc[h].key \notin Unfinished
            BY <3>1, <3>4 DEF StoreRefund
        <3> QED BY <3>3, <3>4
    <2>3. CASE cancel
        <3>1. request'[Cancelling(p)] # request[Cancelling(p)] => Due(p) > 0
            BY <2>3, KeyFacts DEF cancel
        <3>2. Due(p) > 0 => entry[p].credited
            BY DEF Due, Credited
        <3> QED BY <1>3, <3>1, <3>2 DEF IInv, PaymentsPrepared
    <2> QED BY <2>1, <2>2, <2>3 DEF debit, applyToReservation, handlePaymentFailed
<1>6. StripeSame(p) /\ Suspect(p)' = Suspect(p)
    BY <1>1, SuspectSame DEF StripeSame
<1>7. Prepared(p)'
    BY <1>3, <1>5, <1>6 DEF Story, Prepared
<1> QED BY <1>1, <1>2, <1>3, <1>4, <1>6, <1>7, StoryKept

LEMMA StoryPrepare ==
    ASSUME IInv, NEW q \in Payment, Prepare(q), NEW p \in Payment, Story(p)
    PROVE  Story(p)'
<1>1. /\ UNCHANGED <<card, entry, request, stripe, refund, event, proc, undone>>
      /\ checkout[q] = "NONE" /\ checkout' = [checkout EXCEPT ![q] = "OPEN"]
    BY DEF Prepare
<1>2. StripeSame(p)
    BY <1>1 DEF StripeSame
<1>3. CASE p # q
    <2>1. checkout'[p] = checkout[p]
        BY <1>1, <1>3 DEF IInv, TypeOK
    <2> QED BY <1>1, <1>2, <2>1, PreparedSame, StoryKept DEF Story
<1>4. CASE p = q
    <2>1. ~entry[p].credited /\ ~Suspect(p) /\ checkout'[p] = "OPEN"
        BY <1>1, <1>4 DEF IInv, TypeOK, PaymentsPrepared, Story, Prepared
    <2>2. ~Suspect(p)'
        BY <1>2, <2>1, SuspectSame
    <2>3. Prepared(p)'
        BY <1>1, <1>2, <2>1, SuspectSame DEF Prepared, Story
    <2> QED BY <1>1, <2>1, <2>2, <2>3 DEF Story
<1> QED BY <1>3, <1>4

\* purchaseWithPayment finds the checkout open: either nothing happened at
\* Stripe since it was prepared, or the event is still to be handled.
LEMMA StoryPurchase ==
    ASSUME IInv, NEW h \in Process, purchaseWithPayment(h), NEW p \in Payment,
           StoriesTold
    PROVE  Story(p)'
<1>1. PICK q \in Payment : q = proc[h].of /\ checkout[q] # "NONE"
    BY FulfilmentOf DEF purchaseWithPayment
<1>2. /\ kind = "SINGLE" /\ proc[h].pc = "fulfil" /\ proc' = [proc EXCEPT ![h] = Idle]
      /\ UNCHANGED <<request, stripe, refund, event, undone>>
      /\ card' = IF StatusAllows(q) /\ ~entry[q].credited THEN NewCard(Price[q]) ELSE card
      /\ entry' = [entry EXCEPT ![q].credited = @ \/ (StatusAllows(q) /\ ~entry[q].credited)]
      /\ checkout' = IF StatusAllows(q) THEN [checkout EXCEPT ![q] = "FULFILLED"] ELSE checkout
    BY <1>1 DEF purchaseWithPayment
<1>3. Story(p) /\ Story(q) /\ StripeSame(p)
    BY <1>2 DEF StoriesTold, StripeSame
<1>4. \A g \in Process : /\ proc[g].pc = "reconcile" => proc'[g] = proc[g]
                         /\ proc'[g].pc = "reconcile" => proc'[g] = proc[g]
    BY <1>2, ExecutionTypes, OthersKept DEF IInv
<1>5. checkout[p] # "NONE" => checkout'[p] # "NONE"
    BY <1>2 DEF IInv, TypeOK
<1>6. Prepared(p)'
    BY <1>2, <1>3, <1>5, PreparedSame DEF Story
<1>7. Suspect(p)' = Suspect(p) /\ PendingRefund(p)' = PendingRefund(p) /\ stripe'[p] = stripe[p]
    BY <1>3, SuspectSame
<1>8. (Told(p) => Told(p)') /\ (Warned(p) => Warned(p)')
    BY <1>2, <1>4 DEF Told, Warned
<1>9. Warned(p) => Told(p)
    BY DEF Warned, Told
<1>10. CASE StatusAllows(q) /\ ~entry[q].credited
    <2>1. checkout[q] = "OPEN" /\ Credited = {}
        BY <1>1, <1>2, <1>3, <1>10, FirstPurchase DEF StatusAllows, Story
    <2>2. ~entry[p].credited /\ entry[p].refunded = 0
        BY <2>1 DEF Credited, IInv, CardInv, UncreditedClean
    <2>3. CASE p = q
        <3>1. entry[p] \in Entry
            BY DEF IInv, TypeOK
        <3>2. /\ entry'[p] = [entry[p] EXCEPT !.credited = entry[p].credited \/ TRUE]
              /\ checkout'[p] = "FULFILLED"
            BY <1>2, <1>10, <2>3 DEF IInv, TypeOK
        <3>3. entry'[p].credited /\ entry'[p].refunded = 0
            BY <2>2, <3>1, <3>2 DEF Entry
        <3>4. CASE Suspect(p)
            BY <1>2, <1>3, <1>6, <1>8, <1>9, <2>1, <2>2, <2>3, <3>2, <3>3, <3>4 DEF Story
        <3>5. CASE ~Suspect(p)
            <4>1. /\ ~stripe[p].disputed /\ ~PendingRefund(p) /\ ~(stripe[p].refunded > 0)
                  /\ stripe[p].refunded \in Nat
                BY <3>5, GivenBackFacts DEF Suspect, IInv
            <4>2. stripe'[p].refunded = 0 /\ ~stripe'[p].disputed /\ ~PendingRefund(p)'
                BY <1>7, <4>1
            <4>3. Known(p)'
                BY <3>3, <4>2 DEF Known
            <4> QED BY <1>6, <3>2, <3>3, <4>3 DEF Story
        <3> QED BY <3>4, <3>5
    <2>4. CASE p # q
        <3>1. entry'[p] = entry[p] /\ checkout'[p] = checkout[p]
            BY <1>2, <1>10, <2>4 DEF IInv, TypeOK
        <3> QED BY <1>2, <1>3, <1>6, <1>7, <1>8, <2>2, <3>1 DEF Story
    <2> QED BY <2>3, <2>4
<1>11. CASE ~(StatusAllows(q) /\ ~entry[q].credited)
    <2>1. card' = card
        BY <1>2, <1>11
    <2>2. entry' = entry
        <3>1. entry[q] \in Entry
            BY DEF IInv, TypeOK
        <3>2. entry'[q] = entry[q]
            BY <1>2, <1>11, <3>1 DEF IInv, TypeOK, Entry
        <3> QED BY <1>2, <3>2 DEF IInv, TypeOK
    <2>3. checkout'[p] = "OPEN" => checkout[p] = "OPEN"
        BY <1>2 DEF IInv, TypeOK
    <2>4. checkout'[p] = "FULFILLED" => entry[p].credited
        BY <1>2, <1>3, <1>11 DEF IInv, TypeOK, Story
    <2>5. Known(p)' = Known(p)
        BY <1>7, <2>1, <2>2 DEF Known
    <2> QED BY <1>2, <1>3, <1>6, <1>7, <1>8, <2>2, <2>3, <2>4, <2>5 DEF Story
<1> QED BY <1>10, <1>11

LEMMA StoryBegins ==
    ASSUME IInv, NEW h \in Process, NEW q \in Payment, BeginReconcile(h, q),
           NEW p \in Payment, Story(p)
    PROVE  Story(p)'
<1>1. /\ proc[h] = Idle /\ q \in event /\ event' = event \ {q}
      /\ proc' = [proc EXCEPT ![h] = Reconciling(q, Suspect(q))]
      /\ UNCHANGED <<card, checkout, entry, request, stripe, refund, undone>>
    BY DEF BeginReconcile, db
<1>2. StripeSame(p)
    BY <1>1 DEF StripeSame
<1>3. /\ Suspect(p)' = Suspect(p) /\ PendingRefund(p)' = PendingRefund(p)
      /\ stripe'[p] = stripe[p] /\ Prepared(p)'
    BY <1>1, <1>2, SuspectSame, PreparedSame DEF Story
<1>4. \A g \in Process : proc'[g] = IF g = h THEN Reconciling(q, Suspect(q)) ELSE proc[g]
    BY <1>1 DEF IInv, TypeOK
<1>5. Reconciling(q, Suspect(q)).pc = "reconcile" /\ Reconciling(q, Suspect(q)).of = q
      /\ Reconciling(q, Suspect(q)).review = Suspect(q)
    BY DEF Reconciling
<1>6. Told(p) => Told(p)'
    <2>1. CASE p = q
        BY <1>4, <1>5, <2>1 DEF Told
    <2>2. CASE p # q /\ p \in event
        BY <1>1, <2>2 DEF Told
    <2>3. ASSUME NEW g \in Process, proc[g].pc = "reconcile", proc[g].of = p
          PROVE  Told(p)'
        <3>1. g # h
            BY <1>1, <2>3, ExecutionTypes
        <3> QED BY <1>4, <2>3, <3>1 DEF Told
    <2> QED BY <2>1, <2>2, <2>3 DEF Told
<1>7. Warned(p) /\ Suspect(p) => Warned(p)'
    <2>1. CASE p = q /\ Suspect(p)
        BY <1>4, <1>5, <2>1 DEF Warned
    <2>2. CASE p # q /\ p \in event
        BY <1>1, <2>2 DEF Warned
    <2>3. ASSUME NEW g \in Process, proc[g].pc = "reconcile", proc[g].of = p, proc[g].review
          PROVE  Warned(p)'
        <3>1. g # h
            BY <1>1, <2>3, ExecutionTypes
        <3> QED BY <1>4, <2>3, <3>1 DEF Warned
    <2> QED BY <2>1, <2>2, <2>3 DEF Warned
<1>8. Known(p)' = Known(p)
    BY <1>1, <1>3 DEF Known
<1> QED BY <1>1, <1>3, <1>6, <1>7, <1>8 DEF Story

LEMMA ReviewStatus ==
    ASSUME NEW p, NEW delta, NEW remaining
    PROVE  /\ stripe[p].disputed => StatusAfter(p, delta, remaining) # "ACTIVE"
           /\ (\E q \in Credited : entry'[q].pending) =>
                  StatusAfter(p, delta, remaining) # "ACTIVE"
BY DEF StatusAfter

\* reconcilePayment reads Stripe again under the lock when the payment was
\* credited; otherwise it writes what it read, which may take a review back.
LEMMA StoryReconciles ==
    ASSUME GiftCardAssumption, IInv, NEW h \in Process, reconcilePayment(h), kind = "SINGLE",
           NEW p \in Payment, Story(p)
    PROVE  Story(p)'
<1>1. proc[h] \in Reconciliation
    BY ExecutionIs DEF reconcilePayment, IInv, TypeOK
<1>2. PICK q \in Payment : q = proc[h].of
    BY <1>1 DEF Reconciliation
<1>3. /\ UNCHANGED <<kind, request, stripe, refund, event>>
      /\ proc' = [proc EXCEPT ![h] = Requests({k \in Unfinished : k.of = q}, {q})]
      /\ proc[h].pc = "reconcile"
    BY <1>2 DEF reconcilePayment
<1>4. Requests({k \in Unfinished : k.of = q}, {q}).pc # "reconcile"
    BY DEF Requests, Idle
<1>5. \A g \in Process : proc'[g].pc = "reconcile" => g # h /\ proc'[g] = proc[g]
    BY <1>3, <1>4 DEF IInv, TypeOK
<1>6. StripeSame(p)
    BY <1>3 DEF StripeSame
<1>7. Suspect(p)' = Suspect(p) /\ PendingRefund(p)' = PendingRefund(p) /\ stripe'[p] = stripe[p]
    BY <1>6, SuspectSame
<1>8. /\ p # q => (p \in undone <=> p \in undone')
      /\ q \notin Credited /\ ~proc[h].review /\ Suspect(q) =>
            (q \in undone' <=> checkout[q] = "PAYMENT_REVIEW" \/ q \in undone)
    BY <1>2 DEF reconcilePayment
<1>9. q \notin Credited =>
          /\ UNCHANGED <<entry, card>>
          /\ checkout' = IF checkout[q] \in {"OPEN", "PAYMENT_REVIEW"}
                         THEN [checkout EXCEPT ![q] =
                                 IF proc[h].review THEN "PAYMENT_REVIEW" ELSE "OPEN"]
                         ELSE checkout
    BY <1>2 DEF reconcilePayment
<1>10. checkout[p] # "NONE" => checkout'[p] # "NONE"
    <2>1. q \in Credited => UNCHANGED checkout
        BY <1>2 DEF reconcilePayment
    <2> QED BY <1>9, <2>1 DEF IInv, TypeOK
<1>11. Prepared(p)'
    BY <1>3, <1>6, <1>10, PreparedSame DEF Story
<1>12. CASE p # q
    <2>1. (Told(p) => Told(p)') /\ (Warned(p) => Warned(p)')
        <3>1. ASSUME NEW g \in Process, proc[g].pc = "reconcile", proc[g].of = p
              PROVE  proc'[g] = proc[g]
            BY <1>2, <1>3, <1>12, <3>1 DEF IInv, TypeOK
        <3> QED BY <1>3, <3>1 DEF Told, Warned
    <2>2. checkout'[p] = checkout[p] /\ entry'[p] = entry[p]
        BY <1>2, <1>9, <1>12 DEF reconcilePayment, IInv, TypeOK
    <2>3. entry[p].credited => UNCHANGED card
        <3>1. entry[p].credited => q \notin Credited
            BY <1>12 DEF Credited, IInv, PaymentsPrepared, CardInv, OnePurchase
        <3> QED BY <1>9, <3>1
    <2>4. entry[p].credited => Known(p)' = Known(p)
        BY <1>7, <2>2, <2>3 DEF Known
    <2> QED BY <1>7, <1>8, <1>11, <1>12, <2>1, <2>2, <2>4 DEF Story
<1>13. CASE p = q /\ ~entry[p].credited
    <2>1. q \notin Credited
        BY <1>13 DEF Credited
    <2>2. ~entry'[p].credited
        BY <1>9, <1>13, <2>1
    <2>3. checkout'[p] = "OPEN" /\ Suspect(p)' => Warned(p)' \/ p \in undone'
        <3>1. SUFFICES ASSUME checkout'[p] = "OPEN", Suspect(p), p \notin undone'
                       PROVE  Warned(p)'
            BY <1>7
        <3>2. ~proc[h].review
            BY <1>9, <1>13, <2>1, <3>1 DEF IInv, TypeOK
        <3>3. checkout[p] # "PAYMENT_REVIEW" /\ p \notin undone
            BY <1>8, <1>13, <2>1, <3>1, <3>2
        <3>4. checkout[p] = "OPEN"
            BY <1>9, <1>13, <2>1, <3>1, <3>3 DEF IInv, TypeOK
        <3>5. Warned(p)
            BY <1>13, <3>1, <3>3, <3>4 DEF Story
        <3>6. ASSUME NEW g \in Process, proc[g].pc = "reconcile", proc[g].of = p, proc[g].review
              PROVE  proc'[g] = proc[g]
            BY <1>3, <3>2, <3>6 DEF IInv, TypeOK
        <3> QED BY <1>3, <3>5, <3>6 DEF Warned
    <2>4. checkout'[p] # "FULFILLED"
        BY <1>9, <1>13, <2>1 DEF Story, IInv, TypeOK
    <2> QED BY <1>11, <2>2, <2>3, <2>4 DEF Story
<1>14. CASE p = q /\ entry[p].credited
    <2>1. p \in Credited
        BY <1>14 DEF Credited
    <2>2. /\ entry' = [entry EXCEPT ![p] =
                         [entry[p] EXCEPT !.refunded = entry[p].refunded + NewlyRefunded(p),
                                          !.pending = PendingRefund(p)]]
          /\ card' = IF HandsOff THEN card
                     ELSE [card EXCEPT !.remaining = BalanceAfter(NewlyRefunded(p)),
                             !.status = StatusAfter(p, NewlyRefunded(p),
                                                    BalanceAfter(NewlyRefunded(p))),
                             !.payment = PaymentAfter(p)]
        BY <1>2, <1>14, <2>1 DEF reconcilePayment
    <2>3. entry[p].refunded + NewlyRefunded(p) = stripe[p].refunded
        <3>1. /\ stripe[p].refunded \in Nat /\ entry[p].refunded \in Nat
              /\ entry[p].refunded <= stripe[p].refunded
            BY GivenBackFacts, MoneyType DEF IInv, StripeSound
        <3>2. NewlyRefunded(p) = stripe[p].refunded - entry[p].refunded
            BY <3>1, FloorFacts DEF NewlyRefunded
        <3> QED BY <3>1, <3>2
    <2>4. PICK pending \in BOOLEAN : pending = PendingRefund(p)
        BY DEF PendingRefund
    <2>5. /\ entry'[p].credited /\ entry'[p].refunded = stripe[p].refunded
          /\ entry'[p].pending = pending
        <3>1. entry[p] \in Entry
            BY DEF IInv, TypeOK
        <3>2. entry'[p] = [entry[p] EXCEPT !.refunded = stripe[p].refunded, !.pending = pending]
            BY <2>2, <2>3, <2>4 DEF IInv, TypeOK
        <3> QED BY <1>14, <3>1, <3>2 DEF Entry
    <2>6. stripe[p].disputed \/ pending => card'.status # "ACTIVE"
        <3>1. CASE HandsOff
            BY <2>2, <3>1 DEF HandsOff, Frozen
        <3>2. CASE ~HandsOff
            <4>1. card'.status = StatusAfter(p, NewlyRefunded(p), BalanceAfter(NewlyRefunded(p)))
                BY <2>2, <3>2 DEF IInv, TypeOK, Card
            <4>2. pending => \E r \in Credited : entry'[r].pending
                BY <2>1, <2>5
            <4> QED BY <4>1, <4>2, ReviewStatus
        <3> QED BY <3>1, <3>2
    <2>7. Known(p)'
        BY <1>7, <2>4, <2>5, <2>6 DEF Known
    <2> QED BY <1>11, <2>5, <2>7 DEF Story
<1> QED BY <1>12, <1>13, <1>14

LEMMA InitStories == ASSUME Init PROVE StoriesTold
<1>1. ASSUME NEW p \in Payment PROVE Story(p)
    <2>1. /\ ~entry[p].credited /\ checkout[p] = "NONE" /\ stripe[p].refunded = 0
          /\ stripe[p].outside = 0 /\ ~stripe[p].disputed
        BY DEF Init
    <2>2. Pending(p) = {} /\ request[Cancelling(p)] = NoRequest
        BY KeyFacts DEF Init, Pending
    <2>3. ~Suspect(p)
        BY <2>1, <2>2 DEF Suspect, PendingRefund
    <2> QED BY <2>1, <2>2, <2>3 DEF Story, Prepared
<1> QED BY <1>1 DEF StoriesTold

LEMMA KindStays == ASSUME [Next]_vars PROVE kind' = kind
<1>1. ASSUME NEW p \in Payment,
             \/ AtStripe(p) \/ Prepare(p)
             \/ \E h \in Process : BeginFulfil(h, p) \/ BeginReconcile(h, p)
      PROVE  kind' = kind
    BY <1>1 DEF AtStripe, Pay, OutsideRefund, OutsideSettles, Dispute, RefundSettles, Prepare,
                BeginFulfil, BeginReconcile
<1>2. ASSUME NEW b \in Bill, debit(b) \/ \E h \in Handler : validateCode(h, b)
      PROVE  kind' = kind
    BY <1>2 DEF debit, validateCode
<1>3. ASSUME NEW h \in Process, Go(h) \/ ReadPaymentFailed(h) \/ AfterCancel(h) \/ Fail(h)
      PROVE  kind' = kind
    BY <1>3 DEF Go, ReadPaymentFailed, handlePaymentFailed, purchaseWithPayment, contribute, applyToReservation, CallStripe, StoreRefund,
                reconcilePayment, AfterCancel, Fail
<1>4. CASE closeCrowdfunding \/ cancel \/ Scan \/ DeadlinePasses
    BY <1>4 DEF closeCrowdfunding, cancel, Scan, DeadlinePasses
<1> QED BY <1>1, <1>2, <1>3, <1>4 DEF Next, vars

LEMMA NextStories ==
    ASSUME GiftCardAssumption, IInv, StoriesTold, [Next]_vars
    PROVE  StoriesTold'
<1> SUFFICES ASSUME kind = "SINGLE", NEW p \in Payment, Story(p)
             PROVE  Story(p)'
    <2>1. kind' = kind
        BY KindStays
    <2> QED BY <2>1 DEF StoriesTold
<1>1. ASSUME NEW q \in Payment,
             \/ AtStripe(q) \/ Prepare(q)
             \/ \E h \in Process : BeginFulfil(h, q) \/ BeginReconcile(h, q)
      PROVE  Story(p)'
    BY <1>1, StoryAtStripe, StoryPrepare, StoryControl, StoryBegins
<1>2. ASSUME NEW b \in Bill, debit(b) \/ \E h \in Handler : validateCode(h, b)
      PROVE  Story(p)'
    BY <1>2, StoryWriting, StoryControl DEF Process
<1>3. ASSUME NEW h \in Process, Go(h) \/ ReadPaymentFailed(h) \/ AfterCancel(h) \/ Fail(h)
      PROVE  Story(p)'
    <2>1. ~contribute(h)
        BY DEF contribute
    <2> QED BY <1>3, <2>1, StoryPurchase, StoryWriting, StoryCalling, StoryReconciles, StoryControl
            DEF Go
<1>4. CASE closeCrowdfunding \/ cancel \/ Scan \/ DeadlinePasses
    BY <1>4, StoryWriting, StoryControl DEF closeCrowdfunding, Closable, Open
<1>5. CASE UNCHANGED vars
    BY <1>5, StoryUntouched DEF vars
<1> QED BY <1>1, <1>2, <1>3, <1>4, <1>5 DEF Next

\* Every record of the tables, every answer of Stripe and every execution is
\* of its type, in every state of the program.
THEOREM TypeCorrect == Spec => []TypeOK
BY InvariantHolds, PTL DEF IInv

\* What Stripe has given back of a payment, and what it has accepted to, never
\* exceed its price, and the ledger never shows more than Stripe gave back:
\* the retries of process and the events repeated to reconcilePayment add
\* nothing.
THEOREM RefundsWithinPrice == Spec => []StripeSound
BY InvariantHolds, PTL DEF IInv

\* The balance of a card in use is what its payments brought, less what was
\* spent and what is known to have been given back: validateCode, debit,
\* closeCrowdfunding and reconcilePayment agree whatever their order.
THEOREM LedgerAlwaysBalances == Spec => []LedgerBalances
BY InvariantHolds, PTL DEF IInv, CardInv

\* What cancel gives back and what debit and applyToReservation took never
\* exceed together what was collected.
THEOREM MoneyNeverShort == Spec => []MoneyOut
BY InvariantHolds, PTL DEF IInv, CardInv

\* What cancel froze is never spent, credited or reconciled back into use, and
\* a cancellation that process has concluded keeps its conclusion.
THEOREM FrozenForever == Spec => FrozenStays
<1>1. ASSUME GiftCardAssumption, IInv, [Next]_vars
      PROVE  [card.status \in Frozen =>
                /\ card'.status \in Frozen /\ redeemed' = redeemed
                /\ card.status # "REFUND_PENDING" => card'.status = card.status]_vars
    BY <1>1, FrozenStep
<1> QED BY <1>1, InvariantHolds, GiftCardAssumption, PTL DEF Spec, FrozenStays

\* Once Stripe's events are handled the ledger of a purchase shows every
\* refund, and a card whose payment is disputed or being refunded is not
\* usable, however purchaseWithPayment and any number of executions of
\* reconcilePayment overlap; but for a payment whose review an execution of the
\* latter took back on an outdated reading.
THEOREM RefundsAreKnown == Spec => []RefundsKnown
<1>1. Init => StoriesTold
    BY InitStories
<1>2. IInv /\ StoriesTold /\ [Next]_vars => StoriesTold'
    BY NextStories, GiftCardAssumption
<1>3. StoriesTold => RefundsKnown
    <2>1. SUFFICES ASSUME StoriesTold, kind = "SINGLE", Settled, NEW p \in Credited \ undone
                   PROVE  Known(p)
        BY DEF RefundsKnown, Known
    <2>2. ~Told(p)
        BY <2>1, ExecutionTypes DEF Settled, Told
    <2> QED BY <2>1, <2>2 DEF StoriesTold, Story, Credited
<1> QED BY <1>1, <1>2, <1>3, InvariantHolds, PTL DEF Spec
=============================================================================
