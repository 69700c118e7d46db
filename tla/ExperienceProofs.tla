-------------------------- MODULE ExperienceProofs --------------------------
(***************************************************************************)
(* Proofs about Experience, for every number of checkouts, of direct       *)
(* reservations and of executions, every prices, places and capacity, and  *)
(* every value of the bounds.                                              *)
(***************************************************************************)
EXTENDS Experience, Sums

(***************************************************************************)
(* The inductive invariant                                                 *)
(***************************************************************************)
OwedOrRefunded == {"REFUND_PENDING"} \union Refunded

\* What a row says agrees with its price, with the recorded event and with
\* the booking: an event that is recorded is what keeps a repeated delivery
\* from writing the row again.
RowSound(c) ==
    /\ row[c].status = "NONE" => c \in Free /\ stripe[c].session = "none"
    /\ row[c].status = "FREE" => c \in Free
    /\ row[c].status \in {"PAID"} \union OwedOrRefunded => c \notin Free
    /\ row[c].status \in {"PAID", "FREE"} \union OwedOrRefunded => c \in recorded
    /\ c \in intents => c \in recorded
    /\ booking[c] # "NONE" => Settled(c) /\ c \in recorded
    /\ c \in refundIds \/ row[c].status \in Refunded => stripe[c].refund.key # "none"
    /\ c \in Free => stripe[c].refund = NoRefund
    /\ stripe[c].late => stripe[c].session = "complete"

RequestSound(k) == request[k] # Idle => row[request[k].of].status # "NONE"

DeliverySound(w) ==
    worker[w] # Idle =>
        LET c == worker[w].of IN
        /\ row[c].status # "NONE"
        /\ worker[w].pc = "expire" => c \in Free
        /\ worker[w].pc \in {"refund", "store", "owed", "persist"} => c \notin Free
        /\ worker[w].pc \in {"store", "persist"} => stripe[c].refund.key # "none"
        /\ worker[w].pc \in {"owed", "persist"} =>
              c \in recorded /\ row[c].status \in OwedOrRefunded

CancellationSound(s) ==
    desk[s] # Idle =>
        LET i == desk[s].of IN
        /\ booking[i] # "NONE"
        /\ desk[s].pc \in {"refund", "persist"} => i \in Checkout \ Free
        /\ desk[s].pc = "persist" => stripe[i].refund.key # "none"
        /\ desk[s].pc = "cancel" /\ i \in Checkout \ Free =>
              stripe[i].refund.key # "none" /\ row[i].status \in OwedOrRefunded

\* A payment is refunded as late, or is about to be.
RefundedLate(c) ==
    \/ stripe[c].refund.key = "late"
    \/ \E w \in Worker : worker[w] # Idle /\ worker[w].of = c /\ worker[w].pc \in {"refund", "owed"}

\* Such a payment can no longer be confirmed, unless it was found late because
\* the session was closed, and the session was opened again.
LateSound(c) ==
    RefundedLate(c) =>
        IF booking[c] = "NONE"
        THEN row[c].status \notin {"NONE", "OPEN"} \/ stripe[c].late \/ changes >= 1
        ELSE changes >= 2

CancelledSound(c) ==
    c \notin Free /\ booking[c] = "CANCELLED" =>
        stripe[c].refund.key # "none" /\ row[c].status \in OwedOrRefunded

CheckoutSound(c) == RowSound(c) /\ LateSound(c) /\ CancelledSound(c)

IInv ==
    /\ TypeOK
    /\ \A c \in Checkout : CheckoutSound(c)
    /\ \A k \in Client : RequestSound(k)
    /\ \A w \in Worker : DeliverySound(w)
    /\ \A s \in Staff : CancellationSound(s)
    /\ NoOversell

(***************************************************************************)
(* What the steps write                                                    *)
(***************************************************************************)
LEMMA StatusWritten ==
    ASSUME row \in [Checkout -> Row], NEW c \in Checkout, NEW s \in RowStatus,
           row' = [row EXCEPT ![c].status = s]
    PROVE  /\ row' \in [Checkout -> Row]
           /\ row'[c].status = s
           /\ \A d \in Checkout : row'[d].price = row[d].price /\ row'[d].expiresAt = row[d].expiresAt
           /\ \A d \in Checkout : d # c => row'[d] = row[d]
           /\ Free' = Free
<1>1. row[c] \in Row /\ row'[c] = [row[c] EXCEPT !.status = s]
    OBVIOUS
<1>2. /\ row'[c] \in Row /\ row'[c].status = s /\ row'[c].price = row[c].price
      /\ row'[c].expiresAt = row[c].expiresAt
    BY <1>1 DEF Row
<1>3. row' \in [Checkout -> Row] /\ \A d \in Checkout : d # c => row'[d] = row[d]
    BY <1>2
<1>4. \A d \in Checkout : row'[d].price = row[d].price /\ row'[d].expiresAt = row[d].expiresAt
    BY <1>2, <1>3
<1> QED BY <1>2, <1>3, <1>4 DEF Free

LEMMA SameRows ==
    ASSUME UNCHANGED row
    PROVE  Free' = Free
BY DEF Free

LEMMA RefundMade ==
    ASSUME ExperienceAssumption, stripe \in [Checkout -> StripeSession], NEW c \in Checkout,
           NEW key \in {"late", "cancel"}, createRefund(c, key)
    PROVE  /\ stripe' \in [Checkout -> StripeSession]
           /\ stripe'[c].refund.key = key
           /\ stripe[c].refund.key \in {key, "none"}
           /\ stripe'[c].session = stripe[c].session /\ stripe'[c].late = stripe[c].late
           /\ \A d \in Checkout : d # c => stripe'[d] = stripe[d]
<1>1. CASE stripe[c].refund.key = key /\ UNCHANGED stripe
    BY <1>1
<1>2. CASE /\ stripe[c].refund.key = "none"
           /\ \E answer \in Reply :
                stripe' = [stripe EXCEPT ![c].refund =
                             [key |-> key, reply |-> answer, status |-> answer]]
    <2>1. PICK answer \in Reply :
            stripe' = [stripe EXCEPT ![c].refund =
                         [key |-> key, reply |-> answer, status |-> answer]]
        BY <1>2
    <2> DEFINE r == [key |-> key, reply |-> answer, status |-> answer]
    <2>2. r \in Refund /\ r.key = key
        BY <2>1 DEF Refund, ExperienceAssumption
    <2> HIDE DEF r
    <2>3. stripe[c] \in StripeSession /\ stripe'[c] = [stripe[c] EXCEPT !.refund = r]
        BY <2>1 DEF r
    <2>4. /\ stripe'[c] \in StripeSession /\ stripe'[c].refund = r
          /\ stripe'[c].session = stripe[c].session /\ stripe'[c].late = stripe[c].late
        BY <2>2, <2>3 DEF StripeSession
    <2> QED BY <1>2, <2>1, <2>2, <2>4
<1> QED BY <1>1, <1>2 DEF createRefund

LEMMA RefundStored ==
    ASSUME row \in [Checkout -> Row], refundIds \subseteq Checkout \ Free,
           NEW c \in Checkout, c \notin Free, NEW answer, persistExperienceRefund(c, answer)
    PROVE  /\ row' \in [Checkout -> Row]
           /\ row'[c].status \in OwedOrRefunded
           /\ row[c].status \in Refunded => row' = row
           /\ \A d \in Checkout : row'[d].price = row[d].price /\ row'[d].expiresAt = row[d].expiresAt
           /\ \A d \in Checkout : d # c => row'[d] = row[d]
           /\ Free' = Free
           /\ refundIds' \in {refundIds, refundIds \union {c}}
           /\ refundIds' \subseteq Checkout \ Free
           /\ row'[c].status \in Refunded \/ c \in refundIds'
<1>1. CASE row[c].status \in Refunded
    BY <1>1, SameRows DEF persistExperienceRefund, OwedOrRefunded
<1>2. CASE row[c].status \notin Refunded
    <2>1. /\ row' = [row EXCEPT ![c].status = RefundStatus(answer)]
          /\ refundIds' = refundIds \union {c}
        BY <1>2 DEF persistExperienceRefund
    <2>2. RefundStatus(answer) \in OwedOrRefunded /\ RefundStatus(answer) \in RowStatus
        BY DEF RefundStatus, OwedOrRefunded, Refunded, RowStatus
    <2> QED BY <1>2, <2>1, <2>2, StatusWritten
<1> QED BY <1>1, <1>2

(***************************************************************************)
(* What a step does not disturb                                            *)
(***************************************************************************)
\* What no step takes back.
Kept(c) ==
    /\ row[c].status # "NONE" => row'[c].status # "NONE" /\ row'[c].price = row[c].price
    /\ row[c].status \in OwedOrRefunded => row'[c].status \in OwedOrRefunded
    /\ c \in recorded => c \in recorded'
    /\ stripe[c].refund.key # "none" => stripe'[c].refund.key # "none"

BookingKept(i) == booking[i] # "NONE" => booking'[i] # "NONE"

LEMMA FreeIs ==
    ASSUME NEW c \in Checkout
    PROVE  (c \in Free) = (row[c].price = 0) /\ (c \in Free') = (row'[c].price = 0)
BY DEF Free

LEMMA RequestRests ==
    ASSUME TypeOK, \A c \in Checkout : Kept(c), NEW k \in Client, RequestSound(k),
           request'[k] = request[k]
    PROVE  RequestSound(k)'
<1> SUFFICES ASSUME request'[k] # Idle
             PROVE  row'[request'[k].of].status # "NONE"
    BY DEF RequestSound
<1>1. request[k].of \in Checkout /\ row[request[k].of].status # "NONE"
    BY DEF TypeOK, PublicRequest, RequestSound
<1> QED BY <1>1 DEF Kept

LEMMA DeliveryRests ==
    ASSUME TypeOK, \A c \in Checkout : Kept(c), NEW w \in Worker, DeliverySound(w),
           worker'[w] = worker[w]
    PROVE  DeliverySound(w)'
<1> SUFFICES ASSUME worker[w] # Idle PROVE DeliverySound(w)'
    BY DEF DeliverySound
<1>1. worker[w].of \in Checkout
    BY DEF TypeOK, Delivery
<1>2. Kept(worker[w].of) /\ row[worker[w].of].status # "NONE"
    BY <1>1 DEF DeliverySound
<1>3. (worker[w].of \in Free') = (worker[w].of \in Free)
    BY <1>1, <1>2, FreeIs DEF Kept
<1> QED BY <1>2, <1>3 DEF DeliverySound, Kept

LEMMA CancellationRests ==
    ASSUME TypeOK, \A c \in Checkout : Kept(c) /\ CheckoutSound(c),
           \A i \in Slot : BookingKept(i), NEW s \in Staff, CancellationSound(s),
           desk'[s] = desk[s]
    PROVE  CancellationSound(s)'
<1> SUFFICES ASSUME desk[s] # Idle PROVE CancellationSound(s)'
    BY DEF CancellationSound
<1> DEFINE i == desk[s].of
<1>1. i \in Slot /\ BookingKept(i) /\ booking[i] # "NONE"
    BY DEF TypeOK, Cancellation, CancellationSound
<1>2. CASE i \in Checkout
    <2>1. Kept(i) /\ row[i].status # "NONE"
        BY <1>1, <1>2 DEF CheckoutSound, RowSound, Settled, Refunded
    <2>2. (i \in Free') = (i \in Free)
        BY <1>2, <2>1, FreeIs DEF Kept
    <2> QED BY <1>1, <2>1, <2>2 DEF CancellationSound, Kept, BookingKept
<1>3. CASE i \notin Checkout
    BY <1>1, <1>3 DEF CancellationSound, BookingKept
<1> QED BY <1>2, <1>3

\* A step that begins no late refund of c.
NothingLater(c) == RefundedLate(c)' => RefundedLate(c)

LEMMA LateRests ==
    ASSUME NEW c \in Checkout, stripe'[c].refund.key = stripe[c].refund.key,
           \A w \in Worker : worker'[w] # worker[w] =>
               \/ worker'[w] = Idle \/ worker'[w].of # c
               \/ worker'[w].pc \notin {"refund", "owed"}
    PROVE  NothingLater(c)
BY DEF NothingLater, RefundedLate

\* Nothing of a checkout changes.
LEMMA CheckoutRests ==
    ASSUME TypeOK, TypeOK', NEW c \in Checkout, CheckoutSound(c),
           row'[c] = row[c], stripe'[c] = stripe[c], booking'[c] = booking[c],
           c \in intents' => c \in intents, c \in recorded => c \in recorded',
           (c \in refundIds') = (c \in refundIds),
           changes' >= changes, NothingLater(c) \/ LateSound(c)'
    PROVE  CheckoutSound(c)' /\ Kept(c)
<1>1. Kept(c)
    BY DEF Kept
<1>2. (c \in Free') = (c \in Free)
    BY FreeIs
<1>3. Settled(c)' = Settled(c)
    BY DEF Settled, Refunded
<1>4. RowSound(c)'
    BY <1>2, <1>3 DEF CheckoutSound, RowSound, OwedOrRefunded, Refunded, NoRefund
<1>5. changes \in Int /\ changes' \in Int
    BY DEF TypeOK
<1>6. LateSound(c)'
    BY <1>5 DEF CheckoutSound, LateSound, NothingLater
<1>7. CancelledSound(c)'
    BY <1>2 DEF CheckoutSound, CancelledSound, OwedOrRefunded, Refunded
<1> QED BY <1>1, <1>4, <1>6, <1>7 DEF CheckoutSound

(***************************************************************************)
(* Places                                                                  *)
(***************************************************************************)
LEMMA TakenIs ==
    ASSUME NEW S
    PROVE  Taken(S) = Sum(Places, S)
BY DEF Taken, Sum

LEMMA TakenFacts ==
    ASSUME ExperienceAssumption, NEW S \in SUBSET Slot
    PROVE  /\ IsFiniteSet(S) /\ Taken(S) \in Nat
           /\ \A T \in SUBSET S : Taken(T) \in Nat /\ Taken(T) <= Taken(S)
           /\ \A i \in Slot : i \notin S => Taken(S \union {i}) = Taken(S) + Places[i]
<1>1. IsFiniteSet(S) /\ \A i \in Slot : Places[i] \in Nat /\ Places[i] \in Int
    BY FS_Subset DEF ExperienceAssumption
<1>2. Sum(Places, S) \in Nat
    BY <1>1, SumIsNat
<1>3. ASSUME NEW T \in SUBSET S PROVE Sum(Places, T) \in Nat /\ Sum(Places, T) <= Sum(Places, S)
    <2>1. IsFiniteSet(T)
        BY <1>1, FS_Subset
    <2> QED BY <1>1, <2>1, SumIsNat, SumGrows
<1>4. ASSUME NEW i \in Slot, i \notin S
      PROVE  Sum(Places, S \union {i}) = Sum(Places, S) + Places[i]
    BY <1>1, <1>4, SumAdds
<1> QED BY <1>1, <1>2, <1>3, <1>4, TakenIs

\* Fewer places are confirmed and held than before.
LEMMA PlacesRest ==
    ASSUME ExperienceAssumption, NoOversell,
           Confirmed' \subseteq Confirmed, Held(clock)' \subseteq Held(clock)
    PROVE  NoOversell'
<1>1. Confirmed \in SUBSET Slot /\ Held(clock) \in SUBSET Slot
    BY DEF Confirmed, Held, Slot
<1>2. /\ Taken(Confirmed') <= Taken(Confirmed) /\ Taken(Held(clock)') <= Taken(Held(clock))
      /\ {Taken(Confirmed'), Taken(Confirmed), Taken(Held(clock)'), Taken(Held(clock))} \subseteq Nat
    BY <1>1, TakenFacts
<1>3. Capacity \in Nat
    BY DEF ExperienceAssumption
<1>4. NoOversell' = (Taken(Confirmed') + Taken(Held(clock)') <= Capacity)
    BY DEF NoOversell
<1> QED BY <1>2, <1>3, <1>4 DEF NoOversell

\* i is given places that the session still has, counted at an earlier time.
LEMMA PlacesGiven ==
    ASSUME ExperienceAssumption, NEW i \in Slot, NEW t \in Int, clock \in Int, clock' = clock,
           t <= clock, row \in [Checkout -> Row],
           Used(t, i) + Places[i] <= Capacity,
           \/ Confirmed' \subseteq Confirmed \union {i} /\ Held(clock)' \subseteq Held(clock) \ {i}
           \/ Confirmed' = Confirmed /\ Held(clock)' \subseteq (Held(clock) \ {i}) \union {i}
    PROVE  NoOversell'
<1> DEFINE H == Held(t) \ {i}
<1>1. Held(clock) \ {i} \subseteq H
    <2>1. \A c \in Checkout : row[c].expiresAt \in Int
        BY DEF Row, ExperienceAssumption
    <2> QED BY <2>1 DEF Held
<1>2. Confirmed \in SUBSET Slot /\ H \in SUBSET Slot /\ H \union {i} \in SUBSET Slot
    BY DEF Confirmed, Held, Slot
<1>3. Confirmed \union {i} \in SUBSET Slot /\ i \notin H
    BY <1>2
<1>4. Taken(Confirmed) + Taken(H) + Places[i] <= Capacity
    BY DEF Used
<1>5. Places[i] \in Nat /\ Capacity \in Nat
    BY DEF ExperienceAssumption
<1>6. NoOversell' = (Taken(Confirmed') + Taken(Held(clock)') <= Capacity)
    BY DEF NoOversell
<1> HIDE DEF H
<1>7. CASE Confirmed' \subseteq Confirmed \union {i} /\ Held(clock)' \subseteq Held(clock) \ {i}
    <2>1. Taken(Held(clock)') <= Taken(H) /\ Taken(Held(clock)') \in Nat /\ Taken(H) \in Nat
        BY <1>1, <1>2, <1>7, TakenFacts
    <2>2. Taken(Confirmed') <= Taken(Confirmed \union {i}) /\ Taken(Confirmed') \in Nat
        BY <1>3, <1>7, TakenFacts
    <2>3. /\ Taken(Confirmed \union {i}) <= Taken(Confirmed) + Places[i]
          /\ Taken(Confirmed) \in Nat /\ Taken(Confirmed \union {i}) \in Nat
        <3>1. CASE i \in Confirmed
            <4>1. Confirmed \union {i} = Confirmed
                BY <3>1
            <4> QED BY <4>1, <1>2, <1>5, TakenFacts
        <3>2. CASE i \notin Confirmed
            BY <3>2, <1>2, <1>3, <1>5, TakenFacts
        <3> QED BY <3>1, <3>2
    <2>4. Taken(Confirmed') + Taken(Held(clock)') <= Taken(Confirmed) + Places[i] + Taken(H)
        BY <2>1, <2>2, <2>3, <1>5
    <2>5. Taken(Confirmed) + Places[i] + Taken(H) <= Capacity
        BY <2>1, <2>3, <1>4, <1>5
    <2> QED BY <2>1, <2>2, <2>3, <2>4, <2>5, <1>5, <1>6 DEF NoOversell
<1>8. CASE Confirmed' = Confirmed /\ Held(clock)' \subseteq (Held(clock) \ {i}) \union {i}
    <2>1. Held(clock)' \subseteq H \union {i}
        BY <1>1, <1>8
    <2>2. /\ Taken(Held(clock)') <= Taken(H \union {i}) /\ Taken(Held(clock)') \in Nat
          /\ Taken(H \union {i}) \in Nat
        BY <2>1, <1>2, TakenFacts
    <2>3. Taken(H \union {i}) = Taken(H) + Places[i] /\ Taken(H) \in Nat
        BY <1>2, <1>3, TakenFacts
    <2>4. Taken(Confirmed') = Taken(Confirmed) /\ Taken(Confirmed) \in Nat
        BY <1>2, <1>8, TakenFacts
    <2>5. Taken(Confirmed') + Taken(Held(clock)') <= Taken(Confirmed) + Places[i] + Taken(H)
        BY <2>2, <2>3, <2>4, <1>5
    <2>6. Taken(Confirmed) + Places[i] + Taken(H) <= Capacity
        BY <2>3, <2>4, <1>4, <1>5
    <2> QED BY <2>2, <2>3, <2>4, <2>5, <2>6, <1>5, <1>6 DEF NoOversell
<1> QED BY <1>7, <1>8

LEMMA HeldRest ==
    ASSUME row \in [Checkout -> Row], clock \in Int, clock' \in Int, clock' >= clock,
           ExperienceAssumption,
           \A c \in Checkout : /\ row'[c].expiresAt = row[c].expiresAt
                               /\ row'[c].status = "OPEN" => row[c].status = "OPEN"
    PROVE  Held(clock)' \subseteq Held(clock)
<1>1. \A c \in Checkout : row[c].expiresAt \in Int
    BY DEF Row, ExperienceAssumption
<1> QED BY <1>1 DEF Held

(***************************************************************************)
(* A step, from what it writes                                             *)
(***************************************************************************)
LEMMA Assembles ==
    ASSUME IInv, TypeOK',
           \A c \in Checkout : CheckoutSound(c)' /\ Kept(c),
           \A i \in Slot : BookingKept(i),
           \A k \in Client : request'[k] = request[k] \/ RequestSound(k)',
           \A w \in Worker : worker'[w] = worker[w] \/ DeliverySound(w)',
           \A s \in Staff : desk'[s] = desk[s] \/ CancellationSound(s)',
           NoOversell'
    PROVE  IInv'
<1>1. TypeOK /\ \A c \in Checkout : CheckoutSound(c)
    BY DEF IInv
<1>2. ASSUME NEW k \in Client PROVE RequestSound(k)'
    <2>1. RequestSound(k)
        BY DEF IInv
    <2> QED BY <1>1, <2>1, RequestRests
<1>3. ASSUME NEW w \in Worker PROVE DeliverySound(w)'
    <2>1. DeliverySound(w)
        BY DEF IInv
    <2> QED BY <1>1, <2>1, DeliveryRests
<1>4. ASSUME NEW s \in Staff PROVE CancellationSound(s)'
    <2>1. CancellationSound(s)
        BY DEF IInv
    <2> QED BY <1>1, <2>1, CancellationRests
<1> QED BY <1>2, <1>3, <1>4 DEF IInv

\* A step that writes neither rows nor bookings, and asks Stripe for nothing.
LEMMA Quiet ==
    ASSUME ExperienceAssumption, IInv, TypeOK', UNCHANGED <<row, stripe, booking, refundIds>>,
           intents' \subseteq intents, recorded \subseteq recorded',
           changes' >= changes, clock' >= clock,
           \A c \in Checkout : NothingLater(c) \/ LateSound(c)'
    PROVE  /\ \A c \in Checkout : CheckoutSound(c)' /\ Kept(c)
           /\ \A i \in Slot : BookingKept(i)
           /\ NoOversell'
<1>1. TypeOK /\ NoOversell /\ \A c \in Checkout : CheckoutSound(c)
    BY DEF IInv
<1>2. ASSUME NEW c \in Checkout PROVE CheckoutSound(c)' /\ Kept(c)
    <2>1. row'[c] = row[c] /\ stripe'[c] = stripe[c] /\ booking'[c] = booking[c]
        OBVIOUS
    <2>2. /\ c \in intents' => c \in intents
          /\ c \in recorded => c \in recorded'
          /\ (c \in refundIds') = (c \in refundIds)
        OBVIOUS
    <2> QED BY <1>1, <2>1, <2>2, CheckoutRests
<1>3. NoOversell'
    <2>1. row \in [Checkout -> Row] /\ clock \in Int /\ clock' \in Int
        BY <1>1 DEF TypeOK
    <2>2. Held(clock)' \subseteq Held(clock)
        BY <2>1, HeldRest
    <2>3. Confirmed' \subseteq Confirmed
        BY DEF Confirmed
    <2> QED BY <1>1, <2>2, <2>3, PlacesRest
<1> QED BY <1>2, <1>3 DEF BookingKept

(***************************************************************************)
(* The public checkout                                                     *)
(***************************************************************************)
LEMMA AtIs ==
    ASSUME NEW pc, NEW i
    PROVE  At(pc, i).pc = pc /\ At(pc, i).of = i /\ (pc # "idle" => At(pc, i) # Idle)
BY DEF At, Idle

\* A request goes on with its checkout, or ends.
LEMMA RequestGoesOn ==
    ASSUME IInv, NEW k \in Client, NEW r, request' = [request EXCEPT ![k] = r],
           \/ r = Idle
           \/ /\ r \in [pc : {"create", "retrieve", "link"}, of : Checkout]
              /\ row'[r.of].status # "NONE"
    PROVE  /\ request' \in [Client -> PublicRequest]
           /\ \A j \in Client : request'[j] = request[j] \/ RequestSound(j)'
<1>1. request \in [Client -> PublicRequest]
    BY DEF IInv, TypeOK
<1>2. r \in PublicRequest
    BY DEF PublicRequest
<1>3. request'[k] = r /\ \A j \in Client : j # k => request'[j] = request[j]
    BY <1>1
<1>4. RequestSound(k)'
    BY <1>3 DEF RequestSound
<1> QED BY <1>1, <1>2, <1>3, <1>4

LEMMA SameRequests ==
    ASSUME TypeOK, UNCHANGED request
    PROVE  \A j \in Client : request'[j] = request[j]
OBVIOUS

LEMMA NobodyElse ==
    ASSUME UNCHANGED worker, NEW c \in Checkout, stripe'[c] = stripe[c]
    PROVE  NothingLater(c)
BY DEF NothingLater, RefundedLate

\* The requests' steps that only read, and the link.
LEMMA QuietRequest ==
    ASSUME ExperienceAssumption, IInv, NEW k \in Client, NEW r,
           request' = [request EXCEPT ![k] = r],
           \/ r = Idle
           \/ /\ r \in [pc : {"create", "retrieve", "link"}, of : Checkout]
              /\ row[r.of].status # "NONE",
           linked' \subseteq Checkout, intents' \subseteq intents,
           UNCHANGED <<clock, changes, row, refundIds, booking, recorded, stripe, acked,
                       worker, desk>>,
           failures' \in 0..MaxFailures
    PROVE  IInv'
<1>1. /\ request' \in [Client -> PublicRequest]
      /\ \A j \in Client : request'[j] = request[j] \/ RequestSound(j)'
    BY RequestGoesOn
<1>2. TypeOK'
    BY <1>1, SameRows DEF IInv, TypeOK
<1>3. \A c \in Checkout : NothingLater(c)
    BY NobodyElse
<1>4. changes \in Int /\ clock \in Int
    BY DEF IInv, TypeOK
<1>5. /\ \A c \in Checkout : CheckoutSound(c)' /\ Kept(c)
      /\ \A i \in Slot : BookingKept(i)
      /\ NoOversell'
    BY <1>2, <1>3, <1>4, Quiet
<1> QED BY <1>1, <1>2, <1>5, Assembles

LEMMA ReplaysCheckout ==
    ASSUME ExperienceAssumption, IInv, NEW k \in Client, NEW c \in Checkout, ReplayCheckout(k, c)
    PROVE  IInv'
<1> DEFINE r == At(IF c \in linked THEN "retrieve" ELSE "create", c)
<1>1. r \in [pc : {"create", "retrieve", "link"}, of : Checkout] /\ r.of = c
    BY DEF At
<1> HIDE DEF r
<1>2. request' = [request EXCEPT ![k] = r]
    BY DEF ReplayCheckout, r
<1>3. row[c].status # "NONE" /\ linked' \subseteq Checkout /\ failures' \in 0..MaxFailures
    BY DEF ReplayCheckout, IInv, TypeOK, db
<1> QED BY <1>1, <1>2, <1>3, QuietRequest DEF ReplayCheckout, db

LEMMA RetrievesStripe ==
    ASSUME ExperienceAssumption, IInv, NEW k \in Client, RetrieveStripe(k)
    PROVE  IInv'
<1> DEFINE c == request[k].of
           r == IF stripe[c].session = "open" THEN At("link", c) ELSE Idle
<1>1. c \in Checkout /\ row[c].status # "NONE"
    BY DEF RetrieveStripe, IInv, TypeOK, PublicRequest, Idle, RequestSound
<1>2. \/ r = Idle
      \/ r \in [pc : {"create", "retrieve", "link"}, of : Checkout] /\ r.of = c
    BY <1>1 DEF At
<1>3. request' = [request EXCEPT ![k] = r]
    BY DEF RetrieveStripe, IInv, TypeOK
<1>4. linked' \subseteq Checkout /\ failures' \in 0..MaxFailures
    BY DEF RetrieveStripe, IInv, TypeOK, db
<1> HIDE DEF r, c
<1> QED BY <1>1, <1>2, <1>3, <1>4, QuietRequest DEF RetrieveStripe, db

LEMMA Links ==
    ASSUME ExperienceAssumption, IInv, NEW k \in Client, Link(k)
    PROVE  IInv'
<1>1. request[k].of \in Checkout
    BY DEF Link, IInv, TypeOK, PublicRequest, Idle
<1>2. /\ linked' \subseteq Checkout /\ failures' \in 0..MaxFailures /\ intents' \subseteq intents
      /\ request' = [request EXCEPT ![k] = Idle]
    BY <1>1 DEF Link, IInv, TypeOK
<1> QED BY <1>2, QuietRequest DEF Link

LEMMA BeginsCheckout ==
    ASSUME ExperienceAssumption, IInv, NEW k \in Client, NEW c \in Checkout, BeginCheckout(k, c)
    PROVE  IInv'
<1>1. TypeOK /\ CheckoutSound(c) /\ NoOversell
    BY DEF IInv
<1>2. PICK now \in Now, price \in Price :
        /\ Used(now, c) + Places[c] <= Capacity
        /\ row' = [row EXCEPT ![c] =
                     [status |-> "OPEN", expiresAt |-> now + HoldTime, price |-> price]]
    BY DEF BeginCheckout
<1> DEFINE new == [status |-> "OPEN", expiresAt |-> now + HoldTime, price |-> price]
           r == At("create", c)
<1>3. now \in 0..MaxTime /\ now <= clock /\ clock \in Int
    BY <1>1 DEF Now, TypeOK, ExperienceAssumption
<1>4. new \in Row /\ new.status = "OPEN"
    <2>1. now + HoldTime \in 0..(MaxTime + HoldTime)
        BY <1>3 DEF ExperienceAssumption
    <2> QED BY <2>1, <1>2 DEF Row, RowStatus
<1> HIDE DEF new
<1>5. /\ row' \in [Checkout -> Row] /\ row'[c] = new
      /\ \A d \in Checkout : d # c => row'[d] = row[d]
    BY <1>1, <1>2, <1>4 DEF TypeOK, new
<1>6. /\ row[c].status = "NONE" /\ c \in Free /\ booking[c] = "NONE"
      /\ stripe[c].refund = NoRefund /\ c \notin intents /\ c \notin refundIds
    BY <1>1 DEF BeginCheckout, CheckoutSound, RowSound, Settled, Refunded, TypeOK
<1>7. Free' \subseteq Free
    BY <1>5, <1>6 DEF Free
<1>8. r \in [pc : {"create", "retrieve", "link"}, of : Checkout] /\ r.of = c
    BY DEF At
<1> HIDE DEF r
<1>9. /\ request' \in [Client -> PublicRequest]
      /\ \A j \in Client : request'[j] = request[j] \/ RequestSound(j)'
    <2>1. request' = [request EXCEPT ![k] = r] /\ row'[r.of].status # "NONE"
        BY <1>4, <1>5, <1>8 DEF BeginCheckout, r
    <2> QED BY <2>1, <1>8, RequestGoesOn
<1>10. TypeOK'
    BY <1>1, <1>5, <1>6, <1>7, <1>9 DEF BeginCheckout, TypeOK
<1>11. ASSUME NEW d \in Checkout PROVE CheckoutSound(d)' /\ Kept(d)
    <2>1. CASE d # c
        <3>1. /\ row'[d] = row[d] /\ UNCHANGED <<stripe, booking, intents, recorded, refundIds,
                                                 changes, worker>>
              /\ CheckoutSound(d) /\ changes \in Int
            BY <1>1, <1>5, <2>1 DEF BeginCheckout, IInv, TypeOK
        <3>2. NothingLater(d)
            BY <3>1, NobodyElse
        <3> QED BY <1>1, <1>10, <3>1, <3>2, CheckoutRests
    <2>2. CASE d = c
        <3>1. UNCHANGED <<stripe, booking, intents, recorded, refundIds, changes, worker>>
            BY DEF BeginCheckout
        <3>2. Kept(c)
            BY <3>1, <1>6 DEF Kept, OwedOrRefunded, Refunded
        <3>3. RowSound(c)'
            <4>1. ~stripe[c].late
                BY <1>1, <1>6 DEF CheckoutSound, RowSound
            <4> QED BY <4>1, <3>1, <1>4, <1>5, <1>6 DEF RowSound, OwedOrRefunded, Refunded, Settled
        <3>4. ~RefundedLate(c)'
            <4>1. \A w \in Worker : worker[w] # Idle => worker[w].of # c
                BY <1>6 DEF IInv, DeliverySound
            <4> QED BY <4>1, <3>1, <1>6 DEF RefundedLate, NoRefund
        <3>5. CancelledSound(c)'
            BY <3>1, <1>6 DEF CancelledSound
        <3> QED BY <2>2, <3>2, <3>3, <3>4, <3>5 DEF CheckoutSound, LateSound
    <2> QED BY <2>1, <2>2
<1>12. NoOversell'
    <2>1. clock' = clock /\ Confirmed' = Confirmed /\ c \in Slot
        BY DEF BeginCheckout, Confirmed, Slot
    <2>2. Held(clock)' \subseteq (Held(clock) \ {c}) \union {c}
        BY <2>1, <1>5 DEF Held
    <2> QED BY <2>1, <2>2, <1>1, <1>2, <1>3, PlacesGiven DEF TypeOK
<1> QED BY <1>9, <1>10, <1>11, <1>12, Assembles DEF BookingKept, BeginCheckout

(***************************************************************************)
(* Stripe                                                                  *)
(***************************************************************************)
\* Stripe's own view of a checkout changes; no refund begins.
LEMMA StripeMoves ==
    ASSUME ExperienceAssumption, IInv, NEW c \in Checkout,
           stripe' \in [Checkout -> StripeSession],
           \A d \in Checkout : d # c => stripe'[d] = stripe[d],
           stripe'[c].refund.key = stripe[c].refund.key,
           c \in Free => stripe'[c].refund = stripe[c].refund,
           stripe[c].late => stripe'[c].late,
           stripe'[c].late => stripe'[c].session = "complete",
           row[c].status = "NONE" => stripe'[c].session = "none",
           UNCHANGED <<clock, changes, db, acked, worker, desk, failures>>,
           request' \in [Client -> PublicRequest],
           \A j \in Client : request'[j] = request[j] \/ RequestSound(j)'
    PROVE  IInv'
<1>1. TypeOK /\ NoOversell /\ changes \in Int /\ clock \in Int
    BY DEF IInv, TypeOK
<1>2. TypeOK'
    BY <1>1, SameRows DEF TypeOK, db
<1>3. ASSUME NEW d \in Checkout PROVE CheckoutSound(d)' /\ Kept(d)
    <2>1. /\ UNCHANGED <<row, booking, intents, recorded, refundIds, changes, worker>>
          /\ CheckoutSound(d)
        BY DEF db, IInv
    <2>2. CASE d # c
        <3>1. NothingLater(d)
            BY <2>1, <2>2, NobodyElse
        <3> QED BY <1>1, <1>2, <2>1, <2>2, <3>1, CheckoutRests
    <2>3. CASE d = c
        <3>1. Kept(c)
            BY <2>1 DEF Kept
        <3>2. Free' = Free
            BY <2>1, SameRows
        <3>3. RowSound(c)'
            <4>1. RowSound(c) /\ Settled(c)' = Settled(c)
                BY <2>1, <2>3 DEF CheckoutSound, Settled, Refunded
            <4>2. c \in Free => stripe'[c].refund = NoRefund
                BY <4>1 DEF RowSound
            <4> QED BY <2>1, <3>2, <4>1, <4>2 DEF RowSound, NoRefund
        <3>4. LateSound(c)'
            <4>1. RefundedLate(c)' = RefundedLate(c)
                BY <2>1 DEF RefundedLate
            <4> QED BY <4>1, <2>1, <2>3 DEF CheckoutSound, LateSound
        <3>5. CancelledSound(c)'
            BY <2>1, <2>3, <3>2 DEF CheckoutSound, CancelledSound, OwedOrRefunded, Refunded
        <3> QED BY <2>3, <3>1, <3>3, <3>4, <3>5 DEF CheckoutSound
    <2> QED BY <2>2, <2>3
<1>4. NoOversell'
    <2>1. Held(clock)' = Held(clock) /\ Confirmed' = Confirmed
        BY DEF Held, Confirmed, db
    <2> QED BY <2>1, <1>1, PlacesRest
<1> QED BY <1>2, <1>3, <1>4, Assembles DEF BookingKept, db

LEMMA SessionWritten ==
    ASSUME stripe \in [Checkout -> StripeSession], NEW c \in Checkout,
           NEW s \in {"none", "open", "complete", "expired"}, NEW l \in BOOLEAN,
           stripe' = [stripe EXCEPT ![c].session = s, ![c].late = l]
    PROVE  /\ stripe' \in [Checkout -> StripeSession]
           /\ \A d \in Checkout : d # c => stripe'[d] = stripe[d]
           /\ stripe'[c].refund = stripe[c].refund
           /\ stripe'[c].session = s /\ stripe'[c].late = l
<1>1. stripe[c] \in StripeSession /\ stripe'[c] = [stripe[c] EXCEPT !.session = s, !.late = l]
    OBVIOUS
<1>2. /\ stripe'[c] \in StripeSession /\ stripe'[c].refund = stripe[c].refund
      /\ stripe'[c].session = s /\ stripe'[c].late = l
    BY <1>1 DEF StripeSession
<1> QED BY <1>2

LEMMA SessionAlone ==
    ASSUME stripe \in [Checkout -> StripeSession], NEW c \in Checkout,
           NEW s \in {"none", "open", "complete", "expired"}
    PROVE  /\ [stripe EXCEPT ![c].session = s]
                = [stripe EXCEPT ![c].session = s, ![c].late = stripe[c].late]
           /\ stripe[c].late \in BOOLEAN
<1>1. stripe[c] \in StripeSession
    OBVIOUS
<1>2. [stripe[c] EXCEPT !.session = s] = [stripe[c] EXCEPT !.session = s, !.late = stripe[c].late]
    BY <1>1 DEF StripeSession
<1> QED BY <1>1, <1>2 DEF StripeSession

LEMMA SameRequestType ==
    ASSUME IInv, UNCHANGED request
    PROVE  /\ request' \in [Client -> PublicRequest]
           /\ \A j \in Client : request'[j] = request[j] \/ RequestSound(j)'
BY DEF IInv, TypeOK

LEMMA OpensStripe ==
    ASSUME ExperienceAssumption, IInv, NEW k \in Client, OpenStripe(k)
    PROVE  IInv'
<1> DEFINE c == request[k].of
           r == [request[k] EXCEPT !.pc = "link"]
<1>1. stripe \in [Checkout -> StripeSession] /\ request[k] \in PublicRequest /\ request[k] # Idle
    BY DEF IInv, TypeOK, OpenStripe, Idle
<1>2. c \in Checkout /\ row[c].status # "NONE"
    BY <1>1 DEF IInv, RequestSound, PublicRequest
<1>3. r \in [pc : {"create", "retrieve", "link"}, of : Checkout] /\ r.of = c
    BY <1>1 DEF PublicRequest
<1>4. request' = [request EXCEPT ![k] = r] /\ UNCHANGED <<clock, changes, db, acked, worker, desk, failures>>
    BY DEF OpenStripe
<1>5. /\ stripe' \in [Checkout -> StripeSession]
      /\ \A d \in Checkout : d # c => stripe'[d] = stripe[d]
      /\ stripe'[c].refund = stripe[c].refund /\ stripe'[c].late = stripe[c].late
      /\ stripe[c].late => stripe'[c].session = stripe[c].session
    <2>0. stripe[c].late => stripe[c].session = "complete"
        BY <1>2 DEF IInv, CheckoutSound, RowSound
    <2>1. CASE stripe[c].session = "none"
        <3>1. stripe' = [stripe EXCEPT ![c].session = "open"]
            BY <2>1 DEF OpenStripe
        <3>2. /\ stripe' = [stripe EXCEPT ![c].session = "open", ![c].late = stripe[c].late]
              /\ stripe[c].late \in BOOLEAN
            BY <3>1, <1>1, <1>2, SessionAlone
        <3> HIDE DEF c
        <3> QED BY <2>0, <2>1, <3>2, <1>1, <1>2, SessionWritten
    <2>2. CASE stripe[c].session # "none"
        BY <2>2, <1>1, <1>2 DEF OpenStripe
    <2> QED BY <2>1, <2>2
<1>7. stripe'[c].late => stripe'[c].session = "complete"
    BY <1>2, <1>5 DEF IInv, CheckoutSound, RowSound
<1> HIDE DEF r, c
<1>6. /\ request' \in [Client -> PublicRequest]
      /\ \A j \in Client : request'[j] = request[j] \/ RequestSound(j)'
    <2>1. row'[r.of].status # "NONE"
        BY <1>2, <1>3, <1>4 DEF db
    <2> QED BY <2>1, <1>3, <1>4, RequestGoesOn
<1> QED BY <1>2, <1>4, <1>5, <1>6, <1>7, StripeMoves

\* A session that is open moves on.
LEMMA OpenSessionMoves ==
    ASSUME ExperienceAssumption, IInv, NEW c \in Checkout, stripe[c].session = "open",
           NEW s \in {"complete", "expired"}, NEW l \in BOOLEAN, l => s = "complete",
           stripe' = [stripe EXCEPT ![c].session = s, ![c].late = l],
           UNCHANGED <<clock, changes, db, acked, web, failures>>
    PROVE  IInv'
<1>1. /\ stripe \in [Checkout -> StripeSession] /\ row[c].status # "NONE"
      /\ ~stripe[c].late
    BY DEF IInv, TypeOK, CheckoutSound, RowSound
<1>2. /\ stripe' \in [Checkout -> StripeSession]
      /\ \A d \in Checkout : d # c => stripe'[d] = stripe[d]
      /\ stripe'[c].refund = stripe[c].refund /\ stripe'[c].late = l /\ stripe'[c].session = s
    BY <1>1, SessionWritten
<1> QED BY <1>1, <1>2, SameRequestType, StripeMoves DEF web

LEMMA CustomersPay ==
    ASSUME ExperienceAssumption, IInv, NEW c \in Checkout, CustomerPays(c)
    PROVE  IInv'
<1> DEFINE l == row[c].expiresAt <= clock \/ StartsAt <= clock
<1>1. l \in BOOLEAN
    OBVIOUS
<1>2. stripe' = [stripe EXCEPT ![c].session = "complete", ![c].late = l]
    BY DEF CustomerPays
<1> HIDE DEF l
<1> QED BY <1>1, <1>2, OpenSessionMoves DEF CustomerPays

LEMMA SessionsEnd ==
    ASSUME ExperienceAssumption, IInv, NEW c \in Checkout,
           cancelPublicExperienceCheckout(c) \/ StripeExpires(c)
    PROVE  IInv'
<1>1. /\ stripe[c].session = "open" /\ stripe' = [stripe EXCEPT ![c].session = "expired"]
      /\ UNCHANGED <<clock, changes, db, acked, web, failures>>
    BY DEF cancelPublicExperienceCheckout, StripeExpires
<1>2. stripe \in [Checkout -> StripeSession] /\ stripe[c].late = FALSE
    BY <1>1 DEF IInv, TypeOK, StripeSession, CheckoutSound, RowSound
<1>3. stripe' = [stripe EXCEPT ![c].session = "expired", ![c].late = stripe[c].late]
    BY <1>1, <1>2, SessionAlone
<1> QED BY <1>1, <1>2, <1>3, OpenSessionMoves

LEMMA RefundsSettle ==
    ASSUME ExperienceAssumption, IInv, NEW c \in Checkout, RefundSettles(c)
    PROVE  IInv'
<1>1. /\ stripe \in [Checkout -> StripeSession] /\ stripe[c].refund.status = "pending"
      /\ RowSound(c) /\ UNCHANGED <<clock, changes, db, acked, web, failures>>
    BY DEF RefundSettles, IInv, TypeOK, CheckoutSound
<1>2. PICK o \in {"succeeded", "failed"} : stripe' = [stripe EXCEPT ![c].refund.status = o]
    BY DEF RefundSettles
<1> DEFINE f == [stripe[c].refund EXCEPT !.status = o]
<1>3. stripe[c].refund \in Refund
    BY <1>1 DEF StripeSession
<1>4. f \in Refund /\ f.key = stripe[c].refund.key
    BY <1>3 DEF Refund
<1>5. stripe'[c] = [stripe[c] EXCEPT !.refund = f]
    BY <1>1, <1>2
<1> HIDE DEF f
<1>6. stripe[c] \in StripeSession
    BY <1>1
<1>7. /\ stripe'[c] \in StripeSession /\ stripe'[c].refund = f
      /\ stripe'[c].session = stripe[c].session /\ stripe'[c].late = stripe[c].late
    BY <1>4, <1>5, <1>6 DEF StripeSession
<1>8. stripe' \in [Checkout -> StripeSession] /\ \A d \in Checkout : d # c => stripe'[d] = stripe[d]
    BY <1>1, <1>2, <1>7
<1>9. c \notin Free
    BY <1>1 DEF RowSound, NoRefund
<1> QED BY <1>1, <1>4, <1>7, <1>8, <1>9, SameRequestType, StripeMoves DEF web, RowSound

(***************************************************************************)
(* The rows                                                                *)
(***************************************************************************)
\* The row of c moves on, whoever moves it.
LEMMA RowMoves ==
    ASSUME ExperienceAssumption, IInv, TypeOK', NEW c \in Checkout,
           \A d \in Checkout : row'[d].price = row[d].price /\ row'[d].expiresAt = row[d].expiresAt,
           \A d \in Checkout : d # c => row'[d] = row[d],
           Free' = Free, row'[c].status \notin {"NONE", "OPEN"},
           row[c].status \in OwedOrRefunded => row'[c].status \in OwedOrRefunded,
           recorded \subseteq recorded',
           refundIds' \in {refundIds, refundIds \union {c}},
           intents' \subseteq intents \union {c},
           RowSound(c)', \A d \in Checkout : NothingLater(d) \/ LateSound(d)',
           UNCHANGED <<clock, changes, stripe, booking>>
    PROVE  /\ \A d \in Checkout : CheckoutSound(d)' /\ Kept(d)
           /\ \A i \in Slot : BookingKept(i)
           /\ NoOversell'
<1>1. TypeOK /\ NoOversell /\ changes \in Int /\ clock \in Int
    BY DEF IInv, TypeOK
<1>2. ASSUME NEW d \in Checkout PROVE CheckoutSound(d)' /\ Kept(d)
    <2>1. CheckoutSound(d)
        BY DEF IInv
    <2>2. CASE d # c
        <3>1. /\ row'[d] = row[d] /\ (d \in refundIds') = (d \in refundIds)
              /\ d \in intents' => d \in intents
              /\ d \in recorded => d \in recorded'
            BY <2>2
        <3> QED BY <1>1, <2>1, <3>1, CheckoutRests
    <2>3. CASE d = c
        <3>1. Kept(c)
            BY DEF Kept
        <3>2. LateSound(c)'
            BY <2>1, <2>3 DEF NothingLater, CheckoutSound, LateSound
        <3>3. CancelledSound(c)'
            BY <2>1, <2>3 DEF CheckoutSound, CancelledSound, OwedOrRefunded, Refunded
        <3> QED BY <2>3, <3>1, <3>2, <3>3 DEF CheckoutSound
    <2> QED BY <2>2, <2>3
<1>3. NoOversell'
    <2>1. Confirmed' \subseteq Confirmed
        BY DEF Confirmed
    <2>2. \A d \in Checkout : row'[d].status = "OPEN" => row[d].status = "OPEN"
        OBVIOUS
    <2>3. Held(clock)' \subseteq Held(clock)
        BY <1>1, <2>2, HeldRest DEF TypeOK
    <2> QED BY <1>1, <2>1, <2>3, PlacesRest
<1> QED BY <1>2, <1>3 DEF BookingKept

LEMMA ExpiresRow ==
    ASSUME ExperienceAssumption, IInv, NEW c \in Checkout, ExpireRow(c)
    PROVE  IInv'
<1>1. TypeOK /\ CheckoutSound(c) /\ row' = [row EXCEPT ![c].status = "EXPIRED"]
    BY DEF IInv, ExpireRow
<1>2. /\ row' \in [Checkout -> Row] /\ row'[c].status = "EXPIRED"
      /\ \A d \in Checkout : row'[d].price = row[d].price /\ row'[d].expiresAt = row[d].expiresAt
      /\ \A d \in Checkout : d # c => row'[d] = row[d]
      /\ Free' = Free
    BY <1>1, StatusWritten DEF TypeOK, RowStatus
<1>3. TypeOK'
    BY <1>1, <1>2 DEF ExpireRow, TypeOK, web
<1>4. booking[c] = "NONE" /\ row[c].status = "OPEN"
    BY <1>1 DEF ExpireRow, CheckoutSound, RowSound, Settled, Refunded
<1>5. RowSound(c)'
    BY <1>1, <1>2, <1>4 DEF ExpireRow, CheckoutSound, RowSound, OwedOrRefunded, Refunded, Settled
<1>6. \A d \in Checkout : NothingLater(d)
    BY NobodyElse DEF ExpireRow, web
<1>7. /\ \A d \in Checkout : CheckoutSound(d)' /\ Kept(d)
      /\ \A i \in Slot : BookingKept(i)
      /\ NoOversell'
    BY <1>2, <1>3, <1>4, <1>5, <1>6, RowMoves DEF ExpireRow, OwedOrRefunded, Refunded
<1> QED BY <1>3, <1>7, Assembles DEF ExpireRow, web

LEMMA HandlesRefundEvent ==
    ASSUME ExperienceAssumption, IInv, NEW c \in Checkout, handleExperienceRefundStripeEvent(c)
    PROVE  IInv'
<1>1. TypeOK /\ CheckoutSound(c)
    BY DEF IInv
<1>2. /\ c \notin Free /\ c \in intents /\ c \in recorded /\ stripe[c].refund.key # "none"
      /\ UNCHANGED <<clock, changes, linked, intents, booking, recorded, stripe, acked, web, failures>>
    BY <1>1 DEF handleExperienceRefundStripeEvent, TypeOK, CheckoutSound, RowSound
<1>3. PICK answer \in {stripe[c].refund.reply, stripe[c].refund.status} :
        persistExperienceRefund(c, answer)
    BY DEF handleExperienceRefundStripeEvent
<1>4. /\ row' \in [Checkout -> Row]
      /\ row'[c].status \in OwedOrRefunded
      /\ \A d \in Checkout : row'[d].price = row[d].price /\ row'[d].expiresAt = row[d].expiresAt
      /\ \A d \in Checkout : d # c => row'[d] = row[d]
      /\ Free' = Free
      /\ refundIds' \in {refundIds, refundIds \union {c}}
      /\ refundIds' \subseteq Checkout \ Free
      /\ row'[c].status \in Refunded \/ c \in refundIds'
    BY <1>1, <1>2, <1>3, RefundStored DEF TypeOK
<1>5. TypeOK'
    BY <1>1, <1>2, <1>4 DEF TypeOK, web
<1>6. RowSound(c)'
    BY <1>1, <1>2, <1>4 DEF CheckoutSound, RowSound, OwedOrRefunded, Refunded, Settled
<1>7. \A d \in Checkout : NothingLater(d)
    BY <1>2, NobodyElse DEF web
<1>8. row'[c].status \notin {"NONE", "OPEN"}
    BY <1>4 DEF OwedOrRefunded, Refunded
<1>9. /\ \A d \in Checkout : CheckoutSound(d)' /\ Kept(d)
      /\ \A i \in Slot : BookingKept(i)
      /\ NoOversell'
    BY <1>2, <1>4, <1>5, <1>6, <1>7, <1>8, RowMoves
<1> QED BY <1>2, <1>5, <1>9, Assembles DEF web

(***************************************************************************)
(* The webhook                                                             *)
(***************************************************************************)
LEMMA DeliveryGoesOn ==
    ASSUME TypeOK, NEW w \in Worker, NEW r \in Delivery, worker' = [worker EXCEPT ![w] = r],
           r = Idle \/ DeliverySound(w)'
    PROVE  /\ worker' \in [Worker -> Delivery] /\ worker'[w] = r
           /\ \A v \in Worker : v # w => worker'[v] = worker[v]
           /\ \A v \in Worker : worker'[v] = worker[v] \/ DeliverySound(v)'
<1>1. /\ worker' \in [Worker -> Delivery] /\ worker'[w] = r
      /\ \A v \in Worker : v # w => worker'[v] = worker[v]
    BY DEF TypeOK
<1>2. DeliverySound(w)'
    BY <1>1 DEF DeliverySound
<1> QED BY <1>1, <1>2

LEMMA Answers ==
    ASSUME ExperienceAssumption, TypeOK, NEW w \in Worker, NEW c \in Checkout, Answer(w, c)
    PROVE  /\ recorded' = recorded \union {c} /\ recorded' \subseteq Checkout
           /\ acked' \subseteq recorded' /\ failures' \in 0..MaxFailures
           /\ worker' \in [Worker -> Delivery]
           /\ worker' = [worker EXCEPT ![w] = Idle]
           /\ \A v \in Worker : worker'[v] = worker[v] \/ DeliverySound(v)'
           /\ \A v \in Worker : worker'[v] = worker[v] \/ worker'[v] = Idle
<1>1. /\ recorded' = recorded \union {c} /\ worker' = [worker EXCEPT ![w] = Idle]
      /\ acked' \subseteq acked \union {c}
    BY DEF Answer, Respond
<1>2. failures' \in 0..MaxFailures
    BY DEF Answer, Respond, TypeOK, ExperienceAssumption
<1>3. Idle \in Delivery
    BY DEF Delivery
<1> QED BY <1>1, <1>2, <1>3, DeliveryGoesOn DEF TypeOK

LEMMA NothingBegins ==
    ASSUME UNCHANGED stripe, \A v \in Worker : worker'[v] = worker[v] \/ worker'[v] = Idle
    PROVE  \A d \in Checkout : NothingLater(d)
BY LateRests

\* What a delivery that is at work knows.
LEMMA AtWork ==
    ASSUME IInv, NEW w \in Worker, worker[w].pc # "idle"
    PROVE  /\ worker[w].of \in Checkout /\ worker[w] # Idle
           /\ worker[w] \in [pc : {"replay", "expire", "refund", "store", "confirm", "owed",
                                   "persist"}, of : Checkout]
           /\ row[worker[w].of].status # "NONE"
           /\ worker[w].pc = "expire" => worker[w].of \in Free
           /\ worker[w].pc \in {"refund", "store", "owed", "persist"} => worker[w].of \notin Free
           /\ worker[w].pc \in {"store", "persist"} => stripe[worker[w].of].refund.key # "none"
           /\ worker[w].pc \in {"owed", "persist"} =>
                worker[w].of \in recorded /\ row[worker[w].of].status \in OwedOrRefunded
           /\ CheckoutSound(worker[w].of)
<1>1. worker[w] \in Delivery /\ worker[w] # Idle
    BY DEF IInv, TypeOK, Idle
<1>2. worker[w].of \in Checkout
    BY <1>1 DEF Delivery
<1> QED BY <1>1, <1>2 DEF IInv, DeliverySound, Delivery

LEMMA RecordsReplay ==
    ASSUME ExperienceAssumption, IInv, NEW w \in Worker, RecordReplay(w)
    PROVE  IInv'
<1>1. worker[w].of \in Checkout /\ TypeOK
    BY AtWork DEF RecordReplay, IInv
<1>2. /\ recorded' = recorded \union {worker[w].of} /\ recorded' \subseteq Checkout
      /\ acked' \subseteq recorded' /\ failures' \in 0..MaxFailures
      /\ worker' \in [Worker -> Delivery]
      /\ \A v \in Worker : worker'[v] = worker[v] \/ DeliverySound(v)'
      /\ \A v \in Worker : worker'[v] = worker[v] \/ worker'[v] = Idle
    BY <1>1, Answers DEF RecordReplay
<1>3. TypeOK'
    BY <1>1, <1>2, SameRows DEF RecordReplay, TypeOK
<1>4. \A d \in Checkout : NothingLater(d)
    BY <1>2, NothingBegins DEF RecordReplay
<1>5. /\ \A d \in Checkout : CheckoutSound(d)' /\ Kept(d)
      /\ \A i \in Slot : BookingKept(i)
      /\ NoOversell'
    BY <1>1, <1>2, <1>3, <1>4, Quiet DEF RecordReplay, TypeOK
<1> QED BY <1>2, <1>3, <1>5, Assembles DEF RecordReplay

LEMMA ReadsCompleted ==
    ASSUME ExperienceAssumption, IInv, NEW w \in Worker, NEW c \in Checkout, ReadCompleted(w, c)
    PROVE  IInv'
<1> DEFINE pc == CASE Settled(c) -> "replay"
                   [] ~Settled(c) /\ ShouldRefund(c) /\ c \in Free -> "expire"
                   [] ~Settled(c) /\ ShouldRefund(c) /\ c \notin Free -> "refund"
                   [] OTHER -> "confirm"
           r == At(pc, c)
<1>1. TypeOK /\ CheckoutSound(c) /\ worker[w] = Idle /\ row[c].status # "NONE"
    BY DEF IInv, ReadCompleted, CheckoutSound, RowSound
<1>2. worker' = [worker EXCEPT ![w] = r]
    BY DEF ReadCompleted
<1>3. /\ pc \in {"replay", "expire", "refund", "confirm"}
      /\ pc = "expire" => c \in Free
      /\ pc = "refund" => c \notin Free /\ ~Settled(c) /\ ShouldRefund(c)
    OBVIOUS
<1> HIDE DEF pc
<1>4. r \in Delivery /\ r.pc = pc /\ r.of = c
    BY <1>3 DEF At, Delivery
<1> HIDE DEF r
<1>5. UNCHANGED <<clock, changes, db, stripe, acked, request, desk, failures>>
    BY DEF ReadCompleted
<1>6. Free' = Free
    BY <1>5, SameRows DEF db
<1>7. worker'[w] = r
    BY <1>1, <1>2 DEF TypeOK
<1>8. DeliverySound(w)'
    BY <1>1, <1>3, <1>4, <1>5, <1>6, <1>7 DEF DeliverySound, db
<1>9. /\ worker' \in [Worker -> Delivery]
      /\ \A v \in Worker : v # w => worker'[v] = worker[v]
      /\ \A v \in Worker : worker'[v] = worker[v] \/ DeliverySound(v)'
    BY <1>1, <1>2, <1>4, <1>8, DeliveryGoesOn
<1>10. TypeOK'
    BY <1>1, <1>5, <1>6, <1>9 DEF TypeOK, db
<1>11. ASSUME NEW d \in Checkout PROVE NothingLater(d) \/ LateSound(d)'
    <2>1. CASE d # c \/ pc # "refund"
        <3>1. \A v \in Worker : worker'[v] # worker[v] =>
                 worker'[v].of # d \/ worker'[v].pc \notin {"refund", "owed"}
            BY <1>3, <1>4, <1>7, <1>9, <2>1
        <3>2. NothingLater(d)
            BY <1>5, <3>1, LateRests
        <3> QED BY <3>2
    <2>2. CASE d = c /\ pc = "refund"
        <3>1. booking[c] = "NONE"
            BY <1>1, <1>3, <2>2 DEF CheckoutSound, RowSound
        <3>2. changes \in Nat
            BY <1>1 DEF TypeOK, ExperienceAssumption
        <3>3. row[c].status \notin {"NONE", "OPEN"} \/ stripe[c].late \/ changes >= 1
            BY <1>1, <1>3, <2>2, <3>2 DEF ShouldRefund, SessionOpen
        <3> QED BY <1>5, <2>2, <3>1, <3>3 DEF LateSound, db
    <2> QED BY <2>1, <2>2
<1>12. changes \in Int /\ clock \in Int
    BY <1>1 DEF TypeOK
<1>13. /\ \A d \in Checkout : CheckoutSound(d)' /\ Kept(d)
       /\ \A i \in Slot : BookingKept(i)
       /\ NoOversell'
    BY <1>5, <1>10, <1>11, <1>12, Quiet DEF db
<1> QED BY <1>5, <1>9, <1>10, <1>13, Assembles

LEMMA ExpiresFree ==
    ASSUME ExperienceAssumption, IInv, NEW w \in Worker, ExpireFree(w)
    PROVE  IInv'
<1>0. PICK c \in Checkout : c = worker[w].of
    BY AtWork DEF ExpireFree
<1>1. TypeOK /\ CheckoutSound(c) /\ c \in Free /\ row[c].status # "NONE"
    BY <1>0, AtWork DEF ExpireFree, IInv
<1>2. /\ recorded' = recorded \union {c} /\ recorded' \subseteq Checkout
      /\ acked' \subseteq recorded' /\ failures' \in 0..MaxFailures
      /\ worker' \in [Worker -> Delivery]
      /\ \A v \in Worker : worker'[v] = worker[v] \/ DeliverySound(v)'
      /\ \A v \in Worker : worker'[v] = worker[v] \/ worker'[v] = Idle
    BY <1>0, <1>1, Answers DEF ExpireFree
<1>3. \A d \in Checkout : NothingLater(d)
    BY <1>2, NothingBegins DEF ExpireFree
<1>4. UNCHANGED <<clock, changes, linked, intents, refundIds, booking, stripe, request, desk>>
    BY DEF ExpireFree
<1>5. CASE c \in recorded
    <2>1. UNCHANGED row
        BY <1>0, <1>5 DEF ExpireFree
    <2>2. TypeOK'
        BY <1>1, <1>2, <1>4, <2>1, SameRows DEF TypeOK
    <2>3. /\ \A d \in Checkout : CheckoutSound(d)' /\ Kept(d)
          /\ \A i \in Slot : BookingKept(i)
          /\ NoOversell'
        BY <1>1, <1>2, <1>3, <1>4, <2>1, <2>2, Quiet DEF TypeOK
    <2> QED BY <1>2, <1>4, <2>2, <2>3, Assembles
<1>6. CASE c \notin recorded
    <2>1. row' = [row EXCEPT ![c].status = "EXPIRED"]
        BY <1>0, <1>6 DEF ExpireFree
    <2>2. /\ row' \in [Checkout -> Row] /\ row'[c].status = "EXPIRED"
          /\ \A d \in Checkout : row'[d].price = row[d].price /\ row'[d].expiresAt = row[d].expiresAt
          /\ \A d \in Checkout : d # c => row'[d] = row[d]
          /\ Free' = Free
        BY <1>1, <2>1, StatusWritten DEF TypeOK, RowStatus
    <2>3. TypeOK'
        BY <1>1, <1>2, <1>4, <2>2 DEF TypeOK
    <2>4. booking[c] = "NONE" /\ row[c].status \notin OwedOrRefunded
        BY <1>1, <1>6 DEF CheckoutSound, RowSound
    <2>5. RowSound(c)'
        <3>1. RowSound(c) /\ c \in recorded' /\ c \in Free'
            BY <1>1, <1>2, <2>2 DEF CheckoutSound
        <3> QED BY <1>4, <2>2, <2>4, <3>1 DEF RowSound, OwedOrRefunded, Refunded
    <2>6. /\ \A d \in Checkout : CheckoutSound(d)' /\ Kept(d)
          /\ \A i \in Slot : BookingKept(i)
          /\ NoOversell'
        <3>1. /\ row'[c].status \notin {"NONE", "OPEN"} /\ recorded \subseteq recorded'
              /\ refundIds' \in {refundIds, refundIds \union {c}}
              /\ intents' \subseteq intents \union {c}
            BY <1>2, <1>4, <2>2
        <3> QED BY <1>1, <1>3, <1>4, <2>2, <2>3, <2>4, <2>5, <3>1, RowMoves
    <2> QED BY <1>2, <1>4, <2>3, <2>6, Assembles
<1> QED BY <1>5, <1>6

\* A refund is asked for, under either key.
LEMMA RefundBegins ==
    ASSUME ExperienceAssumption, IInv, TypeOK', NEW c \in Checkout, c \notin Free,
           NEW key \in {"late", "cancel"}, createRefund(c, key),
           key = "late" => RefundedLate(c),
           \A v \in Worker : worker'[v] # worker[v] => worker'[v].pc \notin {"refund", "owed"},
           UNCHANGED <<clock, changes, db>>
    PROVE  /\ \A d \in Checkout : CheckoutSound(d)' /\ Kept(d)
           /\ \A i \in Slot : BookingKept(i)
           /\ NoOversell'
           /\ stripe'[c].refund.key = key
<1>1. TypeOK /\ NoOversell /\ changes \in Int /\ clock \in Int
    BY DEF IInv, TypeOK
<1>2. /\ stripe'[c].refund.key = key /\ stripe[c].refund.key \in {key, "none"}
      /\ stripe'[c].session = stripe[c].session /\ stripe'[c].late = stripe[c].late
      /\ \A d \in Checkout : d # c => stripe'[d] = stripe[d]
    BY <1>1, RefundMade DEF TypeOK
<1>3. ASSUME NEW d \in Checkout PROVE CheckoutSound(d)' /\ Kept(d)
    <2>1. /\ UNCHANGED <<row, booking, intents, recorded, refundIds, changes>>
          /\ CheckoutSound(d)
        BY DEF db, IInv
    <2>2. CASE d # c
        <3>1. NothingLater(d)
            BY <1>2, <2>2, LateRests
        <3> QED BY <1>1, <1>2, <2>1, <2>2, <3>1, CheckoutRests
    <2>3. CASE d = c
        <3>1. Kept(c)
            BY <2>1, <1>2 DEF Kept
        <3>2. c \notin Free'
            BY <2>1, SameRows
        <3>3. RowSound(c)'
            BY <2>1, <2>3, <3>2, <1>2 DEF CheckoutSound, RowSound, OwedOrRefunded, Refunded, Settled
        <3>4. NothingLater(c)
            BY <1>2 DEF NothingLater, RefundedLate
        <3>5. LateSound(c)'
            BY <3>4, <1>2, <2>1, <2>3 DEF CheckoutSound, LateSound, NothingLater
        <3>6. CancelledSound(c)'
            BY <1>2, <2>1, <2>3 DEF CheckoutSound, CancelledSound, OwedOrRefunded, Refunded
        <3> QED BY <2>3, <3>1, <3>3, <3>5, <3>6 DEF CheckoutSound
    <2> QED BY <2>2, <2>3
<1>4. NoOversell'
    <2>1. Held(clock)' = Held(clock) /\ Confirmed' = Confirmed
        BY DEF Held, Confirmed, db
    <2> QED BY <2>1, <1>1, PlacesRest
<1> QED BY <1>2, <1>3, <1>4 DEF BookingKept, db

LEMMA AsksForLateRefund ==
    ASSUME ExperienceAssumption, IInv, NEW w \in Worker, CreateLateRefund(w) \/ CallRefund(w)
    PROVE  IInv'
<1>0. PICK c \in Checkout : c = worker[w].of
    BY AtWork DEF CreateLateRefund, CallRefund
<1>1. /\ TypeOK /\ c \notin Free /\ row[c].status # "NONE" /\ worker[w] # Idle
      /\ worker[w] \in [pc : {"replay", "expire", "refund", "store", "confirm", "owed",
                              "persist"}, of : Checkout]
    BY <1>0, AtWork DEF CreateLateRefund, CallRefund, IInv
<1>2. PICK next \in {"store", "persist"} :
        /\ worker' = [worker EXCEPT ![w].pc = next]
        /\ next = "store" => worker[w].pc = "refund"
        /\ next = "persist" => worker[w].pc = "owed"
    BY DEF CreateLateRefund, CallRefund
<1>3. /\ createRefund(c, "late")
      /\ UNCHANGED <<clock, changes, db, acked, request, desk, failures>>
    BY <1>0 DEF CreateLateRefund, CallRefund
<1> DEFINE r == [worker[w] EXCEPT !.pc = next]
<1>4. r \in Delivery /\ r.pc = next /\ r.of = c /\ worker' = [worker EXCEPT ![w] = r]
    BY <1>0, <1>1, <1>2 DEF Delivery
<1> HIDE DEF r
<1>5. worker' \in [Worker -> Delivery] /\ worker'[w] = r /\ \A v \in Worker : v # w => worker'[v] = worker[v]
    BY <1>1, <1>4 DEF TypeOK
<1>6. stripe' \in [Checkout -> StripeSession] /\ stripe'[c].refund.key = "late"
    BY <1>1, <1>3, RefundMade DEF TypeOK
<1>7. Free' = Free
    BY <1>3, SameRows DEF db
<1>8. TypeOK'
    BY <1>1, <1>3, <1>5, <1>6, <1>7 DEF TypeOK, db
<1>9. RefundedLate(c)
    BY <1>0, <1>1, <1>2 DEF RefundedLate
<1>10. \A v \in Worker : worker'[v] # worker[v] => worker'[v].pc \notin {"refund", "owed"}
    BY <1>4, <1>5
<1>11. /\ \A d \in Checkout : CheckoutSound(d)' /\ Kept(d)
       /\ \A i \in Slot : BookingKept(i)
       /\ NoOversell'
    BY <1>1, <1>3, <1>8, <1>9, <1>10, RefundBegins
<1>12. DeliverySound(w)'
    <2>1. next = "persist" => c \in recorded /\ row[c].status \in OwedOrRefunded
        BY <1>0, <1>2, AtWork
    <2>2. row' = row /\ recorded' = recorded
        BY <1>3 DEF db
    <2> QED BY <1>1, <1>2, <1>4, <1>5, <1>6, <1>7, <2>1, <2>2
            DEF DeliverySound, OwedOrRefunded, Refunded
<1>13. \A v \in Worker : worker'[v] = worker[v] \/ DeliverySound(v)'
    BY <1>5, <1>12
<1> QED BY <1>3, <1>8, <1>11, <1>13, Assembles

LEMMA StoresLateRefund ==
    ASSUME ExperienceAssumption, IInv, NEW w \in Worker, StoreLateRefund(w)
    PROVE  IInv'
<1>0. PICK c \in Checkout : c = worker[w].of
    BY AtWork DEF StoreLateRefund
<1>1. /\ TypeOK /\ CheckoutSound(c) /\ c \notin Free /\ row[c].status # "NONE"
      /\ stripe[c].refund.key # "none"
    BY <1>0, AtWork DEF StoreLateRefund, IInv
<1>2. /\ recorded' = recorded \union {c} /\ recorded' \subseteq Checkout
      /\ acked' \subseteq recorded' /\ failures' \in 0..MaxFailures
      /\ worker' \in [Worker -> Delivery]
      /\ \A v \in Worker : worker'[v] = worker[v] \/ DeliverySound(v)'
      /\ \A v \in Worker : worker'[v] = worker[v] \/ worker'[v] = Idle
    BY <1>0, <1>1, Answers DEF StoreLateRefund
<1>3. \A d \in Checkout : NothingLater(d)
    BY <1>2, NothingBegins DEF StoreLateRefund
<1>4. UNCHANGED <<clock, changes, linked, booking, stripe, request, desk>>
    BY DEF StoreLateRefund
<1>5. CASE c \in recorded
    <2>1. UNCHANGED <<row, refundIds, intents>>
        BY <1>0, <1>5 DEF StoreLateRefund
    <2>2. TypeOK'
        BY <1>1, <1>2, <1>4, <2>1, SameRows DEF TypeOK
    <2>3. /\ \A d \in Checkout : CheckoutSound(d)' /\ Kept(d)
          /\ \A i \in Slot : BookingKept(i)
          /\ NoOversell'
        BY <1>1, <1>2, <1>3, <1>4, <2>1, <2>2, Quiet DEF TypeOK
    <2> QED BY <1>2, <1>4, <2>2, <2>3, Assembles
<1>6. CASE c \notin recorded
    <2>1. /\ persistExperienceRefund(c, stripe[c].refund.reply)
          /\ intents' \in {intents, intents \union {c}}
        BY <1>0, <1>6 DEF StoreLateRefund
    <2>2. /\ row' \in [Checkout -> Row]
          /\ row'[c].status \in OwedOrRefunded
          /\ \A d \in Checkout : row'[d].price = row[d].price /\ row'[d].expiresAt = row[d].expiresAt
          /\ \A d \in Checkout : d # c => row'[d] = row[d]
          /\ Free' = Free
          /\ refundIds' \in {refundIds, refundIds \union {c}}
          /\ refundIds' \subseteq Checkout \ Free
          /\ row'[c].status \in Refunded \/ c \in refundIds'
        BY <1>1, <2>1, RefundStored DEF TypeOK
    <2>3. TypeOK'
        BY <1>1, <1>2, <1>4, <2>1, <2>2 DEF TypeOK
    <2>4. RowSound(c)'
        <3>1. RowSound(c) /\ c \in recorded' /\ c \notin Free'
            BY <1>1, <1>2, <2>2 DEF CheckoutSound
        <3> QED BY <1>1, <1>4, <2>2, <3>1 DEF RowSound, OwedOrRefunded, Refunded, Settled
    <2>5. /\ row'[c].status \notin {"NONE", "OPEN"} /\ recorded \subseteq recorded'
          /\ intents' \subseteq intents \union {c}
        BY <1>2, <2>1, <2>2 DEF OwedOrRefunded, Refunded
    <2>6. /\ \A d \in Checkout : CheckoutSound(d)' /\ Kept(d)
          /\ \A i \in Slot : BookingKept(i)
          /\ NoOversell'
        BY <1>3, <1>4, <2>2, <2>3, <2>4, <2>5, RowMoves
    <2> QED BY <1>2, <1>4, <2>3, <2>6, Assembles
<1> QED BY <1>5, <1>6

LEMMA PersistsRefund ==
    ASSUME ExperienceAssumption, IInv, NEW w \in Worker, PersistRefund(w)
    PROVE  IInv'
<1>0. PICK c \in Checkout : c = worker[w].of
    BY AtWork DEF PersistRefund
<1>1. /\ TypeOK /\ CheckoutSound(c) /\ c \notin Free /\ row[c].status # "NONE"
      /\ stripe[c].refund.key # "none"
    BY <1>0, AtWork DEF PersistRefund, IInv
<1>2. /\ recorded' = recorded \union {c} /\ recorded' \subseteq Checkout
      /\ acked' \subseteq recorded' /\ failures' \in 0..MaxFailures
      /\ worker' \in [Worker -> Delivery]
      /\ \A v \in Worker : worker'[v] = worker[v] \/ DeliverySound(v)'
      /\ \A v \in Worker : worker'[v] = worker[v] \/ worker'[v] = Idle
    BY <1>0, <1>1, Answers DEF PersistRefund
<1>3. \A d \in Checkout : NothingLater(d)
    BY <1>2, NothingBegins DEF PersistRefund
<1>4. UNCHANGED <<clock, changes, linked, intents, booking, stripe, request, desk>>
    BY DEF PersistRefund
<1>5. /\ row' \in [Checkout -> Row]
      /\ row'[c].status \in OwedOrRefunded
      /\ \A d \in Checkout : row'[d].price = row[d].price /\ row'[d].expiresAt = row[d].expiresAt
      /\ \A d \in Checkout : d # c => row'[d] = row[d]
      /\ Free' = Free
      /\ refundIds' \in {refundIds, refundIds \union {c}}
      /\ refundIds' \subseteq Checkout \ Free
      /\ row'[c].status \in Refunded \/ c \in refundIds'
    BY <1>0, <1>1, RefundStored DEF TypeOK, PersistRefund
<1>6. TypeOK'
    BY <1>1, <1>2, <1>4, <1>5 DEF TypeOK
<1>7. RowSound(c)'
    <2>1. RowSound(c) /\ c \in recorded' /\ c \notin Free'
        BY <1>1, <1>2, <1>5 DEF CheckoutSound
    <2> QED BY <1>1, <1>4, <1>5, <2>1 DEF RowSound, OwedOrRefunded, Refunded, Settled
<1>8. /\ row'[c].status \notin {"NONE", "OPEN"} /\ recorded \subseteq recorded'
      /\ intents' \subseteq intents \union {c}
    BY <1>2, <1>4, <1>5 DEF OwedOrRefunded, Refunded
<1>9. /\ \A d \in Checkout : CheckoutSound(d)' /\ Kept(d)
      /\ \A i \in Slot : BookingKept(i)
      /\ NoOversell'
    BY <1>3, <1>4, <1>5, <1>6, <1>7, <1>8, RowMoves
<1> QED BY <1>2, <1>4, <1>6, <1>9, Assembles

\* What the transaction of a confirmation begins with.
LEMMA Confirming ==
    ASSUME IInv, NEW w \in Worker, worker[w].pc = "confirm", NEW c \in Checkout, c = worker[w].of
    PROVE  /\ TypeOK /\ CheckoutSound(c) /\ worker[w] # Idle
           /\ row[c].status # "NONE"
           /\ worker[w] \in [pc : {"replay", "expire", "refund", "store", "confirm", "owed",
                                   "persist"}, of : Checkout]
           /\ c \notin recorded => booking[c] = "NONE" /\ row[c].status \notin OwedOrRefunded
BY AtWork DEF IInv, CheckoutSound, RowSound

LEMMA AnswersAlready ==
    ASSUME ExperienceAssumption, IInv, NEW w \in Worker, worker[w].pc = "confirm",
           NEW c \in Checkout, c = worker[w].of, Answer(w, c),
           UNCHANGED <<row, intents, booking, clock, changes, linked, refundIds, stripe, request, desk>>
    PROVE  IInv'
<1>1. TypeOK /\ CheckoutSound(c)
    BY Confirming
<1>2. /\ recorded' = recorded \union {c} /\ recorded' \subseteq Checkout
      /\ acked' \subseteq recorded' /\ failures' \in 0..MaxFailures
      /\ worker' \in [Worker -> Delivery]
      /\ \A v \in Worker : worker'[v] = worker[v] \/ DeliverySound(v)'
      /\ \A v \in Worker : worker'[v] = worker[v] \/ worker'[v] = Idle
    BY <1>1, Answers
<1>3. \A d \in Checkout : NothingLater(d)
    BY <1>2, NothingBegins
<1>4. TypeOK'
    BY <1>1, <1>2, SameRows DEF TypeOK
<1>5. /\ \A d \in Checkout : CheckoutSound(d)' /\ Kept(d)
      /\ \A i \in Slot : BookingKept(i)
      /\ NoOversell'
    BY <1>1, <1>2, <1>3, <1>4, Quiet DEF TypeOK
<1> QED BY <1>2, <1>4, <1>5, Assembles

LEMMA Books ==
    ASSUME ExperienceAssumption, IInv, NEW w \in Worker, worker[w].pc = "confirm",
           NEW c \in Checkout, c = worker[w].of, Answer(w, c),
           c \notin recorded, StillAvailable(c),
           booking' = [booking EXCEPT ![c] = "CONFIRMED"],
           row' = [row EXCEPT ![c].status = IF c \in Free THEN "FREE" ELSE "PAID"],
           intents' = IF c \in Free THEN intents ELSE intents \union {c},
           UNCHANGED <<clock, changes, linked, refundIds, stripe, request, desk>>
    PROVE  IInv'
<1>1. /\ TypeOK /\ CheckoutSound(c) /\ booking[c] = "NONE" /\ row[c].status \notin OwedOrRefunded
      /\ row[c].status # "NONE" /\ c \in Slot
    BY Confirming DEF Slot
<1>2. /\ recorded' = recorded \union {c} /\ recorded' \subseteq Checkout
      /\ acked' \subseteq recorded' /\ failures' \in 0..MaxFailures
      /\ worker' \in [Worker -> Delivery]
      /\ \A v \in Worker : worker'[v] = worker[v] \/ DeliverySound(v)'
      /\ \A v \in Worker : worker'[v] = worker[v] \/ worker'[v] = Idle
    BY <1>1, Answers
<1>3. \A d \in Checkout : NothingLater(d)
    BY <1>2, NothingBegins
<1> DEFINE s == IF c \in Free THEN "FREE" ELSE "PAID"
<1>4. s \in RowStatus /\ s = (IF c \in Free THEN "FREE" ELSE "PAID")
      /\ row' = [row EXCEPT ![c].status = s]
    BY DEF RowStatus
<1> HIDE DEF s
<1>5. /\ row' \in [Checkout -> Row] /\ row'[c].status = s
      /\ \A d \in Checkout : row'[d].price = row[d].price /\ row'[d].expiresAt = row[d].expiresAt
      /\ \A d \in Checkout : d # c => row'[d] = row[d]
      /\ Free' = Free
    <2>1. row \in [Checkout -> Row]
        BY <1>1 DEF TypeOK
    <2> QED BY ONLY <1>4, <2>1, c \in Checkout, StatusWritten
<1>6. /\ booking' \in [Slot -> {"NONE", "CONFIRMED", "CANCELLED"}] /\ booking'[c] = "CONFIRMED"
      /\ \A i \in Slot : i # c => booking'[i] = booking[i]
    BY <1>1 DEF TypeOK
<1>7. TypeOK'
    BY <1>1, <1>2, <1>5, <1>6 DEF TypeOK
<1>8. ASSUME NEW d \in Checkout PROVE CheckoutSound(d)' /\ Kept(d)
    <2>1. CheckoutSound(d) /\ changes \in Nat /\ d \in Slot
        BY <1>1 DEF IInv, TypeOK, ExperienceAssumption, Slot
    <2>2. CASE d # c
        <3>1. /\ row'[d] = row[d] /\ (d \in refundIds') = (d \in refundIds)
              /\ booking'[d] = booking[d] /\ stripe'[d] = stripe[d]
              /\ d \in intents' => d \in intents
              /\ d \in recorded => d \in recorded'
            BY <1>2, <1>5, <1>6, <2>1, <2>2
        <3> QED BY <1>1, <1>3, <1>7, <2>1, <3>1, CheckoutRests
    <2>3. CASE d = c
        <3>1. Kept(c)
            BY <1>1, <1>2, <1>4, <1>5 DEF Kept
        <3>2. RowSound(c)'
            <4>1. RowSound(c) /\ c \in recorded' /\ (c \in Free') = (c \in Free)
                BY <1>1, <1>2, <1>5 DEF CheckoutSound
            <4> QED BY <1>4, <1>5, <4>1 DEF RowSound, OwedOrRefunded, Refunded, Settled
        <3>3. LateSound(c)'
            <4>1. RefundedLate(c)' => changes >= 1
                BY <1>1, <1>3 DEF CheckoutSound, LateSound, NothingLater, StillAvailable, ShouldRefund
            <4>2. changes >= 1 => changes >= 2
                BY <2>1 DEF StillAvailable, ShouldRefund, SessionOpen
            <4> QED BY <1>6, <4>1, <4>2 DEF LateSound
        <3>4. CancelledSound(c)'
            BY <1>6 DEF CancelledSound
        <3> QED BY <2>3, <3>1, <3>2, <3>3, <3>4 DEF CheckoutSound
    <2> QED BY <2>2, <2>3
<1>9. NoOversell'
    <2>1. clock \in Int /\ Used(clock, c) + Places[c] <= Capacity /\ row \in [Checkout -> Row]
        BY <1>1 DEF StillAvailable, TypeOK
    <2>2. Confirmed' \subseteq Confirmed \union {c}
        BY <1>6 DEF Confirmed
    <2>3. Held(clock)' \subseteq Held(clock) \ {c}
        BY <1>4, <1>5 DEF Held
    <2> QED BY <1>1, <2>1, <2>2, <2>3, PlacesGiven
<1> QED BY <1>2, <1>6, <1>7, <1>8, <1>9, Assembles DEF BookingKept

LEMMA ConfirmExpiresFree ==
    ASSUME ExperienceAssumption, IInv, NEW w \in Worker, worker[w].pc = "confirm",
           NEW c \in Checkout, c = worker[w].of, Answer(w, c),
           c \notin recorded, c \in Free, row' = [row EXCEPT ![c].status = "EXPIRED"],
           UNCHANGED <<intents, booking, clock, changes, linked, refundIds, stripe, request, desk>>
    PROVE  IInv'
<1>1. /\ TypeOK /\ CheckoutSound(c) /\ booking[c] = "NONE" /\ row[c].status \notin OwedOrRefunded
    BY Confirming
<1>2. /\ recorded' = recorded \union {c} /\ recorded' \subseteq Checkout
      /\ acked' \subseteq recorded' /\ failures' \in 0..MaxFailures
      /\ worker' \in [Worker -> Delivery]
      /\ \A v \in Worker : worker'[v] = worker[v] \/ DeliverySound(v)'
      /\ \A v \in Worker : worker'[v] = worker[v] \/ worker'[v] = Idle
    BY <1>1, Answers
<1>3. \A d \in Checkout : NothingLater(d)
    BY <1>2, NothingBegins
<1>4. /\ row' \in [Checkout -> Row] /\ row'[c].status = "EXPIRED"
      /\ \A d \in Checkout : row'[d].price = row[d].price /\ row'[d].expiresAt = row[d].expiresAt
      /\ \A d \in Checkout : d # c => row'[d] = row[d]
      /\ Free' = Free
    <2>1. row \in [Checkout -> Row] /\ "EXPIRED" \in RowStatus
        BY <1>1 DEF TypeOK, RowStatus
    <2>2. row' = [row EXCEPT ![c].status = "EXPIRED"]
        OBVIOUS
    <2> QED BY ONLY <2>1, <2>2, c \in Checkout, StatusWritten
<1>5. TypeOK'
    BY <1>1, <1>2, <1>4 DEF TypeOK
<1>6. RowSound(c)'
    <2>1. RowSound(c) /\ c \in recorded' /\ c \in Free'
        BY <1>1, <1>2, <1>4 DEF CheckoutSound
    <2> QED BY <1>1, <1>4, <2>1 DEF RowSound, OwedOrRefunded, Refunded
<1>7. /\ row'[c].status \notin {"NONE", "OPEN"} /\ recorded \subseteq recorded'
      /\ refundIds' \in {refundIds, refundIds \union {c}} /\ intents' \subseteq intents \union {c}
    BY <1>2, <1>4
<1>8. /\ \A d \in Checkout : CheckoutSound(d)' /\ Kept(d)
      /\ \A i \in Slot : BookingKept(i)
      /\ NoOversell'
    BY <1>1, <1>3, <1>4, <1>5, <1>6, <1>7, RowMoves
<1> QED BY <1>2, <1>5, <1>8, Assembles

LEMMA OwesRefund ==
    ASSUME ExperienceAssumption, IInv, NEW w \in Worker, worker[w].pc = "confirm",
           NEW c \in Checkout, c = worker[w].of,
           c \notin recorded, c \notin Free,
           row' = [row EXCEPT ![c].status = "REFUND_PENDING"],
           intents' = intents \union {c}, recorded' = recorded \union {c},
           worker' = [worker EXCEPT ![w].pc = "owed"],
           UNCHANGED <<acked, booking, failures, clock, changes, linked, refundIds, stripe,
                       request, desk>>
    PROVE  IInv'
<1>1. /\ TypeOK /\ CheckoutSound(c) /\ booking[c] = "NONE" /\ row[c].status \notin OwedOrRefunded
      /\ worker[w] # Idle
      /\ worker[w] \in [pc : {"replay", "expire", "refund", "store", "confirm", "owed",
                              "persist"}, of : Checkout]
    BY Confirming
<1>2. /\ row' \in [Checkout -> Row] /\ row'[c].status = "REFUND_PENDING"
      /\ \A d \in Checkout : row'[d].price = row[d].price /\ row'[d].expiresAt = row[d].expiresAt
      /\ \A d \in Checkout : d # c => row'[d] = row[d]
      /\ Free' = Free
    <2>1. row \in [Checkout -> Row] /\ "REFUND_PENDING" \in RowStatus
        BY <1>1 DEF TypeOK, RowStatus
    <2>2. row' = [row EXCEPT ![c].status = "REFUND_PENDING"]
        OBVIOUS
    <2> QED BY ONLY <2>1, <2>2, c \in Checkout, StatusWritten
<1> DEFINE r == [worker[w] EXCEPT !.pc = "owed"]
<1>3. r \in Delivery /\ r.pc = "owed" /\ r.of = c /\ worker' = [worker EXCEPT ![w] = r]
    BY <1>1 DEF Delivery
<1> HIDE DEF r
<1>4. /\ worker' \in [Worker -> Delivery] /\ worker'[w] = r
      /\ \A v \in Worker : v # w => worker'[v] = worker[v]
    BY <1>1, <1>3 DEF TypeOK
<1>5. TypeOK'
    BY <1>1, <1>2, <1>4 DEF TypeOK
<1>6. RowSound(c)'
    <2>1. RowSound(c) /\ c \in recorded' /\ c \notin Free'
        BY <1>1, <1>2 DEF CheckoutSound
    <2> QED BY <1>1, <1>2, <2>1 DEF RowSound, OwedOrRefunded, Refunded, Settled
<1>7. ASSUME NEW d \in Checkout PROVE NothingLater(d) \/ LateSound(d)'
    <2>1. CASE d = c
        BY <1>1, <1>2, <2>1 DEF LateSound
    <2>2. CASE d # c
        <3>1. \A v \in Worker : worker'[v] # worker[v] => worker'[v].of # d
            BY <1>3, <1>4, <2>2
        <3>2. NothingLater(d)
            BY <3>1, LateRests
        <3> QED BY <3>2
    <2> QED BY <2>1, <2>2
<1>8. /\ row'[c].status \notin {"NONE", "OPEN"} /\ recorded \subseteq recorded'
      /\ refundIds' \in {refundIds, refundIds \union {c}} /\ intents' \subseteq intents \union {c}
    BY <1>2
<1>9. /\ \A d \in Checkout : CheckoutSound(d)' /\ Kept(d)
      /\ \A i \in Slot : BookingKept(i)
      /\ NoOversell'
    BY <1>1, <1>2, <1>5, <1>6, <1>7, <1>8, RowMoves
<1>10. DeliverySound(w)'
    BY <1>2, <1>3, <1>4 DEF DeliverySound, OwedOrRefunded
<1>11. \A v \in Worker : worker'[v] = worker[v] \/ DeliverySound(v)'
    BY <1>4, <1>10
<1> QED BY <1>5, <1>9, <1>11, Assembles

LEMMA ConfirmsCheckout ==
    ASSUME ExperienceAssumption, IInv, NEW w \in Worker, ConfirmCheckout(w)
    PROVE  IInv'
<1>0. worker[w].pc = "confirm" /\ UNCHANGED <<clock, changes, linked, refundIds, stripe, request, desk>>
    BY DEF ConfirmCheckout
<1>1. PICK c \in Checkout : c = worker[w].of
    BY <1>0, AtWork
<1>2. CASE Answer(w, c) /\ UNCHANGED <<row, intents, booking>>
    BY <1>0, <1>1, <1>2, AnswersAlready
<1>3. CASE /\ c \notin recorded /\ StillAvailable(c)
           /\ booking' = [booking EXCEPT ![c] = "CONFIRMED"]
           /\ row' = [row EXCEPT ![c].status = IF c \in Free THEN "FREE" ELSE "PAID"]
           /\ intents' = IF c \in Free THEN intents ELSE intents \union {c}
           /\ Answer(w, c)
    BY <1>0, <1>1, <1>3, Books
<1>4. CASE /\ c \notin recorded /\ c \in Free
           /\ row' = [row EXCEPT ![c].status = "EXPIRED"]
           /\ Answer(w, c)
           /\ UNCHANGED <<intents, booking>>
    BY <1>0, <1>1, <1>4, ConfirmExpiresFree
<1>5. CASE /\ c \notin recorded /\ c \notin Free
           /\ row' = [row EXCEPT ![c].status = "REFUND_PENDING"]
           /\ intents' = intents \union {c} /\ recorded' = recorded \union {c}
           /\ worker' = [worker EXCEPT ![w].pc = "owed"]
           /\ UNCHANGED <<acked, booking, failures>>
    BY <1>0, <1>1, <1>5, OwesRefund
<1> QED BY <1>1, <1>2, <1>3, <1>4, <1>5 DEF ConfirmCheckout

(***************************************************************************)
(* The dashboard                                                           *)
(***************************************************************************)
LEMMA Reserves ==
    ASSUME ExperienceAssumption, IInv, NEW d \in Direct, reserveExperience(d)
    PROVE  IInv'
<1>1. /\ TypeOK /\ d \in Slot /\ d \notin Checkout /\ booking[d] = "NONE"
      /\ UNCHANGED <<clock, changes, row, linked, intents, refundIds, recorded, stripe, acked,
                     web, failures>>
    BY DEF IInv, Slot, ExperienceAssumption, reserveExperience
<1>2. /\ booking' \in [Slot -> {"NONE", "CONFIRMED", "CANCELLED"}]
      /\ \A i \in Slot : i # d => booking'[i] = booking[i]
    BY <1>1 DEF TypeOK, reserveExperience
<1>3. TypeOK'
    BY <1>1, <1>2, SameRows DEF TypeOK, web
<1>4. ASSUME NEW c \in Checkout PROVE CheckoutSound(c)' /\ Kept(c)
    <2>1. booking'[c] = booking[c] /\ CheckoutSound(c) /\ changes \in Int /\ NothingLater(c)
        BY <1>1, <1>2, NobodyElse DEF Slot, IInv, TypeOK, web
    <2> QED BY <1>1, <1>3, <2>1, CheckoutRests
<1>5. NoOversell'
    <2>1. PICK now \in Now : Used(now, d) + Places[d] <= Capacity
        BY DEF reserveExperience
    <2>2. now \in Int /\ now <= clock /\ clock \in Int /\ row \in [Checkout -> Row]
        BY <1>1 DEF Now, TypeOK, ExperienceAssumption
    <2>3. Confirmed' \subseteq Confirmed \union {d}
        BY <1>2 DEF Confirmed
    <2>4. Held(clock)' \subseteq Held(clock) \ {d}
        BY <1>1 DEF Held
    <2> QED BY <1>1, <2>1, <2>2, <2>3, <2>4, PlacesGiven
<1> QED BY <1>1, <1>2, <1>3, <1>4, <1>5, Assembles DEF BookingKept, web

LEMMA CancellationGoesOn ==
    ASSUME TypeOK, NEW s \in Staff, NEW r \in Cancellation, desk' = [desk EXCEPT ![s] = r],
           r = Idle \/ CancellationSound(s)'
    PROVE  /\ desk' \in [Staff -> Cancellation] /\ desk'[s] = r
           /\ \A u \in Staff : desk'[u] = desk[u] \/ CancellationSound(u)'
<1>1. /\ desk' \in [Staff -> Cancellation] /\ desk'[s] = r
      /\ \A u \in Staff : u # s => desk'[u] = desk[u]
    BY DEF TypeOK
<1>2. CancellationSound(s)'
    BY <1>1 DEF CancellationSound
<1> QED BY <1>1, <1>2

LEMMA BeginsCancel ==
    ASSUME ExperienceAssumption, IInv, NEW s \in Staff, NEW i \in Slot, BeginCancel(s, i)
    PROVE  IInv'
<1>1. TypeOK /\ booking[i] # "NONE" /\ (i \in Checkout => CheckoutSound(i))
    BY DEF IInv, BeginCancel
<1> DEFINE pc == IF RefundNeeded(i) THEN "refund" ELSE "cancel"
           r == At(pc, i)
<1>2. desk' = [desk EXCEPT ![s] = r]
    BY DEF BeginCancel
<1>3. /\ pc \in {"refund", "cancel"}
      /\ pc = "refund" => RefundNeeded(i)
      /\ pc = "cancel" => ~RefundNeeded(i)
    OBVIOUS
<1> HIDE DEF pc
<1>4. r \in Cancellation /\ r.pc = pc /\ r.of = i
    BY <1>3 DEF At, Cancellation
<1> HIDE DEF r
<1>5. UNCHANGED <<clock, changes, db, stripe, acked, request, worker, failures>>
    BY DEF BeginCancel
<1>6. Free' = Free
    BY <1>5, SameRows DEF db
<1>7. desk'[s] = r
    BY <1>1, <1>2 DEF TypeOK
<1>8. pc = "refund" => i \in Checkout \ Free
    BY <1>1, <1>3 DEF RefundNeeded, CheckoutSound, RowSound, OwedOrRefunded
<1>9. pc = "cancel" /\ i \in Checkout \ Free =>
        stripe[i].refund.key # "none" /\ row[i].status \in OwedOrRefunded
    BY <1>1, <1>3 DEF BeginCancel, RefundNeeded, CheckoutSound, RowSound, Settled, OwedOrRefunded, Refunded
<1>10. CancellationSound(s)'
    <2>1. stripe' = stripe /\ row' = row /\ booking' = booking
        BY <1>5 DEF db
    <2> QED BY <1>1, <1>3, <1>4, <1>6, <1>7, <1>8, <1>9, <2>1
            DEF CancellationSound, OwedOrRefunded, Refunded
<1>11. /\ desk' \in [Staff -> Cancellation]
       /\ \A u \in Staff : desk'[u] = desk[u] \/ CancellationSound(u)'
    BY <1>1, <1>2, <1>4, <1>10, CancellationGoesOn
<1>12. TypeOK'
    BY <1>1, <1>5, <1>6, <1>11 DEF TypeOK, db
<1>13. \A c \in Checkout : NothingLater(c)
    BY <1>5, NobodyElse
<1>14. changes \in Int /\ clock \in Int
    BY <1>1 DEF TypeOK
<1>15. /\ \A c \in Checkout : CheckoutSound(c)' /\ Kept(c)
       /\ \A j \in Slot : BookingKept(j)
       /\ NoOversell'
    BY <1>5, <1>12, <1>13, <1>14, Quiet DEF db
<1> QED BY <1>5, <1>11, <1>12, <1>15, Assembles

\* What a cancellation that is at work knows.
LEMMA AtDesk ==
    ASSUME IInv, NEW s \in Staff, desk[s].pc # "idle"
    PROVE  /\ desk[s].of \in Slot /\ desk[s] # Idle
           /\ desk[s] \in [pc : {"refund", "persist", "cancel"}, of : Slot]
           /\ booking[desk[s].of] # "NONE"
           /\ desk[s].pc \in {"refund", "persist"} => desk[s].of \in Checkout \ Free
           /\ desk[s].pc = "persist" => stripe[desk[s].of].refund.key # "none"
           /\ desk[s].pc = "cancel" /\ desk[s].of \in Checkout \ Free =>
                stripe[desk[s].of].refund.key # "none" /\ row[desk[s].of].status \in OwedOrRefunded
<1>1. desk[s] \in Cancellation /\ desk[s] # Idle
    BY DEF IInv, TypeOK, Idle
<1> QED BY <1>1 DEF IInv, CancellationSound, Cancellation

LEMMA CancelRefunds ==
    ASSUME ExperienceAssumption, IInv, NEW s \in Staff, CancelRefund(s)
    PROVE  IInv'
<1>0. PICK c \in Checkout : c = desk[s].of
    BY AtDesk DEF CancelRefund
<1>1. /\ TypeOK /\ c \notin Free /\ booking[c] # "NONE"
      /\ desk[s] \in [pc : {"refund", "persist", "cancel"}, of : Slot]
    BY <1>0, AtDesk DEF CancelRefund, IInv
<1>2. createRefund(c, "cancel") /\ UNCHANGED <<clock, changes, db, acked, request, worker, failures>>
    BY <1>0 DEF CancelRefund
<1> DEFINE r == [desk[s] EXCEPT !.pc = "persist"]
<1>3. r \in Cancellation /\ r.pc = "persist" /\ r.of = c /\ desk' = [desk EXCEPT ![s] = r]
    BY <1>0, <1>1 DEF Cancellation, CancelRefund
<1> HIDE DEF r
<1>4. desk'[s] = r
    BY <1>1, <1>3 DEF TypeOK
<1>5. Free' = Free
    BY <1>2, SameRows DEF db
<1>6. stripe' \in [Checkout -> StripeSession] /\ stripe'[c].refund.key = "cancel"
    BY <1>1, <1>2, RefundMade DEF TypeOK
<1>7. CancellationSound(s)'
    BY <1>1, <1>2, <1>3, <1>4, <1>5, <1>6 DEF CancellationSound, db
<1>8. /\ desk' \in [Staff -> Cancellation]
      /\ \A u \in Staff : desk'[u] = desk[u] \/ CancellationSound(u)'
    BY <1>1, <1>3, <1>7, CancellationGoesOn
<1>9. TypeOK'
    BY <1>1, <1>2, <1>5, <1>6, <1>8 DEF TypeOK, db
<1>10. /\ \A d \in Checkout : CheckoutSound(d)' /\ Kept(d)
       /\ \A i \in Slot : BookingKept(i)
       /\ NoOversell'
    BY <1>1, <1>2, <1>9, RefundBegins
<1> QED BY <1>2, <1>8, <1>9, <1>10, Assembles

LEMMA CancelPersists ==
    ASSUME ExperienceAssumption, IInv, NEW s \in Staff, CancelPersist(s)
    PROVE  IInv'
<1>0. PICK c \in Checkout : c = desk[s].of
    BY AtDesk DEF CancelPersist
<1>1. /\ TypeOK /\ CheckoutSound(c) /\ c \notin Free /\ booking[c] # "NONE" /\ c \in Slot
      /\ stripe[c].refund.key # "none"
    BY <1>0, AtDesk DEF CancelPersist, IInv, Slot
<1>2. /\ persistExperienceRefund(c, stripe[c].refund.reply)
      /\ UNCHANGED <<clock, changes, linked, intents, booking, recorded, stripe, acked, request,
                     worker, failures>>
    BY <1>0 DEF CancelPersist
<1>3. /\ row' \in [Checkout -> Row]
      /\ row'[c].status \in OwedOrRefunded
      /\ \A d \in Checkout : row'[d].price = row[d].price /\ row'[d].expiresAt = row[d].expiresAt
      /\ \A d \in Checkout : d # c => row'[d] = row[d]
      /\ Free' = Free
      /\ refundIds' \in {refundIds, refundIds \union {c}}
      /\ refundIds' \subseteq Checkout \ Free
      /\ row'[c].status \in Refunded \/ c \in refundIds'
    BY <1>1, <1>2, RefundStored DEF TypeOK
<1> DEFINE r == IF row'[c].status = "REFUND_FAILED" THEN Idle ELSE At("cancel", c)
<1>4. /\ r \in Cancellation /\ desk' = [desk EXCEPT ![s] = r]
      /\ r = Idle \/ (r.pc = "cancel" /\ r.of = c)
    BY <1>0, <1>1 DEF Cancellation, CancelPersist, At, TypeOK
<1> HIDE DEF r
<1>5. desk'[s] = r
    BY <1>1, <1>4 DEF TypeOK
<1>6. r = Idle \/ CancellationSound(s)'
    BY <1>1, <1>2, <1>3, <1>4, <1>5 DEF CancellationSound
<1>7. /\ desk' \in [Staff -> Cancellation]
      /\ \A u \in Staff : desk'[u] = desk[u] \/ CancellationSound(u)'
    BY <1>1, <1>4, <1>6, CancellationGoesOn
<1>8. TypeOK'
    BY <1>1, <1>2, <1>3, <1>7 DEF TypeOK
<1>9. RowSound(c)'
    <2>1. RowSound(c) /\ c \in recorded' /\ c \notin Free'
        BY <1>1, <1>2, <1>3 DEF CheckoutSound, RowSound
    <2> QED BY <1>1, <1>2, <1>3, <2>1 DEF RowSound, OwedOrRefunded, Refunded, Settled
<1>10. \A d \in Checkout : NothingLater(d)
    BY <1>2, NobodyElse
<1>11. row'[c].status \notin {"NONE", "OPEN"}
    BY <1>3 DEF OwedOrRefunded, Refunded
<1>12. /\ \A d \in Checkout : CheckoutSound(d)' /\ Kept(d)
       /\ \A i \in Slot : BookingKept(i)
       /\ NoOversell'
    BY <1>2, <1>3, <1>8, <1>9, <1>10, <1>11, RowMoves
<1> QED BY <1>2, <1>7, <1>8, <1>12, Assembles

LEMMA CancelsBooking ==
    ASSUME ExperienceAssumption, IInv, NEW s \in Staff, CancelBooking(s)
    PROVE  IInv'
<1>0. PICK i \in Slot : i = desk[s].of
    BY AtDesk DEF CancelBooking
<1>1. /\ TypeOK /\ NoOversell /\ booking[i] # "NONE"
      /\ i \in Checkout \ Free =>
            stripe[i].refund.key # "none" /\ row[i].status \in OwedOrRefunded
    BY <1>0, AtDesk DEF CancelBooking, IInv
<1>2. /\ booking' = [booking EXCEPT ![i] = "CANCELLED"] /\ desk' = [desk EXCEPT ![s] = Idle]
      /\ UNCHANGED <<clock, changes, row, linked, intents, refundIds, recorded, stripe, acked,
                     request, worker, failures>>
    BY <1>0 DEF CancelBooking
<1>3. /\ booking' \in [Slot -> {"NONE", "CONFIRMED", "CANCELLED"}] /\ booking'[i] = "CANCELLED"
      /\ \A j \in Slot : j # i => booking'[j] = booking[j]
    BY <1>1, <1>2 DEF TypeOK
<1>4. Idle \in Cancellation
    BY DEF Cancellation
<1>5. /\ desk' \in [Staff -> Cancellation]
      /\ \A u \in Staff : desk'[u] = desk[u] \/ CancellationSound(u)'
    BY <1>1, <1>2, <1>4, CancellationGoesOn
<1>6. Free' = Free
    BY <1>2, SameRows
<1>7. TypeOK'
    BY <1>1, <1>2, <1>3, <1>5, <1>6 DEF TypeOK
<1>8. ASSUME NEW c \in Checkout PROVE CheckoutSound(c)' /\ Kept(c)
    <2>1. CheckoutSound(c) /\ changes \in Int /\ NothingLater(c) /\ c \in Slot
        BY <1>1, <1>2, NobodyElse DEF IInv, TypeOK, Slot
    <2>2. CASE c # i
        BY <1>1, <1>2, <1>3, <1>7, <2>1, <2>2, CheckoutRests
    <2>3. CASE c = i
        <3>1. Kept(c)
            BY <1>2 DEF Kept
        <3>2. RowSound(c)'
            BY <1>1, <1>2, <1>3, <1>6, <2>1, <2>3 DEF CheckoutSound, RowSound, OwedOrRefunded, Refunded, Settled
        <3>3. LateSound(c)'
            BY <1>1, <1>2, <1>3, <2>1, <2>3 DEF CheckoutSound, LateSound, NothingLater
        <3>4. CancelledSound(c)'
            BY <1>1, <1>2, <1>6, <2>3 DEF CancelledSound, OwedOrRefunded, Refunded
        <3> QED BY <3>1, <3>2, <3>3, <3>4 DEF CheckoutSound
    <2> QED BY <2>2, <2>3
<1>9. NoOversell'
    <2>1. Confirmed' \subseteq Confirmed
        BY <1>3 DEF Confirmed
    <2>2. Held(clock)' = Held(clock)
        BY <1>2 DEF Held
    <2> QED BY <1>1, <2>1, <2>2, PlacesRest
<1>10. \A j \in Slot : BookingKept(j)
    BY <1>3 DEF BookingKept
<1> QED BY <1>2, <1>5, <1>7, <1>8, <1>9, <1>10, Assembles

(***************************************************************************)
(* The session, failures and time                                          *)
(***************************************************************************)
LEMMA ChangesSession ==
    ASSUME ExperienceAssumption, IInv, updateExperienceSession
    PROVE  IInv'
<1>1. /\ TypeOK /\ changes' = changes + 1 /\ changes < MaxChanges
      /\ UNCHANGED <<clock, db, stripe, acked, web, failures>>
    BY DEF IInv, updateExperienceSession
<1>2. changes' \in 0..MaxChanges /\ changes' >= changes /\ clock \in Int
    BY <1>1 DEF TypeOK, ExperienceAssumption
<1>3. TypeOK'
    BY <1>1, <1>2, SameRows DEF TypeOK, db, web
<1>4. \A c \in Checkout : NothingLater(c)
    BY <1>1, NobodyElse DEF web
<1>5. /\ \A c \in Checkout : CheckoutSound(c)' /\ Kept(c)
      /\ \A i \in Slot : BookingKept(i)
      /\ NoOversell'
    BY <1>1, <1>2, <1>3, <1>4, Quiet DEF db
<1> QED BY <1>1, <1>3, <1>5, Assembles DEF web

LEMMA Ticks ==
    ASSUME ExperienceAssumption, IInv, Tick
    PROVE  IInv'
<1>1. /\ TypeOK /\ clock' = clock + 1 /\ clock < MaxTime
      /\ UNCHANGED <<changes, db, stripe, acked, web, failures>>
    BY DEF IInv, Tick
<1>2. clock' \in 0..MaxTime /\ clock' >= clock /\ changes \in Int
    BY <1>1 DEF TypeOK, ExperienceAssumption
<1>3. TypeOK'
    BY <1>1, <1>2, SameRows DEF TypeOK, db, web
<1>4. \A c \in Checkout : NothingLater(c)
    BY <1>1, NobodyElse DEF web
<1>5. /\ \A c \in Checkout : CheckoutSound(c)' /\ Kept(c)
      /\ \A i \in Slot : BookingKept(i)
      /\ NoOversell'
    BY <1>1, <1>2, <1>3, <1>4, Quiet DEF db
<1> QED BY <1>1, <1>3, <1>5, Assembles DEF web

LEMMA Fails ==
    ASSUME ExperienceAssumption, IInv, Fail
    PROVE  IInv'
<1>1. /\ TypeOK /\ failures' \in 0..MaxFailures
      /\ UNCHANGED <<clock, changes, db, stripe, acked>>
    BY DEF IInv, Fail, TypeOK, ExperienceAssumption
<1>2. Idle \in PublicRequest /\ Idle \in Delivery /\ Idle \in Cancellation
    BY DEF PublicRequest, Delivery, Cancellation
<1>3. /\ request' \in [Client -> PublicRequest]
      /\ \A k \in Client : request'[k] = request[k] \/ request'[k] = Idle
      /\ worker' \in [Worker -> Delivery]
      /\ \A w \in Worker : worker'[w] = worker[w] \/ worker'[w] = Idle
      /\ desk' \in [Staff -> Cancellation]
      /\ \A s \in Staff : desk'[s] = desk[s] \/ desk'[s] = Idle
    BY <1>1, <1>2 DEF Fail, TypeOK
<1>4. TypeOK'
    BY <1>1, <1>3, SameRows DEF TypeOK, db
<1>5. \A c \in Checkout : NothingLater(c)
    BY <1>1, <1>3, NothingBegins
<1>6. changes \in Int /\ clock \in Int
    BY <1>1 DEF TypeOK
<1>7. /\ \A c \in Checkout : CheckoutSound(c)' /\ Kept(c)
      /\ \A i \in Slot : BookingKept(i)
      /\ NoOversell'
    BY <1>1, <1>4, <1>5, <1>6, Quiet DEF db
<1>8. /\ \A k \in Client : request'[k] = request[k] \/ RequestSound(k)'
      /\ \A w \in Worker : worker'[w] = worker[w] \/ DeliverySound(w)'
      /\ \A s \in Staff : desk'[s] = desk[s] \/ CancellationSound(s)'
    BY <1>3 DEF RequestSound, DeliverySound, CancellationSound
<1> QED BY <1>4, <1>7, <1>8, Assembles

LEMMA Stutters ==
    ASSUME ExperienceAssumption, IInv, UNCHANGED vars
    PROVE  IInv'
<1>1. /\ TypeOK /\ UNCHANGED <<clock, changes, db, stripe, acked, web, failures>>
    BY DEF IInv, vars
<1>2. changes \in Int /\ clock \in Int
    BY <1>1 DEF TypeOK
<1>3. TypeOK'
    BY <1>1, SameRows DEF TypeOK, db, web
<1>4. \A c \in Checkout : NothingLater(c)
    BY <1>1, NobodyElse DEF web
<1>5. /\ \A c \in Checkout : CheckoutSound(c)' /\ Kept(c)
      /\ \A i \in Slot : BookingKept(i)
      /\ NoOversell'
    BY <1>1, <1>2, <1>3, <1>4, Quiet DEF db
<1> QED BY <1>1, <1>3, <1>5, Assembles DEF web

LEMMA InitSound ==
    ASSUME ExperienceAssumption, Init
    PROVE  IInv
<1>1. TypeOK
    <2>1. [status |-> "NONE", expiresAt |-> 0, price |-> 0] \in Row
        BY DEF Row, RowStatus, ExperienceAssumption
    <2>2. [session |-> "none", late |-> FALSE, refund |-> NoRefund] \in StripeSession
        BY DEF StripeSession, NoRefund, Refund
    <2>3. row \in [Checkout -> Row] /\ stripe \in [Checkout -> StripeSession]
        BY <2>1, <2>2 DEF Init
    <2>4. /\ clock \in 0..MaxTime /\ changes \in 0..MaxChanges /\ failures \in 0..MaxFailures
        BY DEF Init, ExperienceAssumption
    <2>5. booking \in [Slot -> {"NONE", "CONFIRMED", "CANCELLED"}]
        BY DEF Init
    <2>6. Idle \in PublicRequest /\ Idle \in Delivery /\ Idle \in Cancellation
        BY DEF PublicRequest, Delivery, Cancellation
    <2>7. /\ request \in [Client -> PublicRequest] /\ worker \in [Worker -> Delivery]
          /\ desk \in [Staff -> Cancellation]
        BY <2>6 DEF Init
    <2>8. intents = {} /\ refundIds = {} /\ linked = {} /\ recorded = {} /\ acked = {}
        BY DEF Init
    <2> QED BY <2>3, <2>4, <2>5, <2>7, <2>8 DEF TypeOK
<1>2. \A c \in Checkout : row[c].status = "NONE" /\ c \in Free /\ booking[c] = "NONE"
                          /\ stripe[c] = [session |-> "none", late |-> FALSE, refund |-> NoRefund]
    BY DEF Init, Free, Slot
<1>3. ASSUME NEW c \in Checkout PROVE CheckoutSound(c)
    <2>1. RowSound(c)
        BY <1>2 DEF Init, RowSound, OwedOrRefunded, Refunded
    <2>2. ~RefundedLate(c)
        BY <1>2 DEF Init, RefundedLate, NoRefund
    <2> QED BY <1>2, <2>1, <2>2 DEF CheckoutSound, LateSound, CancelledSound
<1>4. NoOversell
    <2>1. Confirmed = {} /\ Held(clock) = {}
        BY <1>2 DEF Init, Confirmed, Held
    <2>2. Taken({}) = 0
        BY TakenIs, SumOfNone
    <2> QED BY <2>1, <2>2 DEF NoOversell, ExperienceAssumption
<1>5. /\ \A k \in Client : RequestSound(k)
      /\ \A w \in Worker : DeliverySound(w)
      /\ \A s \in Staff : CancellationSound(s)
    BY DEF Init, RequestSound, DeliverySound, CancellationSound
<1> QED BY <1>1, <1>3, <1>4, <1>5 DEF IInv

LEMMA NextSound ==
    ASSUME ExperienceAssumption, IInv, [Next]_vars
    PROVE  IInv'
<1>1. ASSUME NEW k \in Client, Request(k) PROVE IInv'
    BY <1>1, BeginsCheckout, ReplaysCheckout, OpensStripe, RetrievesStripe, Links DEF Request
<1>2. ASSUME NEW c \in Checkout,
             \/ cancelPublicExperienceCheckout(c) \/ ExpireRow(c)
             \/ CustomerPays(c) \/ StripeExpires(c) \/ RefundSettles(c)
             \/ handleExperienceRefundStripeEvent(c)
      PROVE  IInv'
    BY <1>2, SessionsEnd, ExpiresRow, CustomersPay, RefundsSettle, HandlesRefundEvent
<1>3. ASSUME NEW c \in Checkout, NEW w \in Worker, ReadCompleted(w, c) PROVE IInv'
    BY <1>3, ReadsCompleted
<1>4. ASSUME NEW w \in Worker, Handle(w) PROVE IInv'
    BY <1>4, RecordsReplay, ExpiresFree, AsksForLateRefund, StoresLateRefund, ConfirmsCheckout,
       PersistsRefund DEF Handle
<1>5. ASSUME NEW s \in Staff, Cancel(s) PROVE IInv'
    BY <1>5, BeginsCancel, CancelRefunds, CancelPersists, CancelsBooking DEF Cancel
<1> QED BY <1>1, <1>2, <1>3, <1>4, <1>5, Reserves, ChangesSession, Fails, Ticks, Stutters DEF Next

(***************************************************************************)
(* The theorems                                                            *)
(***************************************************************************)
\* The inductive invariant holds in every reachable state.
THEOREM InvariantHolds == Spec => []IInv
<1>1. Init => IInv
    BY ExperienceAssumption, InitSound
<1>2. IInv /\ [Next]_vars => IInv'
    BY ExperienceAssumption, NextSound
<1> QED BY <1>1, <1>2, PTL DEF Spec

\* Every reachable state of the session, of Stripe and of the executions is
\* well typed.
THEOREM TypeCorrect == Spec => []TypeOK
<1>1. IInv => TypeOK
    BY DEF IInv
<1> QED BY <1>1, InvariantHolds, PTL

\* Confirmed places and live holds never exceed the capacity of the session
\* (createPublicExperienceCheckout, the confirmation by the webhook and the
\* dashboard's reservations), for any number of checkouts and any quantities.
THEOREM NeverOversold == Spec => []NoOversell
<1>1. IInv => NoOversell
    BY DEF IInv
<1> QED BY <1>1, InvariantHolds, PTL

\* A booking that is confirmed has not had its payment refunded as late by a
\* delivery of the same webhook, unless the session was closed and reopened.
THEOREM BookingsArePaid == Spec => []BookedIsPaid
<1>1. IInv => BookedIsPaid
    BY DEF IInv, BookedIsPaid, Confirmed, CheckoutSound, LateSound, RefundedLate
<1> QED BY <1>1, InvariantHolds, PTL

\* A paid booking that the dashboard has cancelled was refunded at Stripe and
\* its row says so, wherever the three steps of the cancellation were cut.
THEOREM CancellationsRefunded == Spec => []CancelledIsRefunded
<1>1. IInv => CancelledIsRefunded
    BY DEF IInv, CancelledIsRefunded, CheckoutSound, CancelledSound, OwedOrRefunded
<1> QED BY <1>1, InvariantHolds, PTL


(***************************************************************************)
(* The outcome of a refund                                                 *)
(***************************************************************************)
LEMMA OutcomeKept ==
    ASSUME row \in [Checkout -> Row], NEW d \in Checkout, row[d].status \in Refunded,
           NEW c, NEW answer, persistExperienceRefund(c, answer)
    PROVE  row'[d] = row[d]
BY DEF persistExperienceRefund

\* A delivery leaves alone a row whose refund has an outcome: it is not free,
\* and its event is recorded.
LEMMA DeliveryKeepsOutcome ==
    ASSUME IInv, NEW w \in Worker, Handle(w), NEW d \in Checkout, row[d].status \in Refunded
    PROVE  row'[d] = row[d]
<1>1. /\ row \in [Checkout -> Row] /\ d \notin Free /\ d \in recorded
      /\ worker[w].pc = "expire" => worker[w].of \in Free
    BY DEF IInv, TypeOK, CheckoutSound, RowSound, OwedOrRefunded, DeliverySound, Idle
<1>2. CASE RecordReplay(w) \/ CreateLateRefund(w) \/ CallRefund(w)
    BY <1>2 DEF RecordReplay, CreateLateRefund, CallRefund, db
<1>3. CASE ExpireFree(w)
    BY <1>1, <1>3 DEF ExpireFree
<1>4. CASE StoreLateRefund(w) \/ PersistRefund(w)
    BY <1>1, <1>4, OutcomeKept DEF StoreLateRefund, PersistRefund
<1>5. CASE ConfirmCheckout(w)
    BY <1>1, <1>5 DEF ConfirmCheckout
<1> QED BY <1>2, <1>3, <1>4, <1>5 DEF Handle

LEMMA OutcomeRests ==
    ASSUME IInv, [Next]_vars, NEW d \in Checkout, row[d].status \in Refunded
    PROVE  row'[d] = row[d]
<1>1. row \in [Checkout -> Row]
    BY DEF IInv, TypeOK
<1>2. ASSUME NEW k \in Client, Request(k) PROVE row'[d] = row[d]
    BY <1>1, <1>2
       DEF Request, BeginCheckout, ReplayCheckout, OpenStripe, RetrieveStripe, Link, Refunded, db
<1>3. ASSUME NEW c \in Checkout,
             \/ cancelPublicExperienceCheckout(c) \/ ExpireRow(c)
             \/ CustomerPays(c) \/ StripeExpires(c) \/ RefundSettles(c)
             \/ handleExperienceRefundStripeEvent(c)
      PROVE  row'[d] = row[d]
    BY <1>1, <1>3, OutcomeKept
       DEF cancelPublicExperienceCheckout, ExpireRow, CustomerPays, StripeExpires, RefundSettles,
           handleExperienceRefundStripeEvent, Refunded, db
<1>4. ASSUME NEW c \in Checkout, NEW w \in Worker, ReadCompleted(w, c) PROVE row'[d] = row[d]
    BY <1>4 DEF ReadCompleted, db
<1>5. ASSUME NEW s \in Staff, Cancel(s) PROVE row'[d] = row[d]
    <2>1. CASE CancelPersist(s)
        BY <1>1, <2>1, OutcomeKept DEF CancelPersist
    <2>2. CASE ~CancelPersist(s)
        BY <1>5, <2>2 DEF Cancel, BeginCancel, CancelRefund, CancelBooking, db
    <2> QED BY <2>1, <2>2
<1>6. CASE updateExperienceSession \/ Fail \/ Tick \/ UNCHANGED vars
    BY <1>6 DEF updateExperienceSession, Fail, Tick, vars, db
<1>7. ASSUME NEW i \in Direct, reserveExperience(i) PROVE row'[d] = row[d]
    BY <1>7 DEF reserveExperience
<1> QED BY <1>2, <1>3, <1>4, <1>5, <1>6, <1>7, DeliveryKeepsOutcome DEF Next

\* The outcome of a refund is final: no late or repeated answer, event or
\* delivery writes over it, neither the cancellation's nor the webhook's.
THEOREM RefundsFinal == Spec => RefundFinal
<1>1. IInv /\ [Next]_vars =>
        [\A c \in Checkout : row[c].status \in Refunded => row'[c].status = row[c].status]_vars
    BY OutcomeRests
<1> QED BY <1>1, InvariantHolds, PTL DEF Spec, RefundFinal
=============================================================================
