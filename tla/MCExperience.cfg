SPECIFICATION Spec
CONSTANTS
    a = a
    d = d
    Checkout = {a}
    Direct = {d}
    Price = {0, 1}
    Places <- MCPlaces
    Capacity = 2
    StartsAt = 2
    HoldTime = 1
    Client = {k1}
    Worker = {w1, w2}
    Reply = {"pending", "succeeded", "failed"}
    Staff = {s1}
    MaxTime = 2
    MaxLag = 0
    MaxChanges = 2
    MaxFailures = 1
INVARIANTS NoOversell BookedIsPaid CancelledIsRefunded
PROPERTIES RefundFinal PaymentSettledAlone
CHECK_DEADLOCK FALSE
