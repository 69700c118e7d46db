CONSTANTS
    k1 = k1
    k2 = k2
    p = p
    w1 = w1
    w2 = w2
    Campaign = {k1, k2}
    Customer = {p}
    Worker = {w1, w2}
    Manager = {u1}
    Message = {1, 2}
    Of <- MCOf
    Who <- MCWho
    Callback = {"DELIVERED", "BOUNCED", "COMPLAINED"}
    Draft = {k2}
    Cap = 2
    Budget = 1
    MaxAttempts = 2
    MaxStalls = 1
    MaxEvents = 3
SPECIFICATION Spec
SYMMETRY MCAlike
CHECK_DEADLOCK FALSE
INVARIANTS
    CalledOnce
    PressureCapped
    BudgetKept
    CountedOnce
PROPERTIES
    OppositionHonoured
