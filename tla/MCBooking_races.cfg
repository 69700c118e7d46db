SPECIFICATION Spec
CONSTANTS
    Table <- MCOneTable
    Capacity <- MCCapacity1
    MinCapacity <- MCMinCapacity1
    Client = {c1, c2}
    Slot <- MCSlot
    Party = {2, 4}
    Mode = {"hold", "test", "direct"}
    Feature = {"partySize"}
    Target = {"CANCELLED"}
    ManualValidation = FALSE
    HoldTtl = 1
    MealTime = 2
    MaxWait = 1
    MaxRows = 3
    MaxTime = 3
INVARIANTS TableExclusive HoldConsumedOnce TableFits
PROPERTIES LedgerKept OverdueHoldsSwept
CHECK_DEADLOCK FALSE
