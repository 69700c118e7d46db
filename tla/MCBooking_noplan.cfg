SPECIFICATION Spec
CONSTANTS
    Table <- MCNoTable
    Capacity <- MCNoCapacity
    MinCapacity <- MCNoCapacity
    Client = {c1, c2}
    Slot <- MCSlot
    Party = {2}
    Mode = {"direct", "overbook", "staff"}
    Feature = {"modify", "partySize"}
    Target = {"PENDING", "CONFIRMED", "SEATED", "HONORED", "CANCELLED", "NO_SHOW", "FAILED", "EXPIRED"}
    ManualValidation = TRUE
    HoldTtl = 1
    MealTime = 2
    MaxWait = 1
    MaxRows = 2
    MaxTime = 2
SYMMETRY ClientSymmetry
INVARIANTS NoPlanExclusive
CHECK_DEADLOCK FALSE
