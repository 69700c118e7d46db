SPECIFICATION FloorSpec
CONSTANTS
    Table <- MCTable
    Capacity <- MCCapacity
    MinCapacity <- MCMinCapacity
    Client = {}
    Staff = {u1}
    Slot <- MCEarlySlot
    Party = {2, 4}
    Mode = {}
    Feature = {"holdOn", "allocated", "walkIn", "allocateTable", "modify", "partySize"}
    Target = {"CONFIRMED", "SEATED", "HONORED", "NO_SHOW", "CANCELLED"}
    ManualValidation = FALSE
    HoldTtl = 1
    MealTime = 2
    MaxWait = 1
    MaxRows = 2
    MaxTime = 2
INVARIANTS MovesSafeUnlessStale StatusAgrees
CHECK_DEADLOCK FALSE
PROPERTIES NeverRevived
