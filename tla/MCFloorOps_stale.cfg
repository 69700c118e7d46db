SPECIFICATION FloorSpec
CONSTANTS
    Table <- MCTable
    Capacity <- MCCapacity
    MinCapacity <- MCMinCapacity
    Client = {}
    Staff = {u1}
    Slot <- MCSlot
    Party = {2, 4}
    Mode = {}
    Feature = {"allocated", "modify", "allocateTable"}
    Target = {"CANCELLED"}
    ManualValidation = FALSE
    HoldTtl = 1
    MealTime = 2
    MaxWait = 0
    MaxRows = 2
    MaxTime = 1
INVARIANTS MoveRespectsHolds
CHECK_DEADLOCK FALSE
