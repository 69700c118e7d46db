SPECIFICATION ListSpec
CONSTANTS
    Table <- MCTable
    Capacity <- MCCapacity
    MinCapacity <- MCMinCapacity
    Client = {}
    Slot <- MCSlot
    Party = {1, 2}
    Mode = {}
    Feature = {"allocated", "partySize"}
    Target = {"CANCELLED"}
    ManualValidation = FALSE
    HoldTtl = 1
    MealTime = 2
    MaxWait = 0
    MaxRows = 3
    MaxTime = 2
    Customer = {a, b}
    Manager = {u1}
    Operation = {o1}
    Delay = {1}
    MaxPerSlot = 1
    MaxEntries = 2
INVARIANTS OnePromotion RecoverySafe
PROPERTIES EntryFinal StaleEntriesEnd
CHECK_DEADLOCK FALSE
