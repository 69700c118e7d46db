SPECIFICATION ArrivalSpec
CONSTANTS
    Table <- MCTable
    Capacity <- MCCapacity
    MinCapacity <- MCMinCapacity
    Arrival <- MCArrival
    MaxItems = 4
INVARIANTS PlanSound VerdictHasWitness
CHECK_DEADLOCK FALSE
