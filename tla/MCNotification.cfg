SPECIFICATION Spec
CONSTANTS
    Worker = {w1, w2}
    Reconciler = {r1}
    Channel <- MCChannel
    CarriesId <- MCCarriesId
    QueueFails = TRUE
    Lease = 1
    MaxToken = 3
    MaxMessage = 2
INVARIANTS SentOnce SuccessTruthful
PROPERTIES OrphanReclaimed SuccessAudited
CHECK_DEADLOCK FALSE
