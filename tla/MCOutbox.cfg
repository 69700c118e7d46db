SPECIFICATION Spec
CONSTANTS
    Event <- MCEvent
    Retried <- MCEvent
    Deferrable <- MCEvent
    Dispatcher = {d1, d2}
    BatchLimit = 2
INVARIANTS TypeOK
PROPERTIES AtLeastOnce DispatchedFinal EventuallyHandled
