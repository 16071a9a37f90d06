CONSTANTS
    MaxHandlers = 2
    MaxMessages = 2
    MaxInvokes = 3
    None = None
SPECIFICATION Spec
INVARIANTS
    SentInOrder
    FirstErrorReported
    OkIsComplete
    UnaryNeverPanics
    

    
CHECK_DEADLOCK FALSE
