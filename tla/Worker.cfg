CONSTANTS
    Ids = {i1, i2}
    Specs <- ProcessSpecs
    None = None
    MaxChanges = 1
    MaxFaults = 1
    Workflows <- ExactIds
    Random = Random
    Invalid = Invalid
    Foreign = Foreign
    Unknown = Unknown
    Empty = Empty
SPECIFICATION Spec
INVARIANTS
    TriggersInStep
    OnlyTriggeredRuns
PROPERTIES
    RunningIsKept
    TriggeredAgain
    CancelEnds
CHECK_DEADLOCK FALSE
