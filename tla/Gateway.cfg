CONSTANTS
    Keys = {"/a", "/a/b"}
    PrefixesOf <- PathPrefixes
    Methods = {"GET"}
    Undefined = Undefined
    None = None
    Ids = {i1, i2}
    Specs <- PolicySpecs
    Foreign = Foreign
    PageSize = 2
SYMMETRY IdSymmetry
SPECIFICATION Spec
INVARIANTS
    MatchIsBest
    InStepWithStore
    MatchersInStep
PROPERTIES
    ImplementsTable
CHECK_DEADLOCK FALSE
