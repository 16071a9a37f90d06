CONSTANTS
    Ids = {"id1", "id2"}
    Rank <- IdRank
    Names = {"a", "b", ""}
    Instances <- SomeInstances
    Kebab <- KebabOf
    None = None
    Specs <- NodeSpecs
    PageSize = 2
    MaxChanges = 4
SPECIFICATION Spec
INVARIANTS
    ServedIsStored
    VirtualHostsInStep
    
    IngressIsGuarded
CHECK_DEADLOCK FALSE
