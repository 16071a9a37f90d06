CONSTANTS
    None = None
    Configs <- SomeConfigs
    MaxInFlight = 2
    MaxFaults = 1
SPECIFICATION Spec
INVARIANTS
    
    CleanExit
    CertificateMatchesKey
PROPERTIES
    StopEnds
CHECK_DEADLOCK FALSE
