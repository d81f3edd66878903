SPECIFICATION Spec
CONSTANTS
    p1 = p1
    p2 = p2
    c1 = c1
    Peers = {p1, p2, c1}
    Pages = {p1, p2}
    MaxConnections = 2
    MaxStreams = 1
    Topics = {overrides, geoip}
    Markers = 3
    Chain = 3
    ConfirmCycles = 3
    SwitchThreshold = 3
    MarkerStates <- MCMarkerStates
    ChainStates <- MCChainStates
    Scenarios <- MCScenarios
INVARIANTS
    TypeOK
    OfflineIsConfirmed
    CeilingsHold
PROPERTIES
    
    
    CardsCatchUp
    StatusCatchesUp
    ShutdownDrains
CHECK_DEADLOCK FALSE
