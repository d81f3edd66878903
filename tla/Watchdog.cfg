SPECIFICATION FairSpec
CONSTANTS
    MissThreshold = 1
    MaxRestarts = 1
    MaxFaults = 2
    MaxDisturbances = 2
    Sessions <- MCSessions
INVARIANTS
    TypeOK
    SpawnsWithinBudget
    StartupFailureStopsRestarts
    ResetSparesWhatLoaded

    
CHECK_DEADLOCK FALSE
