SPECIFICATION Spec
CONSTANTS
    MissThreshold = 3
    MaxRestarts = 5
    MaxFaults = 0
    MaxDisturbances = 1
    Sessions <- OneQuit
INVARIANT
    QuitLastsUntilTheNextLaunch
CHECK_DEADLOCK FALSE
