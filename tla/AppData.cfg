SPECIFICATION Spec
CONSTANTS
    Requests = {r1, r2}
    Sources = {s1, s2}
    Scenarios <- MCScenarios
    MaxDisturbances <- MCMaxDisturbances
    Hosts = {1, 2, 3}
    LastDay = 2
    Thresholds <- MCThresholds
    Cap = 2
    Batch = 1
    Actions = {a1, a2}
    MaxCertificates = 3
INVARIANTS
    ConfigTypeOK
    AcknowledgedIsOnDisk
    MemoryAgreesWithDisk
    TyposSurvive
    FlushedIsKept
    FilesOpenWithTheStoredKey
    RefusedIsNeverUsed
    
    ChangesWakeTheTasks
    TheZoneIsWhatTheVisitsSay
    StartAndInstallMend
PROPERTIES
    NoSuddenChange
    RequestsAreAnswered
    BundlesFollowTheSelection
    GeoipFollowsTheSource
CHECK_DEADLOCK FALSE
