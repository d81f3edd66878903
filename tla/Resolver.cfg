SPECIFICATION Spec
CONSTANTS
    v1 = v1
    v2 = v2
    bad = bad
    good = good
    l1 = l1
    Queries = {q1}
    Domains = {bad, good}
    Qtypes = {"A", "Other"}
    Voters = {v1, v2}
    Lists = {l1}
    Blocks <- MCBlocks
    ListZone <- MCListZone
    Evictable = {bad}
    Boot <- BootClosed
    Files <- MCFiles
    Reads <- EachField
    Operations = {"config", "cacheConfig", "geoip", "providers", "rating", "overrides", "reset", "pause", "probe", "bundles", "updater", "personal", "expire"}
    MaxChanges = 1
    MaxGenerations = 2
INVARIANTS
    TypeOK
    
    GenerationsMoveForward
    
