SPECIFICATION Spec
CONSTANTS
    v1 = v1
    v2 = v2
    bad = bad
    good = good
    l1 = l1
    Queries = {q1, q2}
    Domains = {good, bad}
    Qtypes = {"A"}
    Voters = {v1}
    Lists = {l1}
    Blocks <- MCBlocks
    ListZone <- MCListZone
    Evictable = {good}
    Boot <- BootLoaded
    Files <- MCFiles
    Reads <- RatingFields
    Operations = {"rating", "updater"}
    MaxChanges = 1
    MaxGenerations = 2
INVARIANTS
    FilterGovernsTheCache
PROPERTY
    EveryQueryIsAnswered
