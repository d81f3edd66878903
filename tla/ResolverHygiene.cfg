SPECIFICATION Spec
CONSTANTS
    v1 = v1
    v2 = v2
    bad = bad
    good = good
    l1 = l1
    Queries = {q1}
    Domains = {bad, good}
    Qtypes = {"A"}
    Voters = {v1, v2}
    Lists = {l1}
    Blocks <- MCBlocks
    ListZone <- MCListZone
    Evictable = {bad, good}
    Boot <- BootClosed
    Files <- MCFiles
    Reads <- EachField
    Operations = {"expire"}
    MaxChanges = 1
    MaxGenerations = 2
INVARIANT
    EvictedNamesAreBlockedByAVoter
