SPECIFICATION Spec
CONSTANTS
    NVoters = 3
    Signature <- MCSignature
    SinkholeVoters <- MCSinkholeVoters
    Replies <- MCReplies
INVARIANT
    UnreachableMeansEveryVoterFailed
CHECK_DEADLOCK FALSE
