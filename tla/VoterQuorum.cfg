SPECIFICATION Spec
CONSTANTS
    NVoters = 3
    Signature <- MCSignature
    SinkholeVoters <- MCSinkholeVoters
    Replies <- MCReplies
INVARIANTS
    TypeOK
    RecordsJustifyTheVerdict
    ServedReplyIsUndisputed
    UnreachableIsNeverMissed
PROPERTIES
    ImplementsOrDecision
    AlwaysDecides
CHECK_DEADLOCK FALSE
