CONSTANTS
    Sessions = {s1, s2}
    Groups = {g1, g2}
    NoGroup = NoGroup
    HttpEnable = TRUE
    CleanupMode = "asap"
    MemoryAsDisk = TRUE
    MaxMuxers = 2
SPECIFICATION FairSpec
INVARIANTS HandlerMatchesGroup
PROPERTIES EndedIsCleaned
CHECK_DEADLOCK FALSE
