SPECIFICATION FairSpec
CONSTANTS
    Ids = {i1}
    MaxOpens = 2
    MaxTimeouts = 2
    IdleRetries = 3
INVARIANTS
    EntryIsRead
    TimerHasSession
PROPERTIES
    ImplementsSessionLife
    TakenSessionEnds
CHECK_DEADLOCK FALSE
