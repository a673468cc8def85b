SPECIFICATION FairSpec
CONSTANTS
    Requests = {r1, r2}
    MaxSessions = 2
INVARIANTS
    AnswerFindsChannel
    EntryHasAsker
PROPERTIES
    ImplementsOneShot
    PublicIsAnswered
    LateRequestEnds
