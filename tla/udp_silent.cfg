SPECIFICATION TimedSpec
CONSTANTS
    Ids = {i1}
    MaxOpens = 1
    MaxTimeouts = 1
    IdleRetries = 3
PROPERTIES
    SilentBackendIsGivenUp
CHECK_DEADLOCK FALSE
