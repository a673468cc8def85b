SPECIFICATION FairSpec
CONSTANTS
    MaxConns = 2
    MaxRetries = 1
    MaxLoops = 2
INVARIANTS
    OnePingLoop
PROPERTIES
    HandshakeEnds
    ChannelGoroutinesEnd
CHECK_DEADLOCK FALSE
