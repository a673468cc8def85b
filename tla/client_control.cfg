SPECIFICATION FairSpec
CONSTANTS
    MaxConns = 2
    Exiters = {"ctrlC"}
    LoopSets = {{"heartbeat"}, {"traffic"}, {"http"}}
INVARIANTS
    OneControlConn
PROPERTIES
    ReconnectionNeverPanics
    LossLeadsToRedial
    ExitEndsService
    HeartbeatEndsWithConn
