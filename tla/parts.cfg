SPECIFICATION FairSpec
CONSTANTS
    Names = {"admin", "ann"}
    MaxIds = 3
    MaxHeld = 2
    Goroutines = {g1, g2, g3}
    MaxClients = 1
    Streams = {s1, s2, s3}
    Workers = {w1, w2}
    PoolTasks = {t1, t2, t3, t4, t5}
INVARIANTS
    ClaimsMatchRow
    PushIsOneSnapshot
    ActiveCountsStreams
    NothingLeftOpen
    NoneRunsAfterStop
PROPERTIES
    AdminsComeFromAdmins
    EveryoneLeaves
    StopEnds
CHECK_DEADLOCK FALSE
