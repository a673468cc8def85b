SPECIFICATION FairSpec
CONSTANTS
    Sessions = {c1, c2}
    ClientIDs = {i1}
    Keys = {k1}
    Subdomains = {n1}
    Protocols = {"tcp", "http"}
    Requests = {0}
    PortStart = 1
    PortEnd = 1
    MaxConnections = 2
    NoSession = NoSession
    NoID = NoID
    NoKey = NoKey
    NoName = NoName
INVARIANTS
    NoOrphanListener
    SubdomainLeadsToSession
PROPERTY DeadSessionIsTornDown
