SPECIFICATION Spec
CONSTANTS
    Sessions = {c1, c2, c3}
    ClientIDs = {i1}
    Keys = {k1}
    Subdomains = {n1}
    Protocols = {"udp"}
    Requests = {0, 2}
    PortStart = 1
    PortEnd = 2
    MaxConnections = 2
    NoSession = NoSession
    NoID = NoID
    NoKey = NoKey
    NoName = NoName
SYMMETRY Symmetry
INVARIANTS
    PortAccounting
    ClientsAreLive
PROPERTIES
    EntryOutlivesPredecessor
    ImplementsPortLease
