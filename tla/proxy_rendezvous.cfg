SPECIFICATION FairSpec
CONSTANTS
    Proxies = {p1, p2}
    DataConns = {d1, d2}
    UnknownID = UnknownID
    Empty = Empty
    Refused = Refused
    NoConn = NoConn
INVARIANTS
    SendersFindRoom
    EntryHasWaiter
PROPERTIES
    ImplementsMatching
    PublicConnIsServed
    StreamEndsWithEitherEnd
