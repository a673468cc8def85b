SPECIFICATION Spec
CONSTANTS
    Slots = {s1, s2}
    Tokens = {k1, k2}
    Files = {f1}
    Life = 1
    SweepPeriod = 1
    FirstBackoff = 3
    MaxBackoff = 3
SYMMETRY Symmetry
INVARIANTS
    SessionsEndInTime
PROPERTIES
    RevokedTokenOpensNothing
    ReadOnlyKeepsFiles
