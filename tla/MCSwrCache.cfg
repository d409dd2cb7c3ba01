SPECIFICATION Spec
CONSTANTS
    Keys = {k1}
    Readers = {r1, r2}
    Writers = {w1}
    Refreshers = {t1, t2}
    Ids = {i1, i2, i3, i4, i5, i6}
    Ttl = 2
    SoftTtl = 1
    NegativeTtl = 1
    MaxLoad = 1
    MaxTime = 3
    MaxWrites = 1
    NegativeVersions = {1}
    NoEntry = NoEntry
    NoReader = NoReader
SYMMETRY TaskSymmetry
INVARIANTS TypeOK StaleBounded RefreshSingleFlight
