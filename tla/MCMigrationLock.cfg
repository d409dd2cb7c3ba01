CONSTANTS
    Locks = {p1, p2}
    None = None
    Ttl = 5
    RenewEvery = 1
    Margin = 3
    Stall = 3
    RequestTimeout = 2
    DdlTimeout = 2
    MaxTime = 11
SPECIFICATION Spec
SYMMETRY LockSymmetry
INVARIANTS WriterUnderLock HungHolderLoses
CHECK_DEADLOCK FALSE
