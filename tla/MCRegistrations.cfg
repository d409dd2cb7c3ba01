SPECIFICATION FairSpec
CONSTANTS
    s1 = s1
    r1 = r1
    r2 = r2
    r3 = r3
    m1 = m1
    m2 = m2
    Servers = {s1}
    Regs = {r1, r2}
    Owner <- MCOwner
    Migrations = {m1}
    Ttl = 5
    RenewEvery = 1
    RetryEvery = 1
    LostAfter = 2
    RequestTimeout = 1
    StopBound = 1
    Window = 1
    Lag = 0
    MaxStatus = 1
    None = None
INVARIANTS
    TypeOK
    MigrationAlone
    ServesItsCatalog
PROPERTIES
    LossResolved
    MigrationProceeds
