SPECIFICATION Spec
CONSTANTS
    Writers = {w1}
    Sweepers = {s1}
    Cleaners = {d1}
    Works = {k1}
    a = a
    c = c
    Images = {a, c}
    TtlOf <- Ttls
    Expiries = {1, 2}
    Due = {1}
    MaxGen = 1
    MaxFaults = 1
    None = None
INVARIANTS Registered Fenced IndexKept
PROPERTIES EffectsFenced OnlyDueDeleted
CHECK_DEADLOCK FALSE
