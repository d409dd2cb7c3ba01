SPECIFICATION Spec
CONSTANTS
    Writers = {w1}
    Sweepers = {s1}
    Cleaners = {}
    Works = {k1}
    a = a
    c = c
    Images = {a, c}
    TtlOf <- Ttls
    Expiries = {1, 2}
    Due = {1}
    MaxGen = 1
    MaxFaults = 0
    None = None
INVARIANT SealedWorkHeld
CHECK_DEADLOCK FALSE
