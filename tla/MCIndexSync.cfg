SPECIFICATION Spec
CONSTANTS
    Writers = {w1, w2}
    Builders = {b1}
    IndexKeys = {k1, k2}
    Self = Self
    far = far
    near = near
    Others = {far, near}
    Token <- Tokens
    PageSize = 1
    LwtTime = 2
    Grain = 2
    MaxClock = 7
    First = First
    NoKey = NoKey
    Absent = Absent
    Tomb = Tomb
    None = None
SYMMETRY IndexSymmetry
INVARIANTS TypeOK IndexAgrees
PROPERTY VersionsIncrease
CONSTRAINT Open
CHECK_DEADLOCK FALSE
