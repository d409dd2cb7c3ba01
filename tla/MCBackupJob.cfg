CONSTANTS
    Reconcilers = {r1, r2}
    Clients = {}
    Objects <- MCObjects
    Period = 1
    StaleAfter = 3
    MaxTakes = 2
    MaxBeats = 2
    MaxFaults = 1
SPECIFICATION Spec
SYMMETRY ReconcilerSymmetry
INVARIANTS AvailableComplete SucceededKept
PROPERTY PutUnderClaim
