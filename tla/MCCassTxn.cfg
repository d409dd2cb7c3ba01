SPECIFICATION Spec
CONSTANTS
    Keys <- TwoKeys
    PartitionOf <- OnePartition
    Txns = {t1, t2}
    Requests <- MixedRequests
    Recoverers = {r1}
    Singles = {}
    SingleOps = {}
    MaxRecoveryErrors = 1
    EarlyRecovery = FALSE
    None = None
    NoItem = NoItem
SYMMETRY TxnSymmetry
INVARIANTS TypeOK DataIntact AllOrNothing AnswerIsOutcome 
PROPERTY PromiseKept
CHECK_DEADLOCK FALSE
