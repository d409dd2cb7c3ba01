SPECIFICATION Spec
CONSTANTS
    Keys <- TwoKeys
    PartitionOf <- OnePartition
    Txns = {t1, t2}
    Requests <- UpdateRequests
    Recoverers = {r1}
    Singles = {s1}
    SingleOps <- MixedSingleOps
    MaxRecoveryErrors = 0
    EarlyRecovery = FALSE
    None = None
    NoItem = NoItem
SYMMETRY TxnSymmetry
PROPERTY NoLostUpdate
CHECK_DEADLOCK FALSE
