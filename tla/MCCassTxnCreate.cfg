SPECIFICATION FairSpec
CONSTANTS
    Keys <- TwoKeys
    PartitionOf <- OnePartition
    Txns = {t1, t2}
    Requests <- CreateRequests
    Recoverers = {r1}
    Singles = {}
    SingleOps = {}
    MaxRecoveryErrors = 0
    EarlyRecovery = FALSE
    None = None
    NoItem = NoItem
PROPERTIES ConditionsHold 
CHECK_DEADLOCK FALSE
