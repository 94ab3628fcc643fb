SPECIFICATION Spec
CONSTANTS
    MaxPods = 2
    Volumes <- OneVolume
    Images <- OneImage
    LaggingCache = FALSE
    InitialSpec <- TwoPods
    Edits <- DownOnly
    MaxGeneration = 2
    TransactionalPods = {1}
    HeuristicPods = {}
    FaultKinds = {"restart"}
    MaxFaults = 1
INVARIANTS NoOrphanedTransactions
CHECK_DEADLOCK FALSE
