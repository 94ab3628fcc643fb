SPECIFICATION Spec
CONSTANTS
    MaxPods = 2
    Volumes <- OneVolume
    Images <- TwoImages
    LaggingCache = FALSE
    InitialSpec <- TwoPods
    Edits <- DownAndNewImage
    MaxGeneration = 3
    TransactionalPods = {0}
    HeuristicPods = {}
    FaultKinds = {}
    MaxFaults = 0
INVARIANTS NoOrphanedTransactions
CHECK_DEADLOCK FALSE
