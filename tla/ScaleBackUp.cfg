SPECIFICATION FairSpec
CONSTANTS
    MaxPods = 2
    Volumes <- OneVolume
    Images <- OneImage
    LaggingCache = FALSE
    InitialSpec <- TwoPods
    Edits <- DownAndUp
    MaxGeneration = 3
    TransactionalPods = {}
    HeuristicPods = {}
    FaultKinds = {}
    MaxFaults = 0
PROPERTIES ActivePodsServe
CHECK_DEADLOCK FALSE
