SPECIFICATION FairSpec
CONSTANTS
    MaxPods = 2
    Volumes <- OneVolume
    Images <- OneImage
    LaggingCache = TRUE
    InitialSpec <- TwoPods
    Edits <- DownByOne
    MaxGeneration = 2
    TransactionalPods = {1}
    HeuristicPods = {1}
    FaultKinds = {"api", "exec", "restart", "crash"}
    MaxFaults = 1
PROPERTIES Converges
CHECK_DEADLOCK FALSE
