SPECIFICATION FairSpec
CONSTANTS
    MaxPods = 2
    Volumes <- TwoVolumes
    Images <- TwoImages
    LaggingCache = FALSE
    InitialSpec <- OnePod
    Edits <- OtherWays
    MaxGeneration = 3
    TransactionalPods = {}
    HeuristicPods = {}
    FaultKinds = {"api", "exec", "crash", "podLoss"}
    MaxFaults = 1
INVARIANTS TypeOK ListCoversStatefulSet
PROPERTIES ShrinkCovered Converges
CHECK_DEADLOCK FALSE
