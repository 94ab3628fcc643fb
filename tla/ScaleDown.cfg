SPECIFICATION Spec
CONSTANTS
    MaxPods = 3
    Volumes <- OneVolume
    Images <- OneImage
    LaggingCache = TRUE
    InitialSpec <- ThreePods
    Edits <- DownByTwo
    MaxGeneration = 2
    TransactionalPods = {1, 2}
    HeuristicPods = {}
    FaultKinds = {"api", "exec", "crash"}
    MaxFaults = 1
INVARIANTS ScaleDownInv NoOrphanedTransactions CleanIsDrained CleanIsOffBalancer
INVARIANTS QuietOnlyWhenScaled RecoveredPodsHaveEntries
PROPERTIES ShrinkRemovesOnlyClean ImplementsContract
CHECK_DEADLOCK FALSE
