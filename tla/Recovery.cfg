SPECIFICATION FairSpec
CONSTANTS
    t1 = t1
    t2 = t2
    Transactions <- TwoTransactions
    HeuristicTransactions <- Heuristic
    Listeners <- OnOrOff
    RecoveryPort = "4722"
    RestartRetryCounter = 1
    FaultKinds = {"exec", "api", "crash", "restart", "partial", "probe", "resource", "container", "slowStop"}
    MaxFaults = 3
INVARIANTS TypeOK CleanIsFinishedUnlessMisled
PROPERTIES BecomesClean
CHECK_DEADLOCK FALSE
