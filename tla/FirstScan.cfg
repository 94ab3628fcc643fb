SPECIFICATION Spec
CONSTANTS
    t1 = t1
    t2 = t2
    Transactions <- OneTransaction
    HeuristicTransactions = {}
    Listeners <- AlwaysOn
    RecoveryPort = "4722"
    RestartRetryCounter = 1
    FaultKinds = {"resource"}
    MaxFaults = 1
INVARIANTS CleanIsFinished
CHECK_DEADLOCK FALSE
