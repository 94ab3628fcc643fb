SPECIFICATION FairSpec
CONSTANTS
    MaxEdits = 1
    Platforms <- Lagging
    LabelSets <- SomeLabels
    LabelEdits <- LabelAdded
    InitialLabels <- Unlabelled
    Hosts = {"h1", "h2"}
    GivenHost = "h1"
    FaultKinds = {"api", "routeRead", "invalid", "deletion", "rehost", "crash"}
    MaxFaults = 1
INVARIANTS TypeOK QuietOnlyWhenAllDone StatusFollowsResources
PROPERTIES ResourcesConverge NothingLeftBehind
CHECK_DEADLOCK FALSE
