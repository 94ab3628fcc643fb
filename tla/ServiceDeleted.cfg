SPECIFICATION Spec
CONSTANTS
    MaxEdits = 0
    Platforms <- InStep
    LabelSets <- SomeLabels
    LabelEdits <- NoLabelEdit
    InitialLabels <- Unlabelled
    Hosts = {"h1"}
    GivenHost = "h1"
    FaultKinds = {"deletion"}
    MaxFaults = 1
INVARIANTS QuietOnlyWhenCurrent
CHECK_DEADLOCK FALSE
