SPECIFICATION Spec
CONSTANTS
    Letters <- Alphabet
    DNS1123LabelMaxLength = 6
    Requests <- AllRequests
    Environments <- AllEnvironments
    UserLabels <- TeamLabel
    PodNames <- Pods
    MaxEdits = 3
INVARIANTS TypeOK CurrentMeansDeployed PodsCanBeCreated DataIsOnVolume ProbesAsAsked
INVARIANTS MarkedPodsStayOwned PodsInOrder
PROPERTIES DeletedOnlyForStorage
CHECK_DEADLOCK FALSE
