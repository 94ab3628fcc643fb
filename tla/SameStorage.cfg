SPECIFICATION Spec
CONSTANTS
    Letters <- Alphabet
    DNS1123LabelMaxLength = 6
    Requests <- NotCanonical
    Environments <- PlainEnvironment
    UserLabels <- NoLabels
    PodNames <- Pods
    MaxEdits = 1
PROPERTIES DeletedOnlyForStorage
CHECK_DEADLOCK FALSE
