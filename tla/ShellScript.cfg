SPECIFICATION Spec
CONSTANTS
    Capabilities <- MCCapabilities
    Inputs <- MCInputs
    MaxReloads = 1
    MaxLines = 3
    OutCapacity = 2
INVARIANTS RunsWhatWasAsked ClientAndServerAgree WellFormedSession
PROPERTIES EveryRunEnds
CHECK_DEADLOCK FALSE
