SPECIFICATION Spec
CONSTANTS
    MaxOutput = 2
    MaxEvents = 2
    PtyCapacity = 1
    InCapacity = 2
    OutCapacity = 2
INVARIANTS OutputIsPrefix EndIsTrue
PROPERTIES RequestedEndComes
CHECK_DEADLOCK FALSE
