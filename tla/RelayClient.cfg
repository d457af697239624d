SPECIFICATION ControlSpec
CONSTANTS
    MaxDelay = 5
    TunnelBound = 2
INVARIANTS BackoffFollowsRegistration
PROPERTIES KeepsTrying
CHECK_DEADLOCK FALSE
