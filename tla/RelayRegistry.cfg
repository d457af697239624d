SPECIFICATION FairSpec
CONSTANTS
    Clients = {c1, c2}
    Keys = {k1, k2}
    Server = "server"
    Tokens <- SampleTokens
    MaxRegs = 2
    QueueCap = 1
INVARIANTS EntryHasReceiver CommandsAreVouched
PROPERTIES LostConnectionsLeave
CHECK_DEADLOCK FALSE
