SPECIFICATION FairSpec
CONSTANTS
    Clients = {c1}
    Enrolls = {e1}
    Files <- MCFiles
    MaxEdits = 2
    MaxRestarts = 0
    Capacity = 2
PROPERTIES WatcherGetsLock
CHECK_DEADLOCK FALSE
