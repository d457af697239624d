SPECIFICATION FairSpec
CONSTANTS
    Clients = {c1}
    Enrolls = {e1}
    Files <- MCFiles
    MaxEdits = 3
    MaxRestarts = 1
    Capacity = 2
INVARIANTS SameVersionSameConfig NewestIsNotified
 
CHECK_DEADLOCK FALSE
