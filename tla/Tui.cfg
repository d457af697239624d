SPECIFICATION Spec
CONSTANTS
    s1 = s1
    s2 = s2
    None = none
    Order <- MCOrder
    Anonymous = {s2}
    Unmatched = {s2}
    Found <- MCFound
    Lists <- MCLists
    Filters <- MCFilters
    MaxTasks = 2
    MaxKeys = 2
INVARIANTS ShowsItsOwnTask BusyHasTask
PROPERTIES ActsOnWhatIsShown PaneKeepsUntilAnswer
CHECK_DEADLOCK FALSE
