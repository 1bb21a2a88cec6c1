CONSTANTS
    g1 = g1
    g2 = g2
    g3 = g3
    Groups <- MCGroups
    FirstGroups <- MCFirstGroups
    None = None
    MaxFetches = 2
    MaxPosts = 2
    MaxTaps = 2
    MaxChanges = 0
    MaxFaults = 0
SPECIFICATION Spec
CHECK_DEADLOCK FALSE
INVARIANT RowsMatchTitle
