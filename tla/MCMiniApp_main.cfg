CONSTANTS
    g1 = g1
    g2 = g2
    g3 = g3
    Groups <- MCGroups
    FirstGroups <- MCFirstGroups
    None = None
    MaxFetches = 2
    MaxPosts = 2
    MaxTaps = 2
    MaxChanges = 1
    MaxFaults = 1
SPECIFICATION Spec
SYMMETRY MCSymmetry
CHECK_DEADLOCK FALSE
INVARIANTS
    TypeOK
    QuietScreenIsCurrent
    SpinnersEnd
    RealtimeStartsOnce
