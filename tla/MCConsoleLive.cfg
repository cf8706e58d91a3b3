CONSTANTS
    Workspace = {w1}
    None = None
    Id = {i1, i2, i3, i4}
    RestoreId = r0
    PageLimit = 2
    OutCap = 3
    EventCap = 1
    CommandCap = 8
    MaxSeq = 3
    MaxPosts = 0
    MaxRefresh = 0
    MaxSwitches = 1
    MaxFaults = 1
    MaxNested = 1
SPECIFICATION FairSpec
INVARIANTS
    SyncedIsCurrent
    AckedIsApplied
    RestorationUnderstood

    
CHECK_DEADLOCK FALSE
