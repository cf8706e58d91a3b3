CONSTANTS
    Workspace = {w1, w2}
    None = None
    Id = {i1, i2, i3, i4}
    RestoreId = r0
    PageLimit = 2
    OutCap = 5
    EventCap = 4
    CommandCap = 2
    MaxSeq = 0
    MaxPosts = 1
    MaxRefresh = 1
    MaxSwitches = 2
    MaxFaults = 1
    MaxNested = 0
SPECIFICATION Spec
INVARIANTS
    SyncedIsCurrent
    ChatStoredOnce
    
CHECK_DEADLOCK FALSE
