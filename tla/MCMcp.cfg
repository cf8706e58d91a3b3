CONSTANTS
    Roles = {"codex_cli", "omp"}
    MaxCalls = 2
    MaxConcurrent = 2
    Request = {r1}
    TaskRequest = {r1}
    LossyRoles = {"omp"}
    MaxDrops = 1
    WireCap = 1
    None = None
SPECIFICATION FairSpec

    
PROPERTIES
    ResultReachesCall
    CallEnds
CHECK_DEADLOCK FALSE
