CONSTANTS
    MaxReq = 2
    MaxSession = 2
    Provider = {"codex", "claude"}
    BeginOutsideTurn = TRUE
    Interactive = TRUE
SPECIFICATION FairSpec
INVARIANTS
    EndedIsOver
    ChildEndsWithHost

    
CHECK_DEADLOCK FALSE
