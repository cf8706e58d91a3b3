CONSTANTS
    Proc = {p1, p2}
    None = None
    Port = {1, 2}
    MaxInstance = 2
SPECIFICATION FairSpec
INVARIANTS
    ServingIsRecorded
    ForwardIsRecorded
PROPERTIES
    LockIsReleased
CHECK_DEADLOCK FALSE
