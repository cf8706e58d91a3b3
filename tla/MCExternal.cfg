CONSTANTS
    n1 = n1
    n2 = n2
    None = None
    Config <- MCConfig
    Credential = {c1}
    MaxOps = 2
    MaxTask = 2
    InitialTasks = 1
    MaxIssue = 1
    MaxVersion = 2
    MaxRev = 2
    Limit = 2
    ImportOwn = FALSE
SPECIFICATION FairSpec
INVARIANTS
    OpenKeepsItsTarget
    FailedWasNotApplied
    ReservationsExact
PROPERTIES
    OperationEnds
CHECK_DEADLOCK FALSE
