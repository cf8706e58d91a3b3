CONSTANTS
    g1 = g1
    g2 = g2
    k1 = k1
    k2 = k2
    Agent = {g1, g2}
    Credential = {k1, k2}
    Subject <- MCSubject
    None = None
    MaxPending = 2
    Task = {t1}
    Attempt = {a1, a2}
    Session = {c1, c2, c3}
    Request = {r1, r2}
    ChatRequest = {}
    PushModes = {TRUE}
    MaxDelegates = 0
    MaxVersion = 6
    MaxTexts = 0
    RetriedKinds = {"begin", "interrupt"}
SPECIFICATION RouterSpec
INVARIANTS
    RunningIsWatched
    StopIsRecordable
PROPERTIES
    ImplementsTaskLease
SYMMETRY Symmetry
