CONSTANTS
    g1 = g1
    g2 = g2
    k1 = k1
    k2 = k2
    Agent = {g1, g2}
    Credential = {k1, k2}
    Subject <- MCSubject
    None = None
    MaxPending = 2
    Task = {t1}
    Attempt = {a1}
    Session = {c1, c2}
    Request = {r1, r2}
    ChatRequest = {r2}
    PushModes = {TRUE}
    MaxDelegates = 1
    MaxVersion = 3
    MaxTexts = 1
    RetriedKinds = {"begin", "interrupt", "confirm"}
SPECIFICATION FairRouterSpec
PROPERTIES
    AnsweredEventually
    ExecutionEnds
    ImplementsStore
