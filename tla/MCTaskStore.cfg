CONSTANTS
    g1 = g1
    g2 = g2
    k1 = k1
    k2 = k2
    Task = {t1}
    Attempt = {a1, a2}
    Agent = {g1, g2}
    Credential = {k1, k2}
    Subject <- MCSubject
    Session = {s1, s2}
    Request = {r1}
    None = None
    MaxVersion = 6
    MaxTexts = 1
SPECIFICATION Spec
INVARIANTS
    TypeOK
    AttemptTaskAgreement
    AgentExclusive
    NoLostUpdate
    CheckpointIsNewest
PROPERTIES
    StopEvidenceIsFinal
    ImplementsAgentLease
SYMMETRY Symmetry
