SPECIFICATION FairSpec
CONSTANTS
    Proc = {p1, p2}
    None = None
    i1 = i1
    k1 = k1
    k2 = k2
    Invite = {i1}
    Key = {k1, k2}
    InviteOf <- MCInviteOf
    ProviderOf <- MCProviderOf
    HasConfig = FALSE
    HasCa = TRUE
    MaxFault = 2
    MaxId = 8
INVARIANTS
    IdentityIsKept
    IntentIsDurable
    AppliedWasMade
PROPERTIES
    InstallationEnds
CHECK_DEADLOCK FALSE
