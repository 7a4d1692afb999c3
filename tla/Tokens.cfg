SPECIFICATION RegistrySpec
CONSTANTS
    u1 = u1
    w1 = w1
    w2 = w2
    Null = Null
    Users <- MCUsers
    Processes <- MCProcesses
    AccessLife = 1
    BlacklistTtl = 2
    RefreshLife = 3
    Rs256 = FALSE
    MaxTokens = 4
    MaxClock = 3
    MaxCalls = 2
    MaxCuts = 1
SYMMETRY Symmetry
INVARIANTS
    LastRevocationHolds
    RevokedNotListed
    NoImmortalKeys
CHECK_DEADLOCK FALSE
