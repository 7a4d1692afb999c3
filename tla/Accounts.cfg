SPECIFICATION Spec
CONSTANTS
    e1 = e1
    e2 = e2
    n1 = n1
    n2 = n2
    c1 = c1
    w1 = w1
    w2 = w2
    None = None
    Emails <- MCEmails
    Usernames <- MCUsernames
    Codes <- MCCodes
    Workers <- MCWorkers
    MaxAttempts = 2
    LockTicks = 1
    LinkTicks = 1
    RetentionTicks = 1
    AllowMagicRegistration = TRUE
    MaxUsers = 2
    MaxTime = 3
    MaxRequests = 4
SYMMETRY Symmetry
INVARIANTS
    NoEarlyLockout
    LockoutExactUnlessRaced
    SecondFactorUnlessRaced
    OneUsePerCeremony
