SPECIFICATION Spec

CONSTANTS
    h1 = h1  h2 = h2  admin = admin  operator = operator
    Handlers = {h1, h2}
    Admin = admin
    Others = {operator}
    None = None
    Require2FA = FALSE
    FailClosed = FALSE
    RateLimit = 2
    RateTtl = 1
    FailedLimit = 2
    FailedTtl = 2
    PendingTtl = 2
    ReplayTtl = 3
    MaxSecrets = 2
    MaxPairs = 3
    MaxCalls = 3
    MaxFaults = 1
    MaxDbFaults = 1
    MaxRestarts = 1

INVARIANTS
    CodeOpensOneSession
    SecondFactorStays
    RefreshedOnce
    LogoutHolds

SYMMETRY Symmetry
CHECK_DEADLOCK FALSE
