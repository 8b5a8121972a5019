SPECIFICATION Spec

CONSTANTS
    h1 = h1  h2 = h2
    Handlers = {h1, h2}
    NoCert = NoCert
    NoLimit = NoLimit
    Root <- MCRoot
    Requests <- MCRequests
    Window = 2
    Ahead = 1
    MinLife = 2
    Start = 2
    MaxTime = 6
    MaxCopies = 3
    MaxFaults = 1
    MaxRestarts = 1

INVARIANTS
    ServedOnce
    OnlyAuthenticPasses
    NonceIsFreed
    RevokedIsRefused

SYMMETRY Symmetry
CHECK_DEADLOCK FALSE
