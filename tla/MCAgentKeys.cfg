SPECIFICATION FairKeysSpec

CONSTANTS
    h1 = h1  h2 = h2  k1 = k1  k2 = k2  k3 = k3
    AdminHandlers = {h1, h2}
    Kids = {k1, k2, k3}
    Agent = agent
    None = None
    First = {None, k1}
    MaxAdminCalls = 2
    MaxRequests = 1
    MaxFailures = 1
    MaxReboots = 1

INVARIANTS
    OneActiveKey
    RevokedKeyFilesNothing
    SuspendedFilesNothing
    SuspendedIsRefused

PROPERTIES
    CachesSettle

CHECK_DEADLOCK FALSE
