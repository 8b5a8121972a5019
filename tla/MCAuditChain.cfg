SPECIFICATION ChainSpec

CONSTANTS
    c1 = c1  c2 = c2  c3 = c3  e1 = e1  e2 = e2  e3 = e3
    Callers = {c1, c2, c3}
    Events = {e1, e2, e3}
    EventOf <- MCEventOf
    Payload <- MCPayload
    Nobody = Nobody

INVARIANTS
    ChainVerifies
    TamperingDetected

PROPERTIES
    ImplementsLog

CHECK_DEADLOCK FALSE
