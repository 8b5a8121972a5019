SPECIFICATION FairSpec
CONSTANTS
    law = law
    order = order
    next = next
    u1 = u1
    u2 = u2
    Uploads = {u1, u2}
    Files = {law, order, next}
    Offered <- MCOffered
    Names <- MCNames
    FileName <- MCFileName
    Title <- MCTitle
    Name <- MCName
    Edition <- MCEdition
    Repeals <- MCRepeals
    Faults <- MCAllFaults
    MaxFaults = 1
    Batches = 2
    MaxCrashes = 1
    NoRow = NoRow
    NoFile = NoFile
    NoName = NoName
    NoDate = NoDate
    NoTask = NoTask
INVARIANTS
    OneCheckPerFile
    UndecidedKeepsText
    IndexFollowsRequests
PROPERTIES
    CompletedIsIndexed
    AcceptedIsDecided
