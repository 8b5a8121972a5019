SPECIFICATION FairJobsSpec
CONSTANTS
    j1 = j1
    j2 = j2
    h1 = h1
    None = None
    Jobs <- MCJobs
    Hash <- MCHash
    MaxWorkers = 2
INVARIANT OneRunPerHash
PROPERTIES ReadersAreTold NothingStays
CHECK_DEADLOCK FALSE
