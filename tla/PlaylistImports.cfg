SPECIFICATION FairSpec
CONSTANTS
    Requests = {r1, r2}
    Other = Other
    Nobody = Nobody
    MaxJobs = 2
    MaxWorkers = 2
    MaxOutside = 2
CHECK_DEADLOCK FALSE
INVARIANTS
    OneImportPerRequest
    CancelledAddsNothing
    FailedStartRetains
PROPERTIES
    OnlyPendingStartsRetired
    SlotsAreReturned
