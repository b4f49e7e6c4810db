SPECIFICATION GFairSpec
CONSTANTS
    NumBooks = 1
    NoBook = NoBook
    Callers <- OneCaller
    Requests <- Uploads
    MaxConcurrent = 2
    OrganizeLimit = 1
    PoolSize = 1
    MaxJobs = 2
    MaxFaults = 1
    MaxCrashes = 1
INVARIANTS
    PermitsConserved
    NoDetachedTask
    OneWorkerPerBook
PROPERTIES
    GaugesConverge
    EveryJobEnds
    ImplementsFairBoard
