SPECIFICATION Spec
CONSTANTS
    NumBooks = 1
    NoBook = NoBook
    Callers <- OneCaller
    Requests <- Operations
    MaxConcurrent = 1
    OrganizeLimit = 1
    PoolSize = 1
    MaxJobs = 2
    MaxFaults = 1
    MaxCrashes = 1
INVARIANTS
    TypeOK
    RunningHasTask
    OneActivePerBook
    EventOnce
PROPERTIES
    FinishedStaysFinished
