SPECIFICATION Spec
CONSTANTS
    NumBooks = 1
    NoBook = NoBook
    Callers <- TwoCallers
    Requests <- OrganizeOnly
    MaxConcurrent = 2
    OrganizeLimit = 1
    PoolSize = 1
    MaxJobs = 2
    MaxFaults = 0
    MaxCrashes = 0
INVARIANTS
    OneActiveOrganize
