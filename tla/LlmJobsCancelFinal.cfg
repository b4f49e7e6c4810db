SPECIFICATION Spec
CONSTANTS
    NumBooks = 1
    NoBook = NoBook
    Callers <- OneCaller
    Requests <- UploadsAndCancels
    MaxConcurrent = 1
    OrganizeLimit = 1
    PoolSize = 1
    MaxJobs = 1
    MaxFaults = 0
    MaxCrashes = 0
PROPERTIES
    CancelSparesFinal
