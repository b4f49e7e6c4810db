SPECIFICATION FairSpec
CONSTANTS
    Tasks = {backup, organize}
    Crons <- WithYear
    MaxTime = 3
    MaxCount = 4
    MaxFaults = 1
    MaxCrashes = 1
INVARIANTS
    TypeOK
    OneJobPerRun
PROPERTIES
    DueIsRun
