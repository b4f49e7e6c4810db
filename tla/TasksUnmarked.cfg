SPECIFICATION Spec
CONSTANTS
    Tasks = {backup}
    Crons <- WithYear
    MaxTime = 3
    MaxCount = 2
    MaxFaults = 0
    MaxCrashes = 0
INVARIANTS
    ExecutionIsMarked
