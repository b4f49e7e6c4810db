SPECIFICATION AlgorithmsSpec
CONSTANTS
    MaxItems = 2
    TargetSize = 3
    WantedOverlap = 1
    MaxLines = 5
    Alphabets <- MCAlphabets
    Books = {1, 2, 3}
    Kinds <- MCKinds
    Tags <- MCTags
    Shelves <- MCShelves
    Downloads <- MCDownloads
    Blocked <- MCBlocked
    Allowed <- MCAllowed
    Lists <- MCLists
    Rank <- MCRank
    SqlLower <- MCSqlLower
    RustLower <- MCRustLower
    Initial <- MCInitial
    PageMax = 2
    PageDefault = 1
    SearchDefault = 1
    Searches <- MCSearches
    Sizes = {0, 3}
    MaxEdits = 1
    Libraries <- MCLibraries
    MaxRuns = 3
    MaxTroubles = 2
INVARIANTS
    RunsAsMeant
    TextKept
    WalksSeeAll
    ImportsAddUp
CHECK_DEADLOCK FALSE
