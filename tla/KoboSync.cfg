SPECIFICATION Spec
CONSTANTS
    Calls <- MCCalls
    InitDbs <- MCInitDbs
    Users = {"u1", "u2"}
    Kobos = {"k1"}
    Books <- MCBooks
    Libraries = {"L", "M"}
    InitHome <- MCInitHome
    MergedInto = {4}
    NewLibrary = "L"
    MayDownload = {"u1", "u2"}
    PageSize = 1
    None = None
    Removed = Removed
    MaxNow = 6
    MaxGivenUp = 1
    MaxChanges = 1
    TagNames = {"tag", "name"}
    TagItems <- MCTagItems
INVARIANTS TypeOK NothingMissed
PROPERTIES OnlyOwnShelves
CHECK_DEADLOCK FALSE
