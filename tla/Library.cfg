SPECIFICATION Spec
CONSTANTS
    Calls <- MCCalls
    Users <- MCUsers
    Admins <- MCAdmins
    Library <- MCLib
    NoValue = NoValue
    InitDb <- MCInitDb
    NewBook <- MCNewBook
    Can <- MCCan
    CoverFiles <- MCCover
    Positions <- MCPositions
    Columns <- MCColumns
    CustomValues <- MCCustomValues
    FormatsUploaded <- MCFormats
    Titles <- MCTitles
    IdentSets <- MCIdents
    Patches <- MCPatches
    BulkChanges <- MCBulk
    ShelfNames <- MCShelfNames
    TagNames <- MCTagNames
    PhotoFiles <- MCPhotos
    ImportRows <- MCRows
    MaxFaults = 1
    MaxCrashes = 1
INVARIANTS TypeOK OneFilePerFormat ProgressIsOfItsBook ImportAddsUp BooksAreFound
PROPERTIES FilesOutliveRows MergeKeepsReaders ConfirmedTagsSurvive
