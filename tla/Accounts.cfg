SPECIFICATION Spec
CONSTANTS
    Calls <- MCCalls
    InitDbs <- MCInitDbs
    Codes <- MCCodes
    MaxAttempts = 2
    Default = 0
    NoSecret = NoSecret
    MaxFaults = 1
    Forms <- MCForms
    Passwords <- MCPasswords
    Directory <- MCDirectory
    Identities <- MCIdentities
    Unguessable = Unguessable
    Profiles <- MCProfiles
    Changes <- MCChanges
    Accounts0 <- MCAccounts0
    ProxyUsers <- MCProxyUsers
    LibraryNames <- MCLibraryNames
    Stocked = {0}
INVARIANTS TypeOK SpentOnce LocksHaveFailures OneSetOfCodes
CHECK_DEADLOCK FALSE
