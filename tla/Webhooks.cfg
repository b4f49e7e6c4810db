SPECIFICATION FairSpec
CONSTANTS
    NumHooks = 1
    Senders <- OneSender
    BatchLimit = 1
    MaxDeliveries = 2
    MaxFaults = 1
    MaxCrashes = 1
INVARIANTS
    TypeOK
    BatchIsCurrent
    StatusIsHonest
    PostsAreCounted
PROPERTIES
    FinalIsFinal
    NoPostOnceHeard
    EveryDeliveryEnds
