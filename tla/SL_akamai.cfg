SPECIFICATION FairSpec
CONSTANTS
    Provider = "Akamai"
    Buckets = {"b1"}
    Regions = {"d"}
    DefaultRegion = "d"
    SpecChoices <- SpeltOutBucket
    Adopt = FALSE
    Lag = "users"
    FaultAt <- RecordedPoints
    MaxFaults = 2
    MaxEdits = 1
    OutsideMoves = {"delete", "write"}
    MaxOutside = 1
    MaxNow = 0
    Nil = Nil
INVARIANTS NoOrphanAfterGone RetainedSurvives
PROPERTIES DeletionCompletes BecomesReady RemovalCompletes
CHECK_DEADLOCK FALSE
