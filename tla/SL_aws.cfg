SPECIFICATION Spec
CONSTANTS
    Provider = "AWS"
    Buckets = {"b1"}
    Regions = {"d"}
    DefaultRegion = "d"
    SpecChoices <- OneBucket
    Adopt = FALSE
    Lag = "users"
    FaultAt <- AnyPoint
    MaxFaults = 2
    MaxEdits = 1
    OutsideMoves = {"delete", "create", "write"}
    MaxOutside = 2
    MaxNow = 1
    Nil = Nil
INVARIANTS TypeOK CreatesOnlyGuarded NoOrphanAfterGone CreatedAtHonest
    ClaimsBackedByCreation
PROPERTIES StatusNotLost ImplementsPromise
CHECK_DEADLOCK FALSE
