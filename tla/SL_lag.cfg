SPECIFICATION Spec
CONSTANTS
    Provider = "AWS"
    Buckets = {"b1"}
    Regions = {"d"}
    DefaultRegion = "d"
    SpecChoices <- OneBucket
    Adopt = FALSE
    Lag = "any"
    FaultAt <- AnyPoint
    MaxFaults = 2
    MaxEdits = 1
    OutsideMoves = {"delete", "create", "write"}
    MaxOutside = 1
    MaxNow = 0
    Nil = Nil
INVARIANT FinalizerGuards
PROPERTIES LeavesNoneBehind IDReplacedOnlyByStale ImplementsPromise
CHECK_DEADLOCK FALSE
