SPECIFICATION Spec
CONSTANTS
    Provider = "AWS"
    Buckets = {"b1"}
    Regions = {"d", "r"}
    DefaultRegion = "d"
    SpecChoices <- RetainAnywhere
    Adopt = FALSE
    Lag = "any"
    FaultAt = {}
    MaxFaults = 0
    MaxEdits = 0
    OutsideMoves = {}
    MaxOutside = 0
    MaxNow = 0
    Nil = Nil
INVARIANT RetainedSurvives
CHECK_DEADLOCK FALSE
