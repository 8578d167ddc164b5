SPECIFICATION FairSpec
CONSTANTS
    SpecChoices <- Toggled
    Configs = {"c1", "c2"}
    ScaleRange = {2}
    MaxEdits = 1
    MaxMishaps = 1
    Nil = Nil
INVARIANTS TypeOK QuietMatches QuietReady QuietConfigMaps
PROPERTY Settles
CHECK_DEADLOCK FALSE
