SPECIFICATION Spec
CONSTANTS
    SpecChoices <- Seeded
    Configs = {"c1"}
    ScaleRange = {2, 3}
    MaxEdits = 0
    MaxMishaps = 0
    Nil = Nil
PROPERTY SeedKept
CHECK_DEADLOCK FALSE
