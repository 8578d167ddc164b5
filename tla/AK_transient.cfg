SPECIFICATION Spec
CONSTANTS
    Buckets = {"b1", "b2"}
    Names = {"n1", "n2"}
    DefaultName = "n1"
    KeyIDs = {1, 2, 3, 4}
    MaxFaults = 1
    MaxEdits = 0
    MaxOutside = 0
    Nil = Nil
PROPERTY GoodKeyKept
CHECK_DEADLOCK FALSE
