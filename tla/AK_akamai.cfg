SPECIFICATION FairSpec
CONSTANTS
    Buckets = {"b1", "b2"}
    Names = {"n1", "n2"}
    DefaultName = "n1"
    KeyIDs = {1, 2, 3, 4}
    MaxFaults = 1
    MaxEdits = 1
    MaxOutside = 1
    Nil = Nil
INVARIANTS TypeOK OneKey SecretPairs NoKeyLeft
PROPERTIES CredentialsRecover FinalizeCompletes
CHECK_DEADLOCK FALSE
