SPECIFICATION FairSpec
CONSTANTS
    Names = {"n1", "n2"}
    SpecChoices <- Switched
    Page = 1
    MaxUploads = 2
    MaxEdits = 1
    MaxFaults = 1
    MaxOutside = 1
    Nil = Nil
INVARIANTS TypeOK NoRoleLost
PROPERTIES WorkloadGetsRole AccountsSettle NoOrphanAccount DeletionCompletes
CHECK_DEADLOCK FALSE
