SPECIFICATION FairSpec
CONSTANTS
    Apps = {"a1", "a2"}
    Namespaces = {"n1", "n2"}
    NamespaceOf <- Home
    Adopters = {"a2"}
    Deleters = {"a1"}
    Grants <- OneGrant
    Workers = 2
    Provider = "Akamai"
    MaxFaults = 1
    MaxOutside = 1
    Nil = Nil
PROPERTIES RestoredReclaims DisputesEnd
CHECK_DEADLOCK FALSE
