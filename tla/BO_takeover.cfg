SPECIFICATION Spec
CONSTANTS
    Apps = {"a1", "a2", "a3"}
    Namespaces = {"n1", "n2"}
    NamespaceOf <- Home
    Adopters = {"a2", "a3"}
    Deleters = {"a2", "a3"}
    Grants <- OneGrant
    Workers = 2
    Provider = "AWS"
    MaxFaults = 0
    MaxOutside = 0
    Nil = Nil
PROPERTY TakenFromTheGone
CHECK_DEADLOCK FALSE
