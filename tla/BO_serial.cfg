SPECIFICATION Spec
CONSTANTS
    Apps = {"a1", "a2", "a3"}
    Namespaces = {"n1", "n2"}
    NamespaceOf <- Home
    Adopters = {"a2", "a3"}
    Deleters = {"a2", "a3"}
    Grants <- OneGrant
    Workers = 1
    Provider = "AWS"
    MaxFaults = 1
    MaxOutside = 1
    Nil = Nil
INVARIANTS TypeOK OneHolder SparesOthers
PROPERTIES TakenFromTheGone AdoptionScoped
CHECK_DEADLOCK FALSE
