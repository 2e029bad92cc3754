SPECIFICATION Spec
CONSTANTS
    Node = {"node1", "node2"}
    First = "node1"
    Settings <- MCSettings
    None = "none"
INVARIANTS
    TypeOK
    BodyHasBridge
    NoPolicyLeft
    NodesRestored
PROPERTIES
    Ends
CHECK_DEADLOCK FALSE
