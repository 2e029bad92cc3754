SPECIFICATION Spec
CONSTANTS
    Definition <- MCDefinition
    Kind <- MCKind
    KindOf <- MCKindOf
    Cluster <- MCCluster
    VersionOf <- MCVersionOf
    Served <- MCServed
    Listed <- MCListed
    Settings <- MCSettings
    Torn = Torn
    None = None
INVARIANTS
    TypeOK
    Complete
    Current
    OneCluster
    
PROPERTIES
    NoKindLost
CHECK_DEADLOCK FALSE
