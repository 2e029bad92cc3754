SPECIFICATION Spec
CONSTANTS
    Meta = meta
    Spec1 = spec
    F = f
    G = g
    A = a
    B = b
    None = none
    Key <- MCKey
    Field <- MCField
    Atom <- MCAtom
    N = 2
    InitDocs <- MCInitDocs3
    Patches <- MCPatches
    Settings <- MCSettings
    WithNamespace = {}
    MaxAttempts = 2
INVARIANTS
    TypeOK
    Recoverable
    EditsApplied
    RestoredOnExit
PROPERTIES
    CallsEnd
    IsTemporaryEdit
CHECK_DEADLOCK FALSE
