SPECIFICATION Spec
CONSTANTS
    Meta = meta
    Spec1 = spec
    F = f
    G = g
    A = a
    B = b
    None = none
    Key <- MCKey
    Field <- MCField
    Atom <- MCAtom
    N = 1
    InitDocs <- MCInitDocs
    Patches <- MCPatches
    Settings <- OnlyReplace
    WithNamespace = {}
    MaxAttempts = 2
INVARIANTS
    RestoredOnExit
CHECK_DEADLOCK FALSE
