SPECIFICATION Spec
CONSTANTS
    DeclOrder <- MCDeclOrder
    Bodies <- MCBodies
    BuiltinSize <- MCBuiltinSize
    PointerSize = 4
    MaxArray = 24
INVARIANTS
    TypeOK
    RecursionBounded
    LayoutsFinal
    CyclesRejected
PROPERTY
    Termination
