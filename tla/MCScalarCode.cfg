SPECIFICATION Spec
CONSTANTS
    Types <- MCTypes
    Width <- MCWidth
    VarTypes <- MCVarTypes
    Sizes = {1, 3}
    MaxOperands = 2
VIEW Relevant
INVARIANTS
    TypeOK
    OperandsCanonical
PROPERTIES
    ImplementsEval
