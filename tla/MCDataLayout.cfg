SPECIFICATION DataSpec
CONSTANTS
    Literals <- MCLiterals
    Types <- MCTypes
    Ints <- MCInts
    ByteValues = 16
    ScratchEnd = 6
    StringBase = 7
    Alignment = 4
    StackSize = 8
    PageSize = 16
    MaxGlobals = 2
    MaxSlots = 2
INVARIANTS
    DataTypeOK
    RegionsApart
    DataInPlace
    SlotsApart
