SPECIFICATION Spec
CONSTANTS
    Word <- MCWord
    Ints <- MCInts
    ItoaStart = 4
    ItoaEnd = 8
    Strings <- MCStrings
INVARIANTS
    TypeOK
    BufferSafe
    NothingLostOrRepeated
PROPERTIES
    ImplementsOutput
    PrintsEnd
