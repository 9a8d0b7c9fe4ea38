SPECIFICATION Spec
CONSTANTS
    PageSize = 4
    MaxPages = 4
    Alignment = 2
    HeapBase = 2
    MaxLive = 2
CONSTRAINT FewLive
INVARIANTS
    TypeOK
    CursorInHeap
    BlocksApart
    TooLargeOnlyPastTheEnd
PROPERTIES
    NeverBackwards
    GrowsOnlyAsNeeded
    ImplementsHeap
