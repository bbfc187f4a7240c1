CONSTANTS
    HB = 2
    MaxAddress = 12
    HeaderSize = 1
    Sizes = {0, 1, 2, 12}
    Values = {1}
    StackTops = {8, 12}
SPECIFICATION Spec
CHECK_DEADLOCK FALSE
INVARIANTS TypeOK FreeListSorted NothingShared NothingLost HeadersIntact HeapBelowStack
PROPERTIES ImplementsAllocator RefusedOnlyWhenFull
