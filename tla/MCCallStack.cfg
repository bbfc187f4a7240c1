CONSTANTS
    HB = 8
    MaxAddress = 47
    Methods <- ThreeMethods
    Sites <- TwoSites
    Values <- TwoValues
    Offsets <- SlotOffsets
    HeapTops <- HeapTop
SPECIFICATION Spec
CHECK_DEADLOCK FALSE
INVARIANTS TypeOK TraceNamesCallers FramesFillStack
PROPERTIES RetRestoresCaller ImplementsFrameStack
