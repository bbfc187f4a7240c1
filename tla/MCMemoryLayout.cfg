CONSTANTS
    HB = 7
    MaxAddress = 35
    HeaderSize = 4
    Sizes = {0, 1, 35}
    Bytes = {1}
    Methods <- TwoMethods
    Sites = {10}
    Values <- OneValue
    Offsets <- SlotOffsets
SPECIFICATION Spec
CHECK_DEADLOCK FALSE
INVARIANT RegionsApart
PROPERTIES BlocksUndisturbed FramesUndisturbed
