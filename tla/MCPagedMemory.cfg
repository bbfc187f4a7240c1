CONSTANTS
    PageSize = 3
    MaxAddress = 8
    StartOfData = 1
    HB = 2
    HeapTops = {3}
    StackTops = {7, 8}
    Byte = {0, 1}
    Widths = {1, 2}
SPECIFICATION Spec
CHECK_DEADLOCK FALSE
INVARIANTS TypeOK ReadsAgree
PROPERTY CodeReadOnly
