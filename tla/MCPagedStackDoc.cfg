\* Pages of four slots; the fourth slot of the stack lies in two pages.
CONSTANTS
    HB = 16
    MaxAddress = 63
    PageSize = 32
    Base = 16
    Methods <- TwoMethods
    Sites = {10, 35}
    Values <- OneValue
    Offsets <- SlotOffsets
SPECIFICATION Spec
CHECK_DEADLOCK FALSE
PROPERTY RetRestoresCaller
