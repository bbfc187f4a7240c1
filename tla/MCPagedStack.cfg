\* Pages of four slots; the fourth slot of the stack lies in two pages.  A
\* program may also store over links.
CONSTANTS
    HB = 16
    MaxAddress = 63
    PageSize = 32
    Base = 16
    Methods <- TwoMethods
    Sites = {35}
    Values <- OneValue
    Offsets <- EveryOffset
SPECIFICATION Spec
CHECK_DEADLOCK FALSE
INVARIANT FramesCounted
PROPERTIES RetRestoresInPage StepsOfCallStack
