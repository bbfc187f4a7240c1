\* The operands of dup, rotD and rotU are cut to a byte: here, to three bits.
CONSTANTS
    Width = 2
    Capacity = 4
    ByteSize = 8
    Pushed <- EveryNumber
    Words <- StrayWords
    Operations <- Everything
    DupDepths = {1, 4, 8, 10}
    RotDepths = {4, 8, 11}
    ErrorContext = "LANGUAGE"
SPECIFICATION Spec
CONSTRAINT Explored
CHECK_DEADLOCK FALSE
INVARIANT TypeOK
PROPERTIES StrayBitsEnter StepsOfValueStack MovesPermute
