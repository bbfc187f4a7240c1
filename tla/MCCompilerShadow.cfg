CONSTANTS
    Label <- NoLabels
    Text <- NoLabels
    TextLength <- NoTexts
    IdentifierOf <- NoTexts
    Unset <- NoAssignment
    MaxFrames = 4
    Programs <- Shadowing
SPECIFICATION Spec
INVARIANT ReadsAgree
