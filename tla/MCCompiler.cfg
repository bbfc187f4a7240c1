CONSTANTS
    Label <- NoLabels
    Text <- NoLabels
    TextLength <- NoTexts
    IdentifierOf <- NoTexts
    Unset <- NoAssignment
    MaxFrames = 4
    Programs <- AllPrograms
SPECIFICATION Spec
INVARIANTS TypeOK FollowsSource OperandsAgree ReadsAgree TypesAgree StacksBalanced
