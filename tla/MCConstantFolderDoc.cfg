CONSTANTS
    Label <- NoLabels
    Text <- NoLabels
    TextLength <- NoTexts
    IdentifierOf <- NoTexts
    Width = 8
    Mantissa = 5
    Decimals = 2
    Programs <- RightPrograms
    Inputs <- TwoInputs
SPECIFICATION Spec
INVARIANT FoldingIsUnnoticed
