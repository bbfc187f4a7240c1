CONSTANTS
    Label <- AllLabels
    Text <- Names
    TextLength <- Length
    IdentifierOf <- NameOf
    Programs <- CompiledPrograms
    HandWritten <- Texts
    Path <- SourcePath
    MaxFrames = 2
    ExitStatuses <- TwoStatuses
SPECIFICATION Spec
INVARIANTS
    TypeOK LabelsNameTheirBytes TablesBlameTheirStatements LoaderReadsEntries
    FetchesInstructions ReportBlamesFailingSource
PROPERTY CompiledProgramsRun
