CONSTANTS
    Texts <- MCTexts
    Empty = ""
    NoHeader = NoHeader
    Normal <- MCNormal
    WellFormed <- MCWellFormed
    MaxRows = 2
    Files <- MCFiles
SPECIFICATION Spec
INVARIANTS VerdictIsRight RecordsAreTheFile ReportIsComplete
