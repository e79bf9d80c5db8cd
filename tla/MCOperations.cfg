CONSTANTS
    v1 = v1
    v2 = v2
    v3 = v3
    Images <- MCImages
    Head <- MCHead
    NoImage = NoImage
    Calls = {c1, c2}
    NoFile = NoFile
    Unreadable = Unreadable
    MaxWrites = 1
SPECIFICATION OperationsSpec
INVARIANTS ApprovedOnly ForwardOnly RollbackCanSucceed VerifiedIsTrue QuietBackupVerifies NoStrayDatabase VerifiedCanUpgrade
CONSTRAINT Bound
SYMMETRY Symmetry
