CONSTANTS
    v1 = v1
    Images <- MCImages
    Head <- MCHead
    Calls = {c1, c2}
    NoFile = NoFile
    Unreadable = Unreadable
    MaxWrites = 1
SPECIFICATION MCSpec
INVARIANT FreshBackupVerifies
