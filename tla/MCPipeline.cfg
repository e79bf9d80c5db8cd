CONSTANTS
    Requests = {r1, r2}
    CliRuns = {}
    Keys = {k1}
    Files = {fA, fBad}
    ValidFiles = {fA}
    Emails = {ann}
    fA = fA
    fBad = fBad
    ann = ann
    v1 = v1
    NoKey = NoKey
    NoFile = NoFile
    NoCustomer = NoCustomer
    MaxAttempts = 3
    Rows <- MCRows
SPECIFICATION PipelineFairSpec
INVARIANTS PartnerIsToldTheTruth SnapshotAddsUp
PROPERTIES SnapshotsAscend NothingIsAbandonedUnseen
