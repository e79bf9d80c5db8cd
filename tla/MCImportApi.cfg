CONSTANTS
    Requests = {r1, r2, r3}
    CliRuns = {}
    Keys = {k1, k2}
    Files = {fA, fB, fC, fBad}
    ValidFiles = {fA, fB, fC}
    Emails = {ann, bob}
    fA = fA
    fB = fB
    fC = fC
    fD = fD
    fBad = fBad
    ann = ann
    bob = bob
    v1 = v1
    v2 = v2
    NoKey = NoKey
    NoFile = NoFile
    NoCustomer = NoCustomer
    MaxAttempts = 3
    Rows <- MCRows
SPECIFICATION Spec
INVARIANTS TypeOK OneOwner AcceptedIsDurable AllOrNothing CountsAreTrue RepliesAgree
SYMMETRY Symmetry
