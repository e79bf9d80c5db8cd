CONSTANTS
    Requests = {r1, r2}
    CliRuns = {c1}
    Keys = {k1}
    Files = {fA, fC, fD, fBad}
    ValidFiles = {fA, fC, fD}
    Emails = {ann, bob}
    fA = fA
    fB = fB
    fC = fC
    fD = fD
    fBad = fBad
    ann = ann
    bob = bob
    v1 = v1
    v2 = v2
    NoKey = NoKey
    NoFile = NoFile
    NoCustomer = NoCustomer
    MaxAttempts = 2
    Rows <- MCRows
SPECIFICATION FairSpec
PROPERTIES ImplementsLedger EveryRequestEnds
