CONSTANTS
    Requests = {r1}
    CliRuns = {}
    Keys = {k1}
    Files = {fA}
    ValidFiles = {fA}
    Emails = {ann, bob}
    fA = fA
    fB = fB
    fC = fC
    fD = fD
    fBad = fBad
    ann = ann
    bob = bob
    v1 = v1
    v2 = v2
    NoKey = NoKey
    NoFile = NoFile
    NoCustomer = NoCustomer
    MaxAttempts = 1
    Rows <- MCRows
SPECIFICATION Spec
INVARIANT NoForgottenEvent
