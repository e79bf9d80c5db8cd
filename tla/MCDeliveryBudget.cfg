CONSTANTS
    Events = {e1}
    Workers = {w1}
    NoEvent = NoEvent
    MaxAttempts = 2
    SimulatedFailures = 0
    PartnerProcesses = 1
    MaxFaults = 1
SPECIFICATION Spec
INVARIANT NoAttemptBeyondBudget
