CONSTANTS
    Events = {e1}
    Workers = {w1, w2}
    NoEvent = NoEvent
    MaxAttempts = 2
    SimulatedFailures = 1
    PartnerProcesses = 2
    MaxFaults = 2
SPECIFICATION FairSpec
INVARIANTS TypeOK OneEffect OneHolder DeadLetterJustified OverrunIsPaid
PROPERTIES ImplementsAtLeastOnce EventSettles
