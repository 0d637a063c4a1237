\* Two concurrent runs, two events, batches of two, one fault.
CONSTANTS
    MaxEvents = 2
    Runs = {r1, r2}
    NoRun = NoRun
    BatchLimit = 2
    MaxAttempts = 2
    SafetyWindow = 0
    MaxFaults = 1
SPECIFICATION FairSpec
INVARIANTS
    TypeOK
    EndsAgree
PROPERTIES
    KeepsContract
    Drains
