\* One device, two concurrent callers, both kinds of session.
CONSTANTS
    Callers = {c1, c2}
    NoCaller = NoCaller
    MaxRotations = 3
    MaxFaults = 2
SPECIFICATION FairSpec
INVARIANTS
    TypeOK
    PhoneCanContinue
PROPERTIES
    RotationKeepsGrant
    EndedStaysEnded
    StaysConnected
CHECK_DEADLOCK FALSE
