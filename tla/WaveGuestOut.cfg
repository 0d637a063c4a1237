\* A violation: a queue edit throws a guest out.
CONSTANTS
    Devices = {d1}
    Creator = d1
    Guests = {g}
    MaxParticipants = 8
    Queued = 1
    MaxEntries = 2
    MaxCommands = 3
    Asked = {"QUEUE", "PAUSE", "SKIP", "START",
             "TRANSFER", "LEAVE", "CLOSE"}
    MaxFlight <- OneEach
    MaxFaults = 0
SPECIFICATION Spec
PROPERTY
    GuestOutOnlyWhenEnded
CHECK_DEADLOCK FALSE
