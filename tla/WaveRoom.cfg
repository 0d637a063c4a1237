\* Two devices; one absence, lost answer, missing source or silent stop; two
\* commands; a member's snapshots overtake each other.
CONSTANTS
    Devices = {d1, d2}
    Creator = d1
    Guests = {}
    MaxParticipants = 8
    Queued = 2
    MaxEntries = 2
    MaxCommands = 4
    Asked = {"SKIP", "START"}
    MaxFlight <- TwoOfMembers
    MaxFaults = 1
SPECIFICATION FairSpec
INVARIANT
    TypeOK
PROPERTIES
    HostReplaced
    PhonesConverge
CHECK_DEADLOCK FALSE
