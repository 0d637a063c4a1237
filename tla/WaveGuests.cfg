\* Two devices and a guest, two of them at a time, a member's
\* snapshots overtake each other, two commands.
CONSTANTS
    Devices = {d1, d2}
    Creator = d1
    Guests = {g}
    MaxParticipants = 2
    Queued = 1
    MaxEntries = 2
    MaxCommands = 3
    Asked = {"QUEUE", "PAUSE", "SKIP", "START",
             "TRANSFER", "LEAVE", "CLOSE"}
    MaxFlight <- TwoOfMembers
    MaxFaults = 0
SPECIFICATION Spec
INVARIANT
    PlaybackAgrees
PROPERTIES
    StartIsUnanimous
    HostActsOnWhatItSaw
CHECK_DEADLOCK FALSE
