\* Two uploads of one digest for one recording.
CONSTANTS
    Uploads = {u1, u2}
    ra = ra
    Recordings = {ra}
    RecordingOf <- OneRecording
    NoRecording = NoRecording
    Withdrawn = Withdrawn
    MaxAttempts = 2
    MaxFaults = 2
SPECIFICATION FairSpec
INVARIANTS
    TypeOK
    BytesKept
    OneWriter
PROPERTIES
    CommittedForGood
    UploadsSettle
CHECK_DEADLOCK FALSE
