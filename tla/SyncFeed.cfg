\* Two rows, two runs; what the rows are and what happens to them in MCSyncFeed.
CONSTANTS
    Rows = 2
    MaxChanges = 2
    MaxEdits = 2
    PageLimit = 2
    Runs = {r1, r2}
    MaxFaults = 1
    MaxResets = 1
    MaxOverlaps = 2
    Scenes <- TestScenes
SPECIFICATION FairSpec
INVARIANTS
    TypeOK
    NothingSkipped
    CompactedAfterReceipt
    Converges
PROPERTY
    CatchesUp
