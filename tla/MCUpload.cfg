SPECIFICATION FairSpec
CONSTANTS
    h1 = h1
    h2 = h2
    Length = 3
    ChunkSize = 2
    MaxAttempts = 4
    Slots = {h1, h2}
    NoSlot = NoSlot
    Faults = {"net", "silence", "damage", "crash", "disk", "xdev",
              "mkdir", "resolve", "discard"}
INVARIANTS
    PartIsPrefix
    TargetIsSource
    OkMeansStored
PROPERTY ClientEnds
CHECK_DEADLOCK FALSE
