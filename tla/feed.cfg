SPECIFICATION LiveSpec
CONSTANTS
    Capacity = 2
    LogLimit = 2
    MaxWire = 1
    MaxPublished = 2
    MaxInserted = 2
INVARIANTS
    TypeOK
    QuietIsCurrent
    EntriesKept
PROPERTIES
    CatchesUp
