SPECIFICATION LiveSpec
CONSTANTS
    MaxStarts = 2
    MaxSessions = 2
    MaxAttempts = 1
INVARIANTS
    StoppedIsQuiet
    LabelTellsState
PROPERTIES
    ImplementsContract
    Reconnects
    RevokedLeaves
