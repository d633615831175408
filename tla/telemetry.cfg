SPECIFICATION LiveSpec
CONSTANTS
    MaxPublishers = 2
    MaxBytes = 1
    MaxRows = 3
INVARIANTS
    LiveRowIsSession
    RateOfOnePublisher
    LogTellsState
PROPERTIES
    ClosedStaysClosed
    RowsFollowPublisher
