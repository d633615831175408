SPECIFICATION Spec
CONSTANTS
    MaxPublishers = 2
    MaxBytes = 1
    MaxRows = 2
INVARIANTS
    LogShowsPublisher
