SPECIFICATION LiveSpec
CONSTANTS
    Client = {c1}
    Worker = worker
    Shutdown = shutdown
    Nobody = nobody
    Dest = {d1, d2}
    MaxDestinations = 2
    RestoreEvery = 2
    MaxAbandoned = 0
PROPERTIES
    RequestsAnswered
    FeedRestored
