SPECIFICATION Spec
CONSTANTS
    Client = {c1, c2}
    Worker = worker
    Shutdown = shutdown
    Nobody = nobody
    Dest = {d1, d2, d3}
    MaxDestinations = 2
    RestoreEvery = 2
    MaxAbandoned = 0
SYMMETRY Symmetry
INVARIANTS
    TypeOK
    ActiveIsEnabledRows
    TableSound
PROPERTIES
    OnlyStartEnables
    ImplementsContract
