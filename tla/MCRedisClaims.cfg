CONSTANTS
    Entries = {1, 2, 3}
    Workers = {w1, w2}
    Stack = FALSE
    Leases = {1, 2}
    Delays = {0, 1}
    Batch = 2
    MaxTime = 2
    NoEntry = NoEntry
SPECIFICATION Spec
SYMMETRY WorkerSymmetry
INVARIANTS
    NoEntryStranded
PROPERTIES
    AlwaysLeaseHonoured
    LifecycleSpec
CHECK_DEADLOCK FALSE
