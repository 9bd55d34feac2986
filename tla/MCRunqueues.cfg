CONSTANTS
    Handled = {a, b, c}
    MaxInterrupts = 2
    MaxSwallowed = 1
SPECIFICATION CommandFairSpec
INVARIANTS
    CleanSupervision
PROPERTIES
    CommandEnds
CHECK_DEADLOCK FALSE
