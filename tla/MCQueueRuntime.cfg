CONSTANTS
    Aliases = {a, r}
    ObserverAliases = {r}
    EventAliases = {a}
    Callers = {c1, c2}
    MaxCalls = 3
    NoTask = NoTask
SPECIFICATION RuntimeFairSpec
INVARIANTS
    NoStrayTask
PROPERTIES
    RestartIsNotLost
    ShutdownOfLoopReturns
CHECK_DEADLOCK FALSE
