CONSTANTS
    Entries = {1, 2}
    Workers = {w1}
    Clients = {c1}
    Outcomes = {"succeeded"}
    Kinds = {"queue", "priority"}
    Priority <- Ranks
    Delays = {0, 1}
    ByHand = {2}
    MaxCancels = 2
    MaxTime = 2
    NoEntry = NoEntry
SPECIFICATION FairSpec
INVARIANTS
    InOnePlace
PROPERTIES
    LifecycleSpec
    EveryEntryServed
    EveryOutcomeIsPublished
CHECK_DEADLOCK FALSE
