\* Async mode for good: one reconciler, one document, crashes, edits, rebuilds; and the
\* other parts, bounded where they are instantiated.
SPECIFICATION ServicesSpec
CONSTANTS
    NumDocs = 1
    Workers = {w1}
    Callers = {}
    Free = Free
    InitMode = "async"
    MaxVersion = 3
    MaxSettings = 3
    MaxSwitches = 0
    MaxCrashes = 2
    None = None
    Mask = Mask
    Chunk1 = Chunk1
    Chunk2 = Chunk2
    Chunk3 = Chunk3
INVARIANTS
    ActiveIsFresh
    ServedIsFresh
PROPERTIES
    NothingIsTakenBack
    RequestsEnd
CHECK_DEADLOCK FALSE
