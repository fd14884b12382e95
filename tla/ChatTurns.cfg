\* Two requests of one session, one of another.  One of the two calls tools and there is one
\* intervention of any kind, or nobody calls tools and there are two (MCChatTurn).
SPECIFICATION MCFairSpec
CONSTANTS
    A = A
    B = B
    r1 = r1
    r2 = r2
    r4 = r4
    Sessions = {A, B}
    Requests = {r1, r2, r4}
    SessionOf <- MCSessionOf
    Research = {r1}
    ToolUsers = {r2}
    None = None
    Tails = {0, 2}
    MaxInterventions = 1
INVARIANTS
    TurnsAreSerial
    RegisterMatchesTurns
PROPERTIES
    HistoryHolds
    CancelIsOwn
    RequestsEnd
CHECK_DEADLOCK FALSE
