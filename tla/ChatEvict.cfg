\* A long turn of one session while a turn of another starts.
SPECIFICATION MCSpec
CONSTANTS
    A = A
    B = B
    r1 = r1
    r2 = r2
    r4 = r4
    Sessions = {A, B}
    Requests = {r1, r4}
    SessionOf <- MCSessionOf
    Research = {}
    ToolUsers = {}
    None = None
    Tails = {0, 2}
    MaxInterventions = 2
PROPERTY EvictedIsIdle
CHECK_DEADLOCK FALSE
