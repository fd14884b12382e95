\* Every part of the runtime on its own; the bounds or the end of a turn stop them.
SPECIFICATION RuntimeSpec
CONSTANTS
    None = None
    \* Two jobs over a queue of one place, and a sub-agent.
    Jobs = {j1, j2}
    Threads = {t1}
    NoJob = NoJob
    MaxQueue = 1
    MaxSegments = 2
    MaxExtractions = 2
    Requests = {r1, r2, r3}
    NoEvent = NoEvent
    Tools = {k1, k2}
    Handshake = Handshake
    Lead = Lead
    Bus1 = Bus1
    \* One of two turns is a research turn; one round may have two calls.
    Turns = {m1, m2}
    Research = {m1}
    MaxRounds = 1
    MaxCalls = 2
    SummarizeAbove = 5
    KeepRecent = 3
    KeepLast = 2
    \* Two threads record, a replay brings no more than two of four events.
    Writers = {w1, w2}
    MaxEvents = 4
    ReplayLimit = 2
    MaxDrops = 2
    \* One call of a research session, tried twice, with the places its jobs leave behind.
    Calls = {c1}
    DeepCalls = {c1}
    Resolvers = {w1}
    MaxPending = 1
    MaxAttempts = 2
    Nil = Nil
INVARIANTS
    TypesHold
    CallsAndResultsPair
    BindingIsOwn
    OnlyMissedAreSkipped
    AbortMissesNobody
    StudioIsCurrent
PROPERTIES
    EndedTurnsAreClosed
    TasksAreAnswered
    ShutdownIsOrderly
    WorkEnds
CHECK_DEADLOCK FALSE
