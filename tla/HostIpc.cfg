\* Two coroutines that sync or send a setting raw, and a bounce; a host that crashes, hangs,
\* restarts and is stopped.
SPECIFICATION FairSpec
CONSTANTS
    Callers = {c1, c2, c3}
    Patient = {c3}
    Stopper = Stopper
    Values = {v1, v2}
    PipeRoom = 2
    MaxProcesses = 2
    MaxCommands = 4
INVARIANTS
    LagWithinGivenUp
    CacheTruthful
    NoOrphan
PROPERTIES
    CallersComeBack
\* The bounds on commands and processes end every behaviour.
CHECK_DEADLOCK FALSE
