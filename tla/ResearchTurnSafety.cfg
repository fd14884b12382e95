\* Three sub-agents over at most two slots, budgets that run out.
SPECIFICATION Spec
CONSTANTS
    Main = Main
    Runs = {r1, r2, r3}
    Urls = {u1, u2}
    MaxParallel = 2
    MaxToolCalls = 2
    MaxFetches = 1
    MaxGapRounds = 1
INVARIANTS
    WithinLimits
    SlotsCoverThreads
    BranchesAgree
PROPERTIES
    PhasesFollowTransitions
    StoppedStays
SYMMETRY Symmetry
CHECK_DEADLOCK FALSE
