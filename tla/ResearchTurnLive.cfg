\* Two sub-agents one after the other, fair threads.
SPECIFICATION FairSpec
CONSTANTS
    Main = Main
    Runs = {r1, r2}
    Urls = {u1}
    MaxParallel = 1
    MaxToolCalls = 1
    MaxFetches = 1
    MaxGapRounds = 1
PROPERTIES
    EverythingEnds
CHECK_DEADLOCK FALSE
