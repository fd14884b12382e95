\* A cancellation that comes before the chat has started.
SPECIFICATION Spec
CONSTANTS
    Main = Main
    Runs = {r1}
    Urls = {u1}
    MaxParallel = 1
    MaxToolCalls = 1
    MaxFetches = 1
    MaxGapRounds = 1
PROPERTIES
    CancelSignalStays
CHECK_DEADLOCK FALSE
