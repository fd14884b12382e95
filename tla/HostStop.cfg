\* A bounce waits for a host that does not answer; stop() queues behind it.
SPECIFICATION FairSpec
CONSTANTS
    Callers = {c1}
    Patient = {c1}
    Stopper = Stopper
    Values = {v1}
    PipeRoom = 2
    MaxProcesses = 1
    MaxCommands = 2
PROPERTY StopReturns
CHECK_DEADLOCK FALSE
