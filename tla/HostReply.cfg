\* A reply that is late is given to the next caller.
SPECIFICATION Spec
CONSTANTS
    Callers = {c1, c2}
    Patient = {}
    Stopper = Stopper
    Values = {v1}
    PipeRoom = 2
    MaxProcesses = 1
    MaxCommands = 2
INVARIANT ReplyIsOwn
CHECK_DEADLOCK FALSE
