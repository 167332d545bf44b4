SPECIFICATION Spec
CHECK_DEADLOCK FALSE
CONSTANTS
    Thread = {"guest", "audio"}
    Callers <- TwoThreads
    ShutdownCallers = {}
    MaxCommands = 1
    AckSlot = {"a"}
    MaxSequence = 1
    Result = {"Completed", "Cancelled", "Failed"}
    ClientErrors = TRUE
INVARIANTS
    NoneLeftReady
