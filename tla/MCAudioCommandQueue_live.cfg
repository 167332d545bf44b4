SPECIFICATION FairSpec
CHECK_DEADLOCK FALSE
CONSTANTS
    Thread = {"guest", "audio"}
    Callers <- TwoThreads
    ShutdownCallers = {"guest", "audio"}
    MaxCommands = 1
    AckSlot = {"a"}
    MaxSequence = 2
    Result = {"Completed", "Cancelled"}
    ClientErrors = FALSE
PROPERTIES
    AckArrives
    ProducerReturns
    DrainEnds
