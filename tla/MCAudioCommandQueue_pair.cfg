SPECIFICATION Spec
CHECK_DEADLOCK FALSE
CONSTANTS
    Thread = {"guest", "audio"}
    Callers <- TwoThreads
    ShutdownCallers = {"guest", "audio"}
    MaxCommands = 2
    AckSlot = {"a"}
    MaxSequence = 2
    Result = {"Completed", "Cancelled", "Failed"}
    ClientErrors = TRUE
INVARIANTS
    SlotOwnership
    AckAnswersItsCommand
PROPERTIES
    ImplementsChannel
