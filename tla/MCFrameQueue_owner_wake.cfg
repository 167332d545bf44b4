SPECIFICATION Spec
CONSTANTS
    Thread = {"guest", "render", "owner"}
    Callers <- Parallel
    ShutdownCallers = {"owner"}
    SnapshotCallers = {}
    Depth = 2
    MaxFrames = 2
    ClientErrors = FALSE
INVARIANTS
    SleeperIsStopped
