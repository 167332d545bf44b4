SPECIFICATION Spec
CONSTANTS
    Thread = {"guest", "render"}
    Callers <- BothModes
    ShutdownCallers = {"guest"}
    SnapshotCallers = {"render"}
    Depth = 2
    MaxFrames = 3
    ClientErrors = TRUE
INVARIANTS
    ArenaOwnership
    NoFalseAlarm
    SleeperIsStopped
    SnapshotCoherent
PROPERTIES
    ImplementsChannel
