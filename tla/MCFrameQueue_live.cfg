SPECIFICATION FairSpec
CONSTANTS
    Thread = {"guest", "render"}
    Callers <- Parallel
    ShutdownCallers = {"guest"}
    SnapshotCallers = {}
    Depth = 2
    MaxFrames = 2
    ClientErrors = FALSE
PROPERTIES
    DrainEnds
    FramesDelivered
    ProducerWoken
