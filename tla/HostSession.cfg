CONSTANTS
    MaxCycle = 5
    MaxEventId = 6
    MaxObserverId = 1
    MaxGeneration = 1
    MaxEventBudget = 2
    MaxPrepared = 0
    MaxRestores = 0
    BudgetFromCallback = FALSE
    CyclesPerSecond = 5
    FrameRate = 3
    SampleRate = 4
    FramesPerBuffer = 2
    LoopQuantum = 2
    EventBudget = 2
    ConsumeSizes = {3}
    GuestBudgets = {4}
    MaxForeign = 1
SPECIFICATION SessionSpec
INVARIANTS
    NeverHalfActive
    TicksOnTime
    SessionAgrees
    CyclesAccounted
PROPERTIES
    ForeignEventsKept
    ConsumeLoopEnds
