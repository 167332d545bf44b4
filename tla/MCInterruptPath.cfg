SPECIFICATION Spec
CONSTANTS
    Polled = {1}
    Surviving = {1}
    Scif = {4}
    Line = {5}
    LineLevel <- MCLineLevel
    AsicEvent = {1}
    MaxLevel = 2
    GuestLevels <- MCGuestLevels
    GuestSr <- MCGuestSr
INVARIANTS
    SkipIsSound
PROPERTY ImplementsDelivery
