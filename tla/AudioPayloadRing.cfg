SPECIFICATION Spec
CHECK_DEADLOCK FALSE
CONSTANTS
    Capacity = 7
    Alignment = 3
    MaxCommands = 3
    MaxCursor = 42
INVARIANTS
    RegionsDisjoint
    CursorsConsistent
PROPERTIES
    DrainedAdmits
