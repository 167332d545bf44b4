SPECIFICATION Spec
CHECK_DEADLOCK FALSE
CONSTANTS
    Payload = {"erased", "one", "two"}
    Source = "erased"
    MaxTemporaries = 2
    MaxFaults = 2
    MaxErrors = 2
INVARIANTS
    LastSaveSurvives
    CleanMeansSaved
PROPERTIES
    NoSilentReset
