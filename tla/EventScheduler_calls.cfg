SPECIFICATION FairSpec
CONSTANTS
    MaxCycle = 2
    MaxEventId = 3
    MaxObserverId = 2
    MaxGeneration = 1
    MaxEventBudget = 2
    MaxPrepared = 1
    MaxRestores = 1
    BudgetFromCallback = FALSE
INVARIANTS IndexesAgree BudgetRespected
PROPERTIES FiredInOrder ClockMonotone IdsNeverReturn AdvanceReturns
