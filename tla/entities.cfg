\* Keyed and unkeyed creation, plans and single commands, with faults and kills.
SPECIFICATION Spec
CONSTANTS
    x = x
    y = y
    z = z
    NoKey = NoKey
    Actors <- Three
    Keys <- PlanKeys
    MaxCounter = 5
    MaxAllocRetries = 2
    MaxAppendRetries = 2
    Faults = TRUE
    Crashes = TRUE
    BranchesGo = TRUE
    Plans <- Everything
    Beginnings <- Either
INVARIANTS EntityTypeOK AllocationSound OneEffectPerKey AnswersAreTrue GraphSound PlanKeysUnique
PROPERTIES KeysKeepTheirPromise AppliedPlanHolds
CHECK_DEADLOCK FALSE
