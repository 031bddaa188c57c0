\* A rollback races an append: reported events do not survive.
SPECIFICATION Spec
CONSTANTS
    merger = merger
    first = first
    second = second
    Founder = founder
    Actors <- Three
    RoleOf <- Roleless
    LinkedIssue = FALSE
    BaseCheckedOut = TRUE
    Faults = FALSE
    Crashes = FALSE
    MaxAppendRetries = 3
    MaxFinalizeRetries = 3
    Starts <- RollbackRace
    Diverged = FALSE
    EnvOps = {}
    MaxCommits = 0
    MaxIssue = 0
INVARIANTS ReportsAreTrue
CHECK_DEADLOCK FALSE
