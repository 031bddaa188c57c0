\* A merge that saw its issue closed by another merge, which was then rolled back.
SPECIFICATION Spec
CONSTANTS
    merger = merger
    first = first
    second = second
    Founder = founder
    Actors <- Three
    RoleOf <- Roleless
    LinkedIssue = TRUE
    BaseCheckedOut = TRUE
    Faults = FALSE
    Crashes = FALSE
    MaxAppendRetries = 3
    MaxFinalizeRetries = 3
    Starts <- RollbackRace
    Diverged = FALSE
    EnvOps = {}
    MaxCommits = 4
    MaxIssue = 2
PROPERTY MergeClosesTheIssue
CHECK_DEADLOCK FALSE
