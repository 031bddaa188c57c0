\* Merges by every strategy while the base and the linked issue are written by others.
SPECIFICATION Spec
CONSTANTS
    merger = merger
    first = first
    second = second
    Founder = founder
    Actors <- Three
    RoleOf <- Roleless
    LinkedIssue = TRUE
    BaseCheckedOut = FALSE
    Faults = TRUE
    Crashes = FALSE
    MaxAppendRetries = 2
    MaxFinalizeRetries = 3
    Starts <- FaultRace
    Diverged = TRUE
    EnvOps = {"push-base", "rewind-base", "push-source", "issue.close", "issue.comment"}
    MaxCommits = 5
    MaxIssue = 2
INVARIANTS ReportsAreTrue
PROPERTIES MergeKeepsTheBase MergeClosesTheIssue
CHECK_DEADLOCK FALSE
