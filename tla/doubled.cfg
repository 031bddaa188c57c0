\* An event that git appended and reported as failed is appended again.
SPECIFICATION Spec
CONSTANTS
    merger = merger
    first = first
    second = second
    Founder = founder
    Actors <- Three
    RoleOf <- Roleless
    LinkedIssue = FALSE
    BaseCheckedOut = FALSE
    Faults = TRUE
    Crashes = FALSE
    MaxAppendRetries = 2
    MaxFinalizeRetries = 3
    Starts <- RetryRace
    Diverged = TRUE
    EnvOps = {}
    MaxCommits = 5
    MaxIssue = 2
INVARIANTS EventsAreRecordedOnce
CHECK_DEADLOCK FALSE
