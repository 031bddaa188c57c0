\* A review is appended to a PR that was abandoned meanwhile.
SPECIFICATION Spec
CONSTANTS
    merger = merger
    first = first
    second = second
    Founder = founder
    Actors <- Three
    RoleOf <- Roleless
    LinkedIssue = FALSE
    BaseCheckedOut = FALSE
    Faults = FALSE
    Crashes = FALSE
    MaxAppendRetries = 3
    MaxFinalizeRetries = 3
    Starts <- AbandonRace
    Diverged = FALSE
    EnvOps = {}
    MaxCommits = 0
    MaxIssue = 0
INVARIANTS AbandonedGainsNoReview
CHECK_DEADLOCK FALSE
