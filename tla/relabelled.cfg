\* A candidate that is replaced by another with the same commit while a merge finalizes.
SPECIFICATION Spec
CONSTANTS
    merger = merger
    first = first
    second = second
    Founder = founder
    Actors <- Three
    RoleOf <- Roleless
    LinkedIssue = FALSE
    BaseCheckedOut = FALSE
    Faults = FALSE
    Crashes = FALSE
    MaxAppendRetries = 3
    MaxFinalizeRetries = 3
    Starts <- SameResultRace
    Diverged = FALSE
    EnvOps = {}
    MaxCommits = 0
    MaxIssue = 0
INVARIANTS LandsTheCandidate
CHECK_DEADLOCK FALSE
