\* The base is checked out: merges are rolled back when the refresh fails.
SPECIFICATION FairSpec
CONSTANTS
    merger = merger
    first = first
    second = second
    Founder = founder
    Actors <- Three
    RoleOf <- Roleless
    LinkedIssue = TRUE
    BaseCheckedOut = TRUE
    Faults = TRUE
    Crashes = TRUE
    MaxAppendRetries = 2
    MaxFinalizeRetries = 3
    Starts <- RollbackRace
    Diverged = FALSE
    EnvOps = {"push-base", "issue.comment"}
    MaxCommits = 4
    MaxIssue = 2
INVARIANTS NeverSplit ClosedOnlyByMerge
PROPERTIES LeftoversAreNotTaken EveryInvocationEnds
CHECK_DEADLOCK FALSE
