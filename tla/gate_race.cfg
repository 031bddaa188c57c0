\* A merge of a ready PR racing reviews, checks, updates, abandons and prepares.
SPECIFICATION Spec
CONSTANTS
    merger = merger
    first = first
    second = second
    Founder = founder
    Actors <- Three
    RoleOf <- TwoRoles
    LinkedIssue = FALSE
    BaseCheckedOut = FALSE
    Faults = FALSE
    Crashes = FALSE
    MaxAppendRetries = 3
    MaxFinalizeRetries = 3
    Starts <- GateRace
    Diverged = FALSE
    EnvOps = {"push-source"}
    MaxCommits = 4
    MaxIssue = 0
INVARIANTS TypeOK MergeAuthorised LandsTheSnapshot ResultRefIsOwned ResultWasVetted SnapshotsPinned
CHECK_DEADLOCK FALSE
