\* A candidate merge adopts a tip whose review or check is unbound.
SPECIFICATION Spec
CONSTANTS
    merger = merger
    first = first
    second = second
    Founder = founder
    Actors <- Three
    RoleOf <- Roleless
    LinkedIssue = FALSE
    BaseCheckedOut = FALSE
    Faults = FALSE
    Crashes = FALSE
    MaxAppendRetries = 3
    MaxFinalizeRetries = 3
    Starts <- UnboundRace
    Diverged = FALSE
    EnvOps = {}
    MaxCommits = 0
    MaxIssue = 0
INVARIANTS BoundAtLanding
CHECK_DEADLOCK FALSE
