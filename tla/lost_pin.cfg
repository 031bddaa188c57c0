\* A merge of a candidate that fails to finalize removes the candidate's pin.
SPECIFICATION Spec
CONSTANTS
    merger = merger
    first = first
    second = second
    Founder = founder
    Actors <- Three
    RoleOf <- Roleless
    LinkedIssue = FALSE
    BaseCheckedOut = FALSE
    Faults = FALSE
    Crashes = FALSE
    MaxAppendRetries = 3
    MaxFinalizeRetries = 3
    Starts <- CandidateRace
    Diverged = FALSE
    EnvOps = {}
    MaxCommits = 0
    MaxIssue = 0
INVARIANTS CandidateIsPinned
CHECK_DEADLOCK FALSE
