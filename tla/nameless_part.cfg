\* A merge or a prepare leaves what a failed worktree add made.
SPECIFICATION Spec
CONSTANTS
    p = p
    q = q
    Runs <- Two
    LastAttempt = 1
    TailBytes = 3
    Cases <- MCCases
    Strategies <- MCStrategies
    Chunks <- MCChunks
INVARIANTS PartsAreNamed
CHECK_DEADLOCK FALSE
