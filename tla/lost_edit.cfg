\* A rollback resets a worktree that was edited after its refresh.
SPECIFICATION Spec
CONSTANTS
    m1 = m1
    m2 = m2
    Merges <- Two
    Trees = {w1, w2}
    Plans <- TwoMerges
    User = user
    MaxUser = 2
    Faults = FALSE
    Crashes = FALSE
INVARIANTS EditsAreKept
CHECK_DEADLOCK FALSE
