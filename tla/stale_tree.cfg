\* Three base worktrees: the rollback of one merge meets the undo of another.
SPECIFICATION Spec
CONSTANTS
    m1 = m1
    m2 = m2
    Merges <- Two
    Trees = {w1, w2, w3}
    Plans <- TwoMerges
    User = user
    MaxUser = 2
    Faults = FALSE
    Crashes = FALSE
INVARIANTS NoTreeIsLeftBehind
CHECK_DEADLOCK FALSE
