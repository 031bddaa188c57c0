\* Two merges, two base worktrees and a source worktree, with people at work in all of them.
SPECIFICATION Spec
CONSTANTS
    m1 = m1
    m2 = m2
    Merges <- Two
    Trees = {w1, w2}
    Plans <- TwoMerges
    User = user
    MaxUser = 3
    Faults = TRUE
    Crashes = TRUE
INVARIANTS WorktreeTypeOK TreesFollowTheBase WorkSeenIsKept OutcomesAreTrue
CHECK_DEADLOCK FALSE
