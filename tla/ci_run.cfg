\* CI runs with faults and kills, races for one name, and every output.
SPECIFICATION FairSpec
CONSTANTS
    p = p
    q = q
    Runs <- Two
    LastAttempt = 1
    TailBytes = 3
    Cases <- MCCases
    Strategies <- MCStrategies
    Chunks <- MCChunks
INVARIANTS BuildTypeOK GreenIsEarned ReasonsAreTrue TailIsRight WorktreesAreOwn NothingIsLeftUnsaid
PROPERTIES EveryRunEnds GroupIsContained
CHECK_DEADLOCK FALSE
