\* Two dialogues with git, with other writers, faults and kills.
SPECIFICATION FairSpec
CONSTANTS
    p = p
    q = q
    Callers <- Two
    Refs = {"head", "key"}
    Forms = {"absent", "dangling", "one", "two"}
    Cases <- Races
    PipeSize = 1
    HookOutput = 2
    MaxMishaps = 1
INVARIANTS TransactionTypeOK LocksAreReturned
PROPERTIES ImplementsAtomic EveryCallReturns
CHECK_DEADLOCK FALSE
