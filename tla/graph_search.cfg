\* Every graph of three issues whose links may also name an id that no issue has.
SPECIFICATION Spec
CONSTANTS
    Nodes = {1, 2, 3}
    Ghosts = {4}
    MaxRoots = 2
INVARIANTS SearchTypeOK SearchIsRight
PROPERTY SearchEnds
CHECK_DEADLOCK FALSE
