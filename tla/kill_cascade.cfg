CONSTANTS
    Ids = {a, b, c}
    Lists <- ShortLists
SPECIFICATION FairSpec
INVARIANTS TypeOK KillsDescendants
PROPERTY LoopEnds
