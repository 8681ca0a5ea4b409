SPECIFICATION FairSpec
CONSTANTS
    Nodes = {a, b}
    Lists <- MCLists
    MaxLen = 3
    MaxFaults = 1
INVARIANTS
    TypeOK
    TipHolders
    AnsweredHaveIt
PROPERTIES
    AllCatchUp
CHECK_DEADLOCK FALSE
