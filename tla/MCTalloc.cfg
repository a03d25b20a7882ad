CONSTANTS
    Memories = {{1, 2, 3, 4}, {1, 2, 3, 4, 5}}
    Full = 4
    Destructors = {"fail", "up"}
    MaxDestructors = 1
SPECIFICATION FairSpec
INVARIANTS
    HeapConsistent
PROPERTIES
    LoopOnlyInRing
    FreedOnlyPastReference
    SubtreeFreed
    SurvivorsOwned
    FreeReturns
CHECK_DEADLOCK FALSE
