CONSTANTS
    Obj = {1, 2, 3}
    Class <- MCClass
    Fields <- MCFields
    ElemType <- MCElemType
    IdSize = 4
    Heaps <- SmallHeaps
    Targets <- MCTargets
    Garbage = {500}
    WildSets = {{}}
    SizeMod = 4096
    ArcChunk = 1
    Unread = Unread
SPECIFICATION Spec
INVARIANT TotalsFromHeap
