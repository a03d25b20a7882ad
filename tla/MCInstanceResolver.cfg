CONSTANTS
    Obj = {1, 2, 3}
    Class <- MCClass
    Fields <- MCFields
    ElemType <- MCElemType
    IdSize = 4
    Heaps <- MCHeaps
    Targets <- MCTargets
    Garbage = {500}
    WildSets = {{}, {"O"}}
    SizeMod = 4096
    ArcChunk = 1
    Unread = Unread
SPECIFICATION FairSpec
INVARIANTS
    TypeOK
    NoReentry
    ResolvedIsLoaded
    ResolvedAreReachable
    ArcsExact
    TotalsExact
PROPERTY Termination
