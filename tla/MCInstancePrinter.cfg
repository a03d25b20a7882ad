CONSTANTS
    Obj = {1, 2, 3}
    Records <- MCRecords
    Roots = {{1}, {2, 3}}
    Limits = {0, 1, 2}
    MaxDepth = 13
SPECIFICATION FairSpec
INVARIANTS
    ReadsResolved
    FieldsOnce
    OverflowOnlyByArrays
    RunsAccounted
    PrintsWhatIsDue
PROPERTY Termination
