SPECIFICATION Spec

CONSTANTS
    Class <- Four
    Width <- SmallWidth
    Dumps <- SmallDumps
    Files <- SmallFiles
    Garbage <- SmallGarbage

INVARIANTS
    WithinMemory
    LayoutCorrect
    NamesLostOnlyByRereading
PROPERTY
    LayoutKept
