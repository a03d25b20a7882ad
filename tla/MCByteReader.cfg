CONSTANTS
    Base = 4
    Files <- MCFiles
    Magic <- MCMagic
    Versions <- MCVersions
    SbSize = 5
    MaxAlloc = 128
    Garbage = {0, 5}
SPECIFICATION FairSpec
INVARIANTS
    DecodedRight
    HeaderDecided
    OverrunOnlyLongVersion
    InStepToTheEnd
    StringInBounds
PROPERTY Termination
