CONSTANTS
    Dumps <- MCDumps
    Options = {"none", "*", "A"}
    IdSize = 8
    Cut <- ShortDumps
    Modulus = 1024
    KeyMod = 64
    Cap = 2
    FirstFake = 20
    Hash <- MCHash
SPECIFICATION FairSpec
INVARIANTS
    Accounting
    LostOnlyKnownWays
    TablesExact
    ClassesFound
    
PROPERTY Termination
