CONSTANTS
    Dumps <- ArrayDumps
    Options = {"none"}
    IdSize = 8
    Cut = {}
    Modulus = 4096
    KeyMod = 64
    Cap = 2
    FirstFake = 20
    Hash <- MCHash
SPECIFICATION Spec
INVARIANT ClassByIdent
