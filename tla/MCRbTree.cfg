CONSTANTS
    Key <- ManyKeys
    Few <- FewKeys
    Data = {a, b}
    Callbacks <- MCCallbacks
    a = a
    b = b
    Null = Null
    Dummy = Dummy
SPECIFICATION Spec
INVARIANTS
    RedBlackTree
    NoNullWrite
    NodesKeepTheirKey
    NoDangling
PROPERTY ImplementsDictionary
SYMMETRY DataSymmetry
CHECK_DEADLOCK FALSE
