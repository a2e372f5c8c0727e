CONSTANTS
    Length = 2
    MaxNumKeys = 2
    KeyType = "KTTimestampKey"
    ByteBase = 4
    Heights = {1, 2}
    k1 = k1
    k2 = k2
    k3 = k3
    n1 = n1
    Keys <- MCKeys
    KeyBytes <- MCKeyBytes
    HasSeparator <- MCHasSeparator
SPECIFICATION Spec
INVARIANT TypeOK
PROPERTY WindowRefinement
