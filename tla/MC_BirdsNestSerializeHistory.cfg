CONSTANTS
    Length = 1
    MaxNumKeys = 1
    KeyType = "KTTimestampKey"
    ByteBase = 4
    Heights = {1, 2, 3}
    SnapshotType = "Timed"
    Interval = 1
    k1 = k1
    k2 = k2
    k3 = k3
    k4 = k4
    n1 = n1
    Keys <- MCKeys
    KeyBytes <- MCKeyBytes
    HasSeparator <- MCHasSeparator
    Blocks <- MCBlocks
SPECIFICATION HSpec
PROPERTY RecordIsChainState
