CONSTANTS
    a = a
    b = b
    c = c
    d = d
    NumShards = 2
    Keys <- MCKeys
    LastByte <- MCLastByte
    Blocks <- MCBlocks
    Interval = 1
    ShardInterval = 1
    HeightWord = 8
SPECIFICATION Spec
INVARIANT RestartComplete
