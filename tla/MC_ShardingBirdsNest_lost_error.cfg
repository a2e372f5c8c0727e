CONSTANTS
    NumShards = 3
    MaxCalls = 1
    a = a
    b = b
    c = c
    d = d
    f = f
    Keys <- MCKeys
    LastByte <- MCLastByte
    AddFails = {f}
    Batches <- MCBatches
SPECIFICATION Spec
INVARIANT ErrorReported
