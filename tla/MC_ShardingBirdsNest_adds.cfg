CONSTANTS
    NumShards = 3
    MaxCalls = 2
    a = a
    b = b
    c = c
    d = d
    f = f
    Keys <- MCKeys
    LastByte <- MCLastByte
    AddFails = {f}
    Batches <- MCBatches
SPECIFICATION Spec
INVARIANT TypeOK
INVARIANT RunningMatches
INVARIANT KeysRouted
PROPERTY AddsReturns
