CONSTANTS
    T1 = 1
    TimeoutFactor = 4
    MaxFifo = 3
SPECIFICATION FairSpec
INVARIANT TypeOK
PROPERTIES
    ServerSpec
    CompletedEnds
