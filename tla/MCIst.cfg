CONSTANTS
    T1 = 2
    T2 = 3
    T4 = 2
    TimeoutFactor = 4
    MaxFifo = 3
SPECIFICATION FairSpec
INVARIANTS
    TypeOK
    RepeatsItsAnswer
PROPERTIES
    ServerSpec
    CompletedEnds
    ConfirmedEnds
