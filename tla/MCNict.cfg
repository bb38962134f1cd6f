CONSTANTS
    T1 = 2
    TcpProgress = 1
    T2 = 5
    T4 = 3
    TimeoutFactor = 8
    MaxFifo = 2
SPECIFICATION FairSpec
INVARIANT TypeOK
PROPERTIES
    QuietWhenReliable
    EventuallyKilled
    ClientSpec
