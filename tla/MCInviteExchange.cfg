CONSTANTS
    T1 = 1
    T2 = 2
    T4 = 1
    TimeoutFactor = 3
    LengthD = 2
    MaxFifo = 2
SPECIFICATION Spec
INVARIANTS
    VerdictIsTheAnswer
    AckMeansTold
    OneFinalResponse
