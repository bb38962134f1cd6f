CONSTANTS
    T1 = 1
    TimeoutFactor = 16
    LengthD = 16
    MaxFifo = 2
SPECIFICATION Spec
INVARIANT FinalResponseTold
