CONSTANTS
    NoAnswer = 2
    Linger = 1
    RepeatLimit = 2
    MaxFifo = 2
SPECIFICATION FairSpec
INVARIANTS
    TypeOK
    AcceptedEndsWithBye
    NoSecondCall
PROPERTIES
    NoRepeatAfterClose
    UnackedCallEnds
    CallEnds
    TerminateEnds
