CONSTANTS
    Threads = {t1, t2, t3}
    NoThread = NoThread
    MaxAdds = 4
SPECIFICATION Spec
SYMMETRY ThreadSymmetry
INVARIANTS
    TypeOK
    CountAgrees
    NeverFindsEmpty
    ExactlyOnce
\* Every thread may end up waiting for an element when no more is added.
CHECK_DEADLOCK FALSE
