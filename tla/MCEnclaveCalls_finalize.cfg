SPECIFICATION Spec
CONSTANTS
    t1 = t1
    t2 = t2
    e1 = e1
    Threads <- TwoThreads
    Enclaves <- OneEnclave
    MaxCalls = 4
SYMMETRY ThreadSymmetry
INVARIANT SummaryWritten
CHECK_DEADLOCK FALSE
