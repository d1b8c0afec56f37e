\* Two threads, one enclave, three calls: a call made after finalize whose
\* return event finalize pushes.
SPECIFICATION SSpec
CONSTANTS
    t1 = t1
    t2 = t2
    e1 = e1
    Threads <- TwoThreads
    Enclaves <- OneEnclave
    MaxCalls = 3
SYMMETRY ThreadSymmetry
INVARIANT SummaryRowsHaveThread
CHECK_DEADLOCK FALSE
