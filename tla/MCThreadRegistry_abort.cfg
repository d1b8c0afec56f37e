CONSTANTS
    m = m
    t1 = t1
    t2 = t2
    Threads <- ThreeThreads
    Main = m
    Parent <- Chain
SPECIFICATION Spec
INVARIANT NoLoggerAbort
CHECK_DEADLOCK FALSE
