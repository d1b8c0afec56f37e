CONSTANTS
    m = m
    t1 = t1
    t2 = t2
    Threads <- ThreeThreads
    Main = m
    Parent <- Siblings
SPECIFICATION Spec
INVARIANT OneRowPerThread
CHECK_DEADLOCK FALSE
