\* Three threads, 2-bit tickets: mutual exclusion, refinement of the FIFO
\* reader-writer lock, and starvation freedom under weak fairness.
CONSTANTS
    p1 = p1
    p2 = p2
    p3 = p3
    p4 = p4
    p5 = p5
    Procs <- ThreeProcs
    Bits = 2
SPECIFICATION Spec
INVARIANT TypeOK MutualExclusion
PROPERTY ImplementsRWLock StarvationFree
