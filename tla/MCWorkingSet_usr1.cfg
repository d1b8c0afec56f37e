\* Two threads and two pages under the fairness of FairSpec: does every
\* SIGUSR1 handler return?
CONSTANTS
    t1 = t1
    t2 = t2
    t3 = t3
    p1 = p1
    p2 = p2
    Threads <- TwoThreads
    Pages <- TwoPages
    MaxDepth = 3
SPECIFICATION FairSpec
PROPERTY ResetReturns
CHECK_DEADLOCK FALSE
