\* Two threads, an enclave of two pages, up to three frames per thread
\* (the code, a SIGSEGV handler, a SIGUSR1 handler).  Threads and pages are
\* interchangeable.  The threads also touch the page after the enclave and
\* a guard page, install SIGSEGV handlers and may take SIGINT.  A SIGUSR1 delivered inside a locked section deadlocks
\* (MCWorkingSet_usr1.cfg), so deadlocks are final states of the program.
CONSTANTS
    t1 = t1
    t2 = t2
    t3 = t3
    p1 = p1
    p2 = p2
    Threads <- TwoThreads
    Pages <- TwoPages
    MaxDepth = 3
SYMMETRY Symmetry
SPECIFICATION Spec
INVARIANT MarkedPagesAccessible SummaryCountsAccessedPages AppHandlerRunsUnlocked
CHECK_DEADLOCK FALSE
