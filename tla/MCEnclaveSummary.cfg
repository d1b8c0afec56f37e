\* Two threads, one enclave, four calls, at most two of them made after
\* finalize: a wait and the set that wakes it, a nested ECall in an OCall,
\* and a chain of two unqueued calls closed by finalize.
SPECIFICATION SSpec
CONSTANTS
    t1 = t1
    t2 = t2
    e1 = e1
    Threads <- TwoThreads
    Enclaves <- OneEnclave
    MaxCalls = 4
SYMMETRY ThreadSymmetry
CONSTRAINT LateCallsBounded
INVARIANT TypeOK CallStackConsistent BridgeFindsOrigTable SummaryLinksResolve 
CHECK_DEADLOCK FALSE
