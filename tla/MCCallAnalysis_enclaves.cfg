\* One thread calling into two enclaves whose call tables have equal sizes.
CONSTANTS
    Threads = {1}
    Enclaves <- TwoEnclaves
    NumECalls <- OneECallEach
    NumOCalls <- OneOCallEach
    MaxCalls = 2
    Gaps <- MCGaps
    NoParent = NoParent
SPECIFICATION Spec
INVARIANT IndirectRelationsMatchTrace
CHECK_DEADLOCK FALSE
