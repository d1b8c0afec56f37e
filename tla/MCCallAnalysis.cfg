\* One thread, one enclave with two ECalls and one OCall, four calls: call
\* trees nested four deep, siblings separated by nested calls, which call
\* site each relation entry is keyed by, and the report's flags.
CONSTANTS
    Threads = {1}
    Enclaves <- OneEnclave
    NumECalls <- TwoECalls
    NumOCalls <- OneOCall
    MaxCalls = 4
    Gaps <- MCGaps
    NoParent = NoParent
SPECIFICATION Spec
INVARIANT TypeOK
INVARIANT AnalyzerAcceptsTrace
INVARIANT DirectRelationsMatchTrace
INVARIANT IndirectRelationsMatchTrace
INVARIANT DuplicationFlagMatchesTrace
INVARIANT PrivateMatchesTrace
INVARIANT BatchingFlagMatchesTrace
INVARIANT SecurityHintsMatchTrace
INVARIANT GraphMatchesTrace
CHECK_DEADLOCK FALSE
