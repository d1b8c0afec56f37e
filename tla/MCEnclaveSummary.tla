-------------------------- MODULE MCEnclaveSummary --------------------------
EXTENDS EnclaveSummary, TLC

CONSTANTS t1, t2, e1

TwoThreads == {t1, t2}

OneEnclave == {e1}

ThreadSymmetry == Permutations(TwoThreads)

\* Calls made after finalize are bounded apart from MaxCalls: two are the
\* least that nest one unqueued call in another, the chain pre_insert has
\* to walk.
MaxLateCalls == 2

LateCallsBounded ==
    Len(kept) - Cardinality({c \in DOMAIN kept : kept[c]}) <= MaxLateCalls
=============================================================================
