--------------------------- MODULE MCEnclaveCalls ---------------------------
EXTENDS EnclaveCalls, TLC

CONSTANTS t1, t2, e1

TwoThreads == {t1, t2}

OneEnclave == {e1}

ThreadSymmetry == Permutations(TwoThreads)
=============================================================================
