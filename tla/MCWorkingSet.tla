---------------------------- MODULE MCWorkingSet ----------------------------
EXTENDS WorkingSet, TLC

CONSTANTS t1, t2, t3, p1, p2

TwoThreads == {t1, t2}
ThreeThreads == {t1, t2, t3}
TwoPages == {p1, p2}
Symmetry == Permutations(TwoThreads) \cup Permutations(TwoPages)
Symmetry3 == Permutations(ThreeThreads) \cup Permutations(TwoPages)
====
