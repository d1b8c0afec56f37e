-------------------------- MODULE MCThreadRegistry --------------------------
EXTENDS ThreadRegistry

CONSTANTS m, t1, t2

ThreeThreads == {m, t1, t2}

\* Main starts both threads.
Siblings == [c \in {t1, t2} |-> m]

\* Main starts t1, which starts t2.
Chain == (t1 :> m) @@ (t2 :> t1)
=============================================================================
