--------------------------- MODULE MCTicketRWLock ---------------------------
EXTENDS TicketRWLock

CONSTANTS p1, p2, p3, p4, p5

ThreeProcs == {p1, p2, p3}
FiveProcs == {p1, p2, p3, p4, p5}
OneProc == {p1}
=============================================================================
