--------------------------- MODULE MCCallAnalysis ---------------------------
(* Model values and bounds for checking CallAnalysis with TLC.             *)
EXTENDS CallAnalysis

\* One enclave with two ECalls and one or two OCalls.
OneEnclave == {1}
TwoECalls == [e \in OneEnclave |-> 2]
OneOCall == [e \in OneEnclave |-> 1]
OneECall == [e \in OneEnclave |-> 1]
TwoOCalls == [e \in OneEnclave |-> 2]

\* Two enclaves whose tables have the same sizes, so that an id of one is
\* a valid index into the other's tables.
TwoEnclaves == {1, 2}
OneECallEach == [e \in TwoEnclaves |-> 1]
OneOCallEach == [e \in TwoEnclaves |-> 1]

\* Clock gaps in ns: one in the first bucket of both tables, one in the last,
\* and their sums reach beyond all buckets.
MCGaps == {500, 15000}
=============================================================================
