---------------------------- MODULE CallAnalysis ----------------------------
(***************************************************************************)
(* The logger and the analyzer composed: a program runs under the logger  *)
(* (CallTrace) until EventStore::finalize, then the analyzer reads the     *)
(* recorded calls back and rebuilds the call tree (CallReconstruct).       *)
(*                                                                         *)
(* The logger knows the true call tree: every call's previous_call.  The   *)
(* analyzer only sees rows and rebuilds the tree by scanning.  The         *)
(* properties compare what the analyzer stores with reference definitions *)
(* read directly off the recorded trace.                                   *)
(***************************************************************************)
EXTENDS Integers, Sequences, FiniteSets

CONSTANTS Threads, Enclaves, NumECalls, NumOCalls, MaxCalls, Gaps, NoParent

VARIABLES clock, current, trace, finalized,
          stage, calls, next, sites

recVars == <<clock, current, trace, finalized>>
anaVars == <<stage, calls, next, sites>>
vars == <<recVars, anaVars>>

Logger == INSTANCE CallTrace
Analyzer == INSTANCE CallReconstruct

Init == Logger!Init /\ Analyzer!Init

Next ==
    \/ Logger!Next /\ UNCHANGED anaVars
    \/ Analyzer!Next /\ UNCHANGED recVars

Spec == Init /\ [][Next]_vars

-----------------------------------------------------------------------------
(* Reference definitions over the recorded trace.                          *)

ECALL == Logger!ECALL
OCALL == Logger!OCALL
SiteKeys == Analyzer!SiteKeys

\* Positions of trace[t] the analyzer has already stored (slot i - 1).
Stored == UNION {{<<t, i>> : i \in 1..next[t]} : t \in Threads}

Call(o) == trace[o[1]][o[2]]
SiteOf(o) == <<Call(o).eid, Call(o).kind, Call(o).cid>>

\* The call that was current_call when o was recorded.
TrueParent(o) ==
    <<o[1], CHOOSE j \in 1..(o[2] - 1) : trace[o[1]][j].id = Call(o).parent>>

\* The latest earlier call of o's thread of the same kind and with the same
\* previous_call: the call o follows on its level.
Siblings(o) ==
    {<<o[1], j>> : j \in {j \in 1..(o[2] - 1) :
                           /\ trace[o[1]][j].kind = Call(o).kind
                           /\ trace[o[1]][j].parent = Call(o).parent}}
HasSibling(o) == Siblings(o) # {}
TrueSibling(o) == CHOOSE x \in Siblings(o) : \A y \in Siblings(o) : y[2] <= x[2]

\* The bucket count a parent_call_data_t should hold for the differences
\* xs, read as half-open ranges [bounds[b-1], bounds[b]).
InBucket(x, bounds, b) == x < bounds[b] /\ (b = 1 \/ x >= bounds[b - 1])
Buckets(O, diff(_), bounds) ==
    [b \in DOMAIN bounds |-> Cardinality({o \in O : InBucket(diff(o), bounds, b)})]

\* Stored calls of site s directly called from call site k of the other
\* kind in the same enclave.
DirectCallers(s, k) ==
    {o \in Stored : /\ SiteOf(o) = s
                    /\ Call(o).parent # NoParent
                    /\ SiteOf(TrueParent(o)) = <<s[1], Analyzer!Other(s[2]), k>>}

\* Stored calls of site s that follow a call of site k (same enclave) on
\* their level.
IndirectCallers(s, k) ==
    {o \in Stored : /\ SiteOf(o) = s
                    /\ HasSibling(o)
                    /\ SiteOf(TrueSibling(o)) = <<s[1], s[2], k>>}

FromStart(o) == Call(o).start - Call(TrueParent(o)).start
FromEnd(o) == Call(TrueParent(o)).end - Call(o).end
GapAfter(o) == Call(o).start - Call(TrueSibling(o)).end

-----------------------------------------------------------------------------
(* Properties.                                                             *)

TypeOK == Logger!TypeOK /\ Analyzer!TypeOK

\* call_data_callback never stops the analyzer (failed assert in the
\* direct-parent loop, std::out_of_range from ->at(), a read of calls - 1
\* or a write past the thread's array) on a trace the logger recorded.
AnalyzerAcceptsTrace == stage \in {"threads", "calls", "report"}

\* Once every row is processed, every direct_parents_data entry of every
\* call site counts exactly the calls of that site made from inside that
\* call site, with their timediff_start / timediff_end buckets, and
\* num_ecall_called_from_ocalls counts the ECalls that had an OCall parent.
DirectRelationsMatchTrace ==
    stage = "report" =>
    \A s \in SiteKeys :
       /\ \A k \in DOMAIN sites[s].direct :
             LET O == DirectCallers(s, k) IN
             sites[s].direct[k] =
                [count |-> Cardinality(O),
                 fromStart |-> Buckets(O, FromStart, Analyzer!DirectBounds),
                 fromEnd |-> Buckets(O, FromEnd, Analyzer!DirectBounds),
                 gap |-> <<0, 0, 0, 0>>]
       /\ s[2] = ECALL =>
             sites[s].fromOCalls =
                Cardinality({o \in Stored : SiteOf(o) = s /\ Call(o).parent # NoParent})

\* Once every row is processed, every indirect_parents_data entry counts
\* exactly the calls of the site whose predecessor on the same level (same
\* kind, same parent) is a call of that entry's site, with the gap between
\* them in its bucket.
IndirectRelationsMatchTrace ==
    stage = "report" =>
    \A s \in SiteKeys :
       \A k \in DOMAIN sites[s].indirect :
          LET O == IndirectCallers(s, k) IN
          sites[s].indirect[k] =
             [count |-> Cardinality(O), fromStart |-> <<0, 0>>,
              fromEnd |-> <<0, 0>>,
              gap |-> Buckets(O, GapAfter, Analyzer!IndirectBounds)]

\* Every pointer in a call site's single_calls designates a stored call of
\* that very site (export_call_data_scatter reads exec and end through it).
SingleCallsAreOwnCalls ==
    \A s \in SiteKeys :
       \A j \in DOMAIN sites[s].single :
          LET o == sites[s].single[j] IN
          /\ o[2] < next[o[1]]
          /\ SiteOf(<<o[1], o[2] + 1>>) = s

\* The durations the trace holds for site s, and how many lie below b.
Invocations(s) == {o \in Stored : SiteOf(o) = s}
Duration(o) == Call(o).end - Call(o).start
NumBelow(s, b) == Cardinality({o \in Invocations(s) : Duration(o) < b})

\* The fastest 95% by count: idx(0.95, n) = min(ceil(0.95 n), n - 1) of
\* the n invocations; among them, those below b are the min of that and
\* the number below b overall.
Trimmed(s) ==
    LET n == Cardinality(Invocations(s))
        m == (95 * n + 99) \div 100
    IN  IF m < n - 1 THEN m ELSE n - 1
TrimmedBelow(s, b) ==
    IF NumBelow(s, b) < Trimmed(s) THEN NumBelow(s, b) ELSE Trimmed(s)

\* print_call_data flags an OCall site for duplication or a move into the
\* enclave exactly when, among the fastest 95% of its invocations in the
\* trace, the share below 1, 5 or 10 us exceeds its weight (the slow tail
\* ignored, and nothing flagged when no invocation is left).  This covers
\* the collection of exectimes, their sort, percentile_idx and calc_stats.
DuplicationFlagMatchesTrace ==
    stage = "report" =>
       \A s \in SiteKeys : s[2] = OCALL =>
          (Analyzer!Duplicate(s) <=>
              /\ Trimmed(s) > 0
              /\ \E b \in 1..3 :
                    100 * TrimmedBelow(s, Analyzer!StatsBounds[b])
                       > Analyzer!DuplicationWeights[b] * Trimmed(s))

\* print_call_data reports a batching opportunity for a site exactly when,
\* in the trace, more than 35% of its invocations directly follow an
\* invocation of the same site on the same level, and those repetitions'
\* gaps weigh more than 0.35 per repetition (1.0 below 1 us, 0.75 below
\* 5 us, 0.5 below 10 us, 0.25 below 20 us).
BatchingFlagMatchesTrace ==
    stage = "report" =>
       \A s \in SiteKeys :
          LET O == IndirectCallers(s, s[3])
              W == Analyzer!BatchingWeights
          IN  Analyzer!Batch(s, s[3]) <=>
                 /\ O # {}
                 /\ 100 * Cardinality(O) > W.lambda * Cardinality(Invocations(s))
                 /\ Analyzer!Score(Buckets(O, GapAfter, Analyzer!IndirectBounds), W.w)
                       > W.epsilon * Cardinality(O)

\* analyze_security, without an EDL, prints for an OCall the narrowest
\* interface that still lets the application run: exactly the ECalls the
\* trace made from inside a call of that OCall, and no line for an OCall
\* from which none was made.  A narrower list breaks the application, a
\* wider one leaves an ECall reachable from the OCall without need.
SecurityHintsMatchTrace ==
    stage = "report" =>
       \A o \in SiteKeys : o[2] = OCALL =>
          /\ Analyzer!NarrowestInterface(o) =
                {e \in SiteKeys : e[1] = o[1] /\ e[2] = ECALL /\ DirectCallers(e, o[3]) # {}}
          /\ Analyzer!SecurityHintPrinted(o) <=>
                \E c \in Stored : Call(c).parent # NoParent /\ SiteOf(TrueParent(c)) = o

\* The -g selections: a set of ECall ids and a set of OCall ids.
Selections == [{ECALL, OCALL} -> SUBSET {s[3] : s \in SiteKeys}]

\* A site the graph should show: any called site when no ids are given,
\* otherwise the sites given.
Selected(s, sel) ==
    IF sel[s[2]] = {} THEN Invocations(s) # {} ELSE s[3] \in sel[s[2]]

\* draw_graphs, for every -g selection, draws for each enclave exactly the
\* selected call sites and, between two selected sites, a solid edge
\* labelled n when n calls of the second were made from inside a call of
\* the first, and a dashed one when n calls of the second directly
\* followed a call of the first on the same level: the call graph of the
\* trace, with no edge to or from a site that is not drawn.
GraphMatchesTrace ==
    stage = "report" =>
       LET Callers(s, rel, k) ==
              IF rel = "direct" THEN DirectCallers(s, k) ELSE IndirectCallers(s, k)
           From(s, rel, k) ==
              IF rel = "direct" THEN <<s[1], Analyzer!Other(s[2]), k>> ELSE <<s[1], s[2], k>>
           TraceEdges ==
              {[from |-> x.from, to |-> x.to, style |-> x.style,
                label |-> Cardinality(Callers(x.to, x.style, x.from[3]))] :
               x \in {y \in [from : SiteKeys, to : SiteKeys, style : {"direct", "indirect"}] :
                        /\ y.from = From(y.to, y.style, y.from[3])
                        /\ Callers(y.to, y.style, y.from[3]) # {}}}
       IN  \A sel \in Selections : \A e \in Enclaves :
              LET V == {s \in SiteKeys : s[1] = e /\ Selected(s, sel)}
              IN  Analyzer!draw_graphs(sel)[e] =
                     <<V, {x \in TraceEdges : x.from \in V /\ x.to \in V}>>

\* print_call_data says an ECall "can be made private" exactly when it was
\* invoked and every one of its invocations in the trace was made from
\* inside an OCall, never directly by the application.
PrivateMatchesTrace ==
    stage = "report" =>
       \A s \in SiteKeys : s[2] = ECALL =>
          (Analyzer!Private(s) <=>
              /\ Invocations(s) # {}
              /\ \A o \in Invocations(s) : Call(o).parent # NoParent)
=============================================================================
