--------------------------- MODULE CallReconstruct ---------------------------
(***************************************************************************)
(* The analyzer's reconstruction of the call tree                          *)
(* (src/analyzer/src/calls.cpp, analyze_calls and its sqlite callbacks).   *)
(*                                                                         *)
(* The registry of call sites (ecalls_callback, ocalls_callback and the    *)
(* sizing of the parent tables) gives the initial state.  thread_callback *)
(* allocates each thread's array of single_call_data_t; call_data_callback *)
(* then runs once per joined call row, in the order of "order by           *)
(* s.involved_thread, s.time".  For each row it finds the direct parent by *)
(* scanning the thread's array backwards for the parent's event id, finds  *)
(* the indirect parent (the previous call of the same kind on the same     *)
(* level) by walking parent pointers backwards, updates both relation      *)
(* tables of the row's call site, appends the row to the array and         *)
(* registers it in the site's single_calls.                                *)
(*                                                                         *)
(* Pointers into t.calls are indices; calls - 1 is index -1; nullptr is    *)
(* Null, less than both.  Time differences are uint64 in the code; they   *)
(* are never negative here: one thread's rows come from one monotonic     *)
(* clock.                                                                  *)
(***************************************************************************)
EXTENDS Integers, Sequences, SequencesExt, FiniteSets, TLC

CONSTANTS Threads, Enclaves, NumECalls, NumOCalls, NoParent

VARIABLES
    trace,      \* input: the calls the logger recorded (CallTrace)
    finalized,  \* input: the logger has written its database
    stage,      \* "threads", "calls", or the fault that ended the analyzer
    calls,      \* threads[t].calls, index -> single_call_data_t
    next,       \* threads[t].next_call_index
    sites       \* encls[e].ecalls[i] / ocalls[i], keyed <<e, kind, i>>

anaVars == <<stage, calls, next, sites>>

ECALL == "ECALL"
OCALL == "OCALL"
Null == -2                  \* nullptr: below every pointer into calls
Uninit == "uninitialized"   \* a slot of new single_call_data_t[events]

Other(kind) == IF kind = ECALL THEN OCALL ELSE ECALL
TableSize(e, kind) == IF kind = ECALL THEN NumECalls[e] ELSE NumOCalls[e]
SiteKeys == UNION {{<<e, k, i>> : i \in 0..(TableSize(e, k) - 1)} :
                    e \in Enclaves, k \in {ECALL, OCALL}}

\* Bucket bounds of parent_call_data_t, in nanoseconds.
DirectBounds == <<10000, 20000>>
IndirectBounds == <<1000, 5000, 10000, 20000>>

\* A stats_t as "c->all_stats = {}" leaves it: calls, sum, avg and the
\* counts num_less_1us / 5us / 10us.  sq_sum and std are not kept.
NoStats == [calls |-> 0, sum |-> 0, avg |-> 0, less |-> <<0, 0, 0>>]

\* A value-initialised parent_call_data_t (std::vector<...>(n)).
NoEntry == [count |-> 0, fromStart |-> <<0, 0>>, fromEnd |-> <<0, 0>>,
            gap |-> <<0, 0, 0, 0>>]

\* A call_data_t as ecalls_callback / ocalls_callback create it, with the
\* parent tables analyze_calls allocates: direct parents are indexed by
\* the ids of the other kind, indirect parents by the ids of the same kind,
\* both of the site's own enclave.
\* Mutant: the two tables sized the other way round.
EmptySiteSwapped(s) ==
    [exectimes |-> <<>>, sum |-> 0, all |-> NoStats, p95 |-> NoStats, fromOCalls |-> 0, single |-> <<>>,
     direct |-> [k \in 0..(TableSize(s[1], s[2]) - 1) |-> NoEntry],
     indirect |-> [k \in 0..(TableSize(s[1], Other(s[2])) - 1) |-> NoEntry]]

EmptySite(s) ==
    [exectimes |-> <<>>, sum |-> 0, all |-> NoStats, p95 |-> NoStats, fromOCalls |-> 0, single |-> <<>>,
     direct |-> [k \in 0..(TableSize(s[1], Other(s[2])) - 1) |-> NoEntry],
     indirect |-> [k \in 0..(TableSize(s[1], s[2]) - 1) |-> NoEntry]]

\* The call query returns the rows "order by s.involved_thread, s.time":
\* thread by thread in ascending id, each thread's calls in start order.
\* The row due next is therefore the first unstored call of the least
\* thread that still has one.
Pending == {t \in Threads : next[t] < Len(trace[t])}

\* The thread query's count(e.id): events of t whose call_event exists,
\* i.e. one return event per call and the call events that have a parent.
EventsWithCallEvent(t) ==
    Len(trace[t]) + Cardinality({i \in 1..Len(trace[t]) :
                                   trace[t][i].parent # NoParent})

Init ==
    /\ stage = "threads"
    /\ calls = [t \in Threads |-> <<>>]
    /\ next = [t \in Threads |-> 0]
    /\ sites = [s \in SiteKeys |-> EmptySite(s)]

\* thread_callback, for every thread the thread query returns.
thread_callback ==
    /\ finalized
    /\ stage = "threads"
    /\ calls' = [t \in Threads |-> [i \in 0..(EventsWithCallEvent(t) - 1) |-> Uninit]]
    /\ next' = [t \in Threads |-> 0]
    /\ stage' = "calls"
    /\ UNCHANGED sites

\* The direct-parent loop "for (i = next_call_index - 1; ; --i)": the index
\* whose event_id is the parent's, or NotFound where assert(i != 0) fires
\* (or, when nothing was stored yet, i wraps to UINT64_MAX).
NotFound == -3
RECURSIVE FindParent(_, _, _)

\* Mutant: "for (i = next_call_index - 1; i != 0; --i)", slot 0 unread.
FindParentSkipsZero(t, i, pid) ==
    IF i = 0 THEN NotFound
    ELSE IF calls[t][i].id = pid THEN i
    ELSE FindParent(t, i - 1, pid)

FindParent(t, i, pid) ==
    IF calls[t][i].id = pid THEN i
    ELSE IF i = 0 THEN NotFound
    ELSE FindParent(t, i - 1, pid)

\* "c && c > scd.parent" with pointers as indices (calls - 1 is -1).
Above(c, p) == c # Null /\ c > p

\* The indirect-parent walk "while (c && c > scd.parent)": the index of
\* the previous call of the same kind whose parent is scd.parent, Null if
\* the walk ends without one, OutOfBounds if it dereferences calls - 1.
OutOfBounds == -1
RECURSIVE IndirectScan(_, _, _, _)

\* Mutant: the first call of the same kind matches, whatever its parent.
IndirectScanAnyLevel(t, c, p, kind) ==
    IF ~Above(c, p) THEN Null
    ELSE IF c < 0 THEN OutOfBounds
    ELSE IF calls[t][c].kind = kind THEN c
    ELSE IndirectScan(t, calls[t][c].parent, p, kind)

IndirectScan(t, c, p, kind) ==
    IF ~Above(c, p) THEN Null
    ELSE IF c < 0 THEN OutOfBounds
    ELSE IF calls[t][c].kind = kind
         THEN IF calls[t][c].parent = p THEN c
              ELSE IndirectScan(t, IF calls[t][c].parent = Null THEN Null
                                   ELSE calls[t][c].parent - 1, p, kind)
         ELSE IndirectScan(t, calls[t][c].parent, p, kind)

\* The else-if chain over a parent_call_data_t's buckets: the first bucket
\* whose bound exceeds x is incremented, none if x is above them all.
\* Mutant: "if" in place of "else if", every bucket above x counts it.
CountInEveryBucket(b, x, bounds) ==
    [j \in DOMAIN b |-> IF x < bounds[j] THEN b[j] + 1 ELSE b[j]]

CountIn(b, x, bounds) ==
    IF \E j \in DOMAIN bounds : x < bounds[j]
    THEN LET j == CHOOSE j \in DOMAIN bounds :
                     x < bounds[j] /\ \A i \in 1..(j - 1) : x >= bounds[i]
         IN  [b EXCEPT ![j] = @ + 1]
    ELSE b

\* dpcd.count++ and the timediff_start / timediff_end buckets.
CountDirect(en, fromStart, fromEnd) ==
    [en EXCEPT !.count = @ + 1,
               !.fromStart = CountIn(@, fromStart, DirectBounds),
               !.fromEnd = CountIn(@, fromEnd, DirectBounds)]

\* ipcd.count++ and the timediff bucket.
CountIndirect(en, gap) ==
    [en EXCEPT !.count = @ + 1, !.gap = CountIn(@, gap, IndirectBounds)]

\* The row due next, its thread and its call site.
RowThread == CHOOSE t \in Pending : \A u \in Pending : t <= u
RowCall(t) == trace[t][next[t] + 1]
RowSite(r) == <<r.eid, r.kind, r.cid>>

\* scd.parent after the direct-parent loop, for row r of thread t.
ParentIdx(t, r) ==
    IF r.parent = NoParent THEN Null
    ELSE IF next[t] = 0 THEN NotFound
    ELSE FindParent(t, next[t] - 1, r.parent)

\* c after the indirect-parent walk (none if t.next_call_index == 0).
PredIdx(t, r, pi) ==
    IF next[t] = 0 THEN Null
    ELSE IndirectScan(t, next[t] - 1, pi, r.kind)

\* What stops the analyzer on this row: the failed assert, std::out_of_range
\* from direct_parents_data->at / indirect_parents_data->at (an uncaught
\* exception in the sqlite callback), or the read of calls - 1.
RowFault(t, r, pi, ci) ==
    IF pi = NotFound THEN "no parent"
    ELSE IF pi # Null /\ calls[t][pi].cid \notin DOMAIN sites[RowSite(r)].direct
    THEN "out_of_range"
    ELSE IF ci = OutOfBounds THEN "read calls - 1"
    ELSE IF ci # Null /\ calls[t][ci].cid \notin DOMAIN sites[RowSite(r)].indirect
    THEN "out_of_range"
    ELSE IF next[t] \notin DOMAIN calls[t]
    THEN "write past calls"
    ELSE "none"

\* The single_call_data_t call_data_callback builds for the row.
RowScd(r, pi) ==
    [id |-> r.id, cid |-> r.cid, kind |-> r.kind, start |-> r.start,
     end |-> r.end, exec |-> r.end - r.start, parent |-> pi]

\* The row's call_data_t after the callback: exectimes and sum, the
\* direct parent's entry (and num_ecall_called_from_ocalls for an ECall),
\* the indirect parent's entry, and the pointer pushed to single_calls,
\* &t.calls[t.next_call_index] taken after the increment.
UpdatedSite(t, r, pi, ci) ==
    LET own == [sites[RowSite(r)] EXCEPT !.exectimes = Append(@, r.end - r.start),
                                         !.sum = @ + (r.end - r.start),
                                         !.single = Append(@, <<t, next[t] + 1>>)]
        dp == calls[t][pi]
        withDirect ==
            IF pi = Null THEN own
            ELSE [own EXCEPT
                    !.direct[dp.cid] = CountDirect(@, r.start - dp.start,
                                                      dp.end - r.end),
                    !.fromOCalls = @ + (IF r.kind = ECALL THEN 1 ELSE 0)]
        ip == calls[t][ci]
    IN  IF ci = Null THEN withDirect
        ELSE [withDirect EXCEPT
                !.indirect[ip.cid] = CountIndirect(@, r.start - ip.end)]

\* call_data_callback, both branches (type 15, ECall; type 17, OCall).
call_data_callback ==
    /\ stage = "calls"
    /\ Pending # {}
    /\ LET t == RowThread
           r == RowCall(t)
           pi == ParentIdx(t, r)
           ci == PredIdx(t, r, pi)
           fault == RowFault(t, r, pi, ci)
       IN  IF fault = "none"
           THEN /\ calls' = [calls EXCEPT ![t][next[t]] = RowScd(r, pi)]
                /\ next' = [next EXCEPT ![t] = @ + 1]
                /\ sites' = [sites EXCEPT ![RowSite(r)] = UpdatedSite(t, r, pi, ci)]
                /\ UNCHANGED stage
           ELSE /\ stage' = fault
                /\ UNCHANGED <<calls, next, sites>>

-----------------------------------------------------------------------------
(* "Generating statistics" and the report.                                 *)

\* Bounds of num_less_1us, num_less_5us and num_less_10us, in nanoseconds.
StatsBounds == <<1000, 5000, 10000>>

\* percentile_idx(pct / 100.0, v) for n = v.size(): min(ceil(p * n), n - 1).
\* For n > 0 the double product only rounds onto an integer p * n already
\* is, so the integer ceiling is exact.  For n = 0, n - 1 wraps to
\* UINT64_MAX and the result is ceil(0) = 0.
percentile_idx(pct, n) ==
    LET up == (pct * n + 99) \div 100
    IN  IF n = 0 \/ up < n - 1 THEN up ELSE n - 1

\* calc_stats(s, c) for a stats_t whose calls and sum are set: the average
\* and the threshold counts over the first s.calls of the sorted exectimes.
\* Nothing is computed when s.calls is 0.
calc_stats(n, sum, ex) ==
    IF n = 0 THEN [NoStats EXCEPT !.sum = sum]
    ELSE [calls |-> n, sum |-> sum, avg |-> sum \div n,
          less |-> [b \in 1..3 |-> Cardinality({i \in 1..n : ex[i] < StatsBounds[b]})]]

\* Mutant: the exectimes are not sorted before the prefix is taken.
SiteStatsUnsorted(c) ==
    LET ex == c.exectimes
        n == percentile_idx(95, Len(ex))
    IN  [c EXCEPT !.all = calc_stats(Len(ex), c.sum, ex),
                  !.p95 = calc_stats(n, FoldSeq(+, 0, SubSeq(ex, 1, n)), ex)]

\* The per-site body of the statistics loop: all_stats.calls is the number
\* of exectimes, which are sorted; stats_95th takes the prefix of length
\* percentile_idx(0.95, exectimes) and its accumulated sum.
SiteStats(c) ==
    LET ex == SortSeq(c.exectimes, <)
        n == percentile_idx(95, Len(ex))
    IN  [c EXCEPT !.exectimes = ex,
                  !.all = calc_stats(Len(ex), c.sum, ex),
                  !.p95 = calc_stats(n, FoldSeq(+, 0, SubSeq(ex, 1, n)), ex)]

\* std::thread::hardware_concurrency() of the machine the analyzer runs on:
\* 0 when it cannot be determined.
HardwareConcurrency == 0..3

\* parallel_for_each over positions 0..size-1: thread j's block of
\* positions.  It starts min(size, hardware_concurrency() or 4) threads;
\* each takes size / threads elements and the last one the rest.
ParallelBlocks(size, hw) ==
    LET wanted == IF hw # 0 THEN hw ELSE 4
        n == IF size < wanted THEN size ELSE wanted
        b == size \div n
    IN  [j \in 0..(n - 1) |-> IF j < n - 1 THEN (j * b)..((j + 1) * b - 1)
                                          ELSE (j * b)..(size - 1)]

\* Position i of a range of size elements is handed to a body.
InBlocks(size, hw, i) ==
    size > 0 /\ \E j \in DOMAIN ParallelBlocks(size, hw) : i \in ParallelBlocks(size, hw)[j]

\* After the last row: the statistics of every ECall and OCall site of every
\* enclave, computed by a parallel_for_each over encls (a std::map, in key
\* order) whose bodies run one over each enclave's ecalls and ocalls.  The
\* blocks are disjoint, so the bodies touch disjoint call_data_t.
generate_statistics ==
    /\ stage = "calls"
    /\ Pending = {}
    /\ \E hw \in HardwareConcurrency :
          sites' = [s \in SiteKeys |->
                      IF /\ InBlocks(Cardinality(Enclaves), hw,
                                     Cardinality({x \in Enclaves : x < s[1]}))
                         /\ InBlocks(TableSize(s[1], s[2]), hw, s[3])
                      THEN SiteStats(sites[s]) ELSE sites[s]]
    /\ stage' = "report"
    /\ UNCHANGED <<calls, next>>

\* The default weights of main.cpp, in hundredths.  Every ratio a / b > w
\* of the classifier is compared as 100 * a > w * b; at the bounds checked
\* no score lands on its threshold, where the double rounding could differ.
DuplicationWeights == <<35, 50, 65>>            \* alpha, beta, gamma
ReorderingWeights == [w |-> <<100, 75>>, gamma |-> 50]
BatchingWeights == [w |-> <<100, 75, 50, 25>>, epsilon |-> 35, lambda |-> 35]
MergingWeights == BatchingWeights

Score(counts, w) == SumFunction([i \in DOMAIN w |-> counts[i] * w[i]])

\* duplication_or_move_opportunity: any threshold of the trimmed counts.
\* With stats_95th.calls = 0 every ratio is 0 / 0 = NaN and no ">" holds.
duplication_or_move_opportunity(c) ==
    \E b \in 1..3 : 100 * c.p95.less[b] > DuplicationWeights[b] * c.p95.calls

\* Mutant: the frequency test divides by the trimmed count.
GapOpportunityTrimmed(en, c, W) ==
    /\ 100 * en.count > W.lambda * c.p95.calls
    /\ Score(en.gap, W.w) > W.epsilon * en.count

\* batch_opportunity / merge_opportunity on an indirect entry of site c.
GapOpportunity(en, c, W) ==
    /\ 100 * en.count > W.lambda * c.all.calls
    /\ Score(en.gap, W.w) > W.epsilon * en.count

\* reorder_start_opportunity / reorder_end_opportunity on buckets b.
ReorderOpportunity(b, count) ==
    Score(b, ReorderingWeights.w) > ReorderingWeights.gamma * count

\* print_call_data(e, c, print_min): the sites it prints, and the "/!\"
\* lines it adds.  A relation entry is printed when its call_data is set,
\* which call_data_callback does on its first count.
Printed(s, print_min) == sites[s].all.calls >= print_min

\* Mutant: the privatisation test compares with the trimmed count.
PrivateTrimmed(s) ==
    /\ s[2] = ECALL /\ sites[s].all.calls > 0
    /\ sites[s].fromOCalls = sites[s].p95.calls

Private(s) ==
    /\ s[2] = ECALL /\ sites[s].all.calls > 0
    /\ sites[s].fromOCalls = sites[s].all.calls

Duplicate(s) ==
    s[2] = OCALL /\ sites[s].all.calls > 0 /\ duplication_or_move_opportunity(sites[s])

\* Reorder flags of direct entry k: <<to start, to end>>.
Reorder(s, k) ==
    LET c == sites[s]
        en == c.direct[k]
    IN  IF c.all.calls > 0 /\ (s[2] = OCALL \/ c.fromOCalls > 0) /\ en.count > 0
        THEN <<ReorderOpportunity(en.fromStart, en.count),
               ReorderOpportunity(en.fromEnd, en.count)>>
        ELSE <<FALSE, FALSE>>

\* Batching (k is the site itself) or merging flag of indirect entry k.
Batch(s, k) ==
    LET c == sites[s] IN
    /\ c.all.calls > 0 /\ c.indirect[k].count > 0
    /\ IF k = s[3] THEN GapOpportunity(c.indirect[k], c, BatchingWeights)
                   ELSE GapOpportunity(c.indirect[k], c, MergingWeights)

\* Mutant: every ECall of the enclave is listed, the count test dropped.
NarrowestInterfaceAll(o) ==
    {e \in SiteKeys : e[1] = o[1] /\ e[2] = ECALL}

\* analyze_security without an EDL: for OCall site o, the ECalls of its
\* enclave whose direct_parents_data entry for o has a non-zero count, the
\* "allow (...)" list printed after o's name.  The line is printed when it
\* ends in ");", that is, when the list is not empty: without one it ends
\* in the last character of a C symbol name, never ')'.
NarrowestInterface(o) ==
    {e \in SiteKeys : e[1] = o[1] /\ e[2] = ECALL /\ sites[e].direct[o[3]].count # 0}

SecurityHintPrinted(o) == NarrowestInterface(o) # {}

\* skip_call(cd, set) (util.cpp): with no ids given (-g), a site is skipped
\* when it was never called, otherwise when its id is not in the set.  A
\* relation entry never counted has a null call_data, which skip_call skips:
\* dot_graph tests its count instead.
skip_call(s, set) ==
    IF set = {} THEN sites[s].all.calls = 0 ELSE s[3] \notin set

\* The parent site a relation entry k of site s refers to.
EntrySite(s, rel, k) ==
    IF rel = "direct" THEN <<s[1], Other(s[2]), k>> ELSE <<s[1], s[2], k>>

\* Mutant: direct parents are filtered with the set of the site's own kind.
EntrySetSameKind(s, rel, sel) == sel[s[2]]

\* The selection the parent of a relation entry of site s is filtered by:
\* ecall_set for an ECall, ocall_set for an OCall.
EntrySet(s, rel, sel) == IF rel = "direct" THEN sel[Other(s[2])] ELSE sel[s[2]]

\* dot_graph(eid) for the -g selection sel (config.ecall_set and ocall_set):
\* a node for every site not skipped, and for each of its relation entries
\* an edge from the entry's parent, labelled with the entry's count, dashed
\* for an indirect parent, unless the parent is skipped.  The DOT text is
\* left out: a graph is its nodes and its labelled edges.
dot_graph(e, sel) ==
    LET Nodes == {s \in SiteKeys : s[1] = e /\ ~skip_call(s, sel[s[2]])}
        Edge(s, rel, k) ==
           [from |-> EntrySite(s, rel, k), to |-> s, style |-> rel,
            label |-> sites[s][rel][k].count]
    IN  <<Nodes,
          UNION {{Edge(s, rel, k) :
                    k \in {j \in DOMAIN sites[s][rel] :
                             /\ sites[s][rel][j].count > 0
                             /\ ~skip_call(EntrySite(s, rel, j), EntrySet(s, rel, sel))}} :
                 s \in Nodes, rel \in {"direct", "indirect"}}>>

\* draw_graphs: one digraph per enclave of encls, written to config.graph.
draw_graphs(sel) == [e \in Enclaves |-> dot_graph(e, sel)]

Next == thread_callback \/ call_data_callback \/ generate_statistics

Entry == [count: Nat, fromStart: Seq(Nat), fromEnd: Seq(Nat), gap: Seq(Nat)]

TypeOK ==
    /\ stage \in {"threads", "calls", "report", "no parent", "out_of_range",
                  "read calls - 1", "write past calls"}
    /\ next \in [Threads -> Nat]
    /\ \A s \in SiteKeys :
         /\ sites[s].direct \in [0..(TableSize(s[1], Other(s[2])) - 1) -> Entry]
         /\ sites[s].indirect \in [0..(TableSize(s[1], s[2]) - 1) -> Entry]
         /\ sites[s].single \in Seq(Threads \X Nat)
=============================================================================
