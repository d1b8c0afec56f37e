--------------------------- MODULE EnclaveSummary ---------------------------
(***************************************************************************)
(* What the enclave-call events of EnclaveCalls become in out-<pid>.db:   *)
(* the event queues insert_event and finalize fill (src/logger/src/        *)
(* store.cpp) and create_summary, which writes them into the events table *)
(* with the pre_insert chains of the call events (src/logger/src/          *)
(* events.h).                                                              *)
(*                                                                         *)
(* Every step is a step of EnclaveCalls, with its effect on the queues:    *)
(* kept[c] is whether insert_event kept call c (it drops every event once  *)
(* the store is finalized, and only a kept event gets its thread's id),   *)
(* and rets[t] the calls finalize pushed return events for onto t's queue. *)
(* sync lists the EnclaveSyncWaitEvents and EnclaveSyncSetEvents made     *)
(* before finalize, in the order they were made, each with kept: whether   *)
(* insert_event kept it.                                                   *)
(***************************************************************************)
EXTENDS EnclaveCalls, FiniteSets

VARIABLES kept, rets, sync

svars == <<vars, kept, rets, sync>>

SInit ==
    /\ Init
    /\ kept = <<>>
    /\ rets = [t \in Threads |-> <<>>]
    /\ sync = <<>>

\* ecall_enter and ocall_bridge call insert_event on the call they push
\* (the only steps that add to calls), which keeps it unless finalized.
InsertCallEvent ==
    kept' = IF Len(calls') > Len(calls) THEN Append(kept, ~finalized) ELSE kept

\* finalize_pop (the only step that takes fread back to <<>>) pushes the
\* return event of the call it read, with that call's thread id, straight
\* onto the thread's queue, whether or not insert_event kept the call.
PushFinalizeReturn ==
    rets' = IF fread # <<>> /\ fread' = <<>>
            THEN [rets EXCEPT ![fread.thread] = Append(@, cur[fread.thread])]
            ELSE rets

\* The SyncWait event of waiter w with wait number n.
WaitEvent(w, n) ==
    CHOOSE i \in DOMAIN sync : /\ sync[i].kind = "wait"
                              /\ sync[i].thread = w /\ sync[i].wait = n

\* The thread whose wait OCall is at insert_event, if any.
Recording(t) == pc[t] = "w_event" /\ pc'[t] = "w_block"

\* sync_wait_insert (the only step that adds to waits) publishes the new
\* EnclaveSyncWaitEvent of t's current_call in tcs_map; sync_wait_event
\* then inserts it, which keeps it unless finalize has begun in between.
\* sync_set_wake (the only step that adds to pairs) inserts the
\* EnclaveSyncSetEvent naming the wait event it found (wait is the wait
\* number of a wait event, the index in sync of the wait event a set event
\* names).  An event made once finalized is set is dropped and never
\* written: a wait published then can only be found by a set made after
\* it, dropped too.
InsertSyncEvent ==
    sync' = IF waits' # waits /\ ~finalized
            THEN LET t == CHOOSE t \in Threads : waits'[t] # waits[t] IN
                 Append(sync, [kind |-> "wait", thread |-> t, ocall |-> cur[t],
                               wait |-> waits'[t], kept |-> FALSE])
            ELSE IF \E t \in Threads : Recording(t)
            THEN LET t == CHOOSE t \in Threads : Recording(t)
                     own == {i \in DOMAIN sync : /\ sync[i].kind = "wait"
                                                 /\ sync[i].thread = t
                                                 /\ sync[i].wait = waits[t]}
                 IN [i \in DOMAIN sync |->
                       IF i \in own THEN [sync[i] EXCEPT !.kept = ~finalized]
                       ELSE sync[i]]
            ELSE IF pairs' # pairs /\ ~finalized
            THEN LET t == CHOOSE t \in Threads : pc[t] = "s_wake"
                                                /\ pc'[t] # "s_wake"
                     p == Last(pairs')
                 IN Append(sync, [kind |-> "set", thread |-> t, ocall |-> cur[t],
                                  wait |-> WaitEvent(p.waiter, p.wait),
                                  kept |-> TRUE])
            ELSE sync

SNext == Next /\ InsertCallEvent /\ PushFinalizeReturn /\ InsertSyncEvent

SSpec == SInit /\ [][SNext]_svars

-----------------------------------------------------------------------------
(* create_summary writes each thread's queue into the events table.  A    *)
(* row holds the event (<<"call", c>> or <<"ret", c>>), its                *)
(* involved_thread (NoThread is UINT64_MAX, bound as -1; Kept the id of    *)
(* the thread whose queue kept the event) and its call_event column: the  *)
(* sql_id of the event it refers to (Unbound is UINT64_MAX, the id of one *)
(* without a row yet; NULL when nothing is bound).  A row's sql_id is its *)
(* index.                                                                  *)
(*                                                                         *)
(* A queue holds, in order, the calls, returns and sync events            *)
(* insert_event kept and then the return events finalize pushed.  The      *)
(* model walks the kept calls of all threads in creation order (they are   *)
(* calls 1..n: finalized is never reset), then each thread's sync events   *)
(* and rets.  A call's previous_call, and a sync event's OCall, is an      *)
(* earlier call of the same thread, kept if the event is, so every row     *)
(* refers to the same row it would with the queues taken thread by thread. *)
(* The one reference across queues, a set event's wait event, is walked    *)
(* in the thread order ord, as create_summary does.                        *)
(* The return events insert_event kept are left out: each refers to a      *)
(* kept call queued before it, so its row has a real thread and a resolved *)
(* call_event whatever happens.  Only sql_ids differ, and no property      *)
(* reads them.                                                             *)

NoThread == "UINT64_MAX"
Kept == "thread id"
Unbound == -1
NULL == 0

\* Event::thread_id: set by insert_event only; finalize's return events
\* copy their call's.
ThreadId(c) == IF kept[c] THEN Kept ELSE NoThread

\* get_sql_id() of the event o: its row, or UINT64_MAX before it has one.
SqlId(db, o) ==
    IF \E i \in DOMAIN db : db[i].obj = o
    THEN CHOOSE i \in DOMAIN db : db[i].obj = o ELSE Unbound

\* Event::sql_bind with EnclaveCallEvent::add_binds: call_event is bound
\* only when there is a previous_call, to its sql_id as it is now.
CallRow(db, c) ==
    [obj |-> <<"call", c>>, thread |-> ThreadId(c),
     ref |-> IF calls[c].prev = NoCall THEN NULL
             ELSE SqlId(db, <<"call", calls[c].prev>>),
     arg |-> NULL]

RECURSIVE InsertCall(_, _), PreInsertCall(_, _)

\* Mutant: EnclaveCallEvent has no pre_insert of its own.
PreInsertCallMissing(db, c) == db

\* EnclaveCallEvent::pre_insert: a previous_call without an sql_id is
\* pre-inserted and inserted first.
PreInsertCall(db, c) ==
    IF calls[c].prev # NoCall /\ SqlId(db, <<"call", calls[c].prev>>) = Unbound
    THEN InsertCall(db, calls[c].prev) ELSE db

\* pre_insert, then sql_bind, sqlite3_step and set_sql_id.
InsertCall(db, c) ==
    LET d == PreInsertCall(db, c) IN Append(d, CallRow(d, c))

\* The pre_insert step of an event that refers to call c: c is
\* pre-inserted and inserted first when it has no sql_id.
WithCall(db, c) ==
    IF SqlId(db, <<"call", c>>) = Unbound THEN InsertCall(db, c) ELSE db

\* A sync event's row: call_event is its OCall's sql_id, and a set event's
\* arg the sql_id of the wait event it names.
SyncRow(db, i) ==
    [obj |-> <<"sync", i>>, thread |-> IF sync[i].kept THEN Kept ELSE NoThread,
     ref |-> SqlId(db, <<"call", sync[i].ocall>>),
     arg |-> IF sync[i].kind = "set"
             THEN SqlId(db, <<"sync", sync[i].wait>>) ELSE NULL]

RECURSIVE InsertSync(_, _), SyncPreInsert(_, _)

SyncPreInsert(db, i) ==
    LET d == WithCall(db, sync[i].ocall) IN
    IF sync[i].kind = "set" /\ SqlId(d, <<"sync", sync[i].wait>>) = Unbound
    THEN InsertSync(d, sync[i].wait) ELSE d

InsertSync(db, i) ==
    LET d == SyncPreInsert(db, i) IN Append(d, SyncRow(d, i))

\* One event of a queue: e->pre_insert, then the insertion if it has no
\* sql_id yet.  A return event's pre_insert inserts its call when that has
\* no row, and its call_event is that call's sql_id.
InsertEvent(db, e) ==
    LET c == e[2] IN
    CASE e[1] = "call" ->
           IF SqlId(db, e) = Unbound THEN InsertCall(db, c) ELSE db
      [] e[1] = "sync" ->
           LET d == SyncPreInsert(db, c) IN
           IF SqlId(d, e) = Unbound THEN Append(d, SyncRow(d, c)) ELSE d
      [] e[1] = "ret" ->
           LET d == WithCall(db, c) IN
           Append(d, [obj |-> e, thread |-> ThreadId(c),
                      ref |-> SqlId(d, <<"call", c>>), arg |-> NULL])

\* The kept calls, in creation order.
KeptCalls ==
    [i \in 1..Cardinality({c \in DOMAIN kept : kept[c]}) |-> <<"call", i>>]

\* The return events finalize pushed onto thread t's queue.
FinalizeReturns(t) == [i \in DOMAIN rets[t] |-> <<"ret", rets[t][i]>>]

\* The sync events insert_event kept on thread t's queue, in order.
SyncEvents(t) ==
    LET own == SelectSeq([i \in DOMAIN sync |-> i],
                         LAMBDA i : sync[i].thread = t /\ sync[i].kept)
    IN [k \in DOMAIN own |-> <<"sync", own[k]>>]

\* The events rows written when finished_thread_events holds the threads in
\* the order ord (the order of thread_events, a map keyed by pthread_t).
Summary(ord) ==
    FoldLeft(InsertEvent, <<>>,
             KeptCalls \o FlattenSeq([i \in DOMAIN ord |->
                                        SyncEvents(ord[i]) \o FinalizeReturns(ord[i])]))

-----------------------------------------------------------------------------
(* analyze_synchro (src/analyzer/src/synchro.cpp) reads the summary with  *)
(* one query: each SyncWait row, inner-joined with its OCall row and that *)
(* OCall's ECall row, left-joined with every row whose arg is the wait's  *)
(* id and that row's OCall row.  wait_event_callback turns each result    *)
(* row into a sync_event_t; has_set is whether the set's OCall row joined. *)

\* The rows of a kind of sync event.
SyncRows(db, k) ==
    {i \in DOMAIN db : db[i].obj[1] = "sync" /\ sync[db[i].obj[2]].kind = k}

\* sync_events: one record per result row, naming the wait row.
SyncQuery(db) ==
    LET joined == {w \in SyncRows(db, "wait") :
                     db[w].ref \in DOMAIN db /\ db[db[w].ref].ref \in DOMAIN db}
        setters(w) == {s \in DOMAIN db : db[s].arg = w}
        rows(w) == IF setters(w) = {}
                   THEN {[wait |-> w, set |-> NULL, has_set |-> FALSE]}
                   ELSE {[wait |-> w, set |-> s, has_set |-> db[s].ref \in DOMAIN db] :
                           s \in setters(w)}
    IN UNION {rows(w) : w \in joined}

-----------------------------------------------------------------------------
(* Properties.                                                             *)

\* Every call_event and arg column of the summary names the row of the
\* event it refers to: a call's previous_call, a return's call, a sync
\* event's OCall and a set event's wait event.  create_summary inserts
\* events in queue order, so this rests on the pre_insert recursions: a
\* return event finalize pushed needs a whole chain of calls that were
\* never queued (made after finalize), and a set event the wait event on
\* another thread's queue.
SummaryLinksResolve ==
    written =>
      \A ord \in SetToSeqs(Threads) :
         LET db == Summary(ord)
             Link(o) == IF o = <<>> THEN NULL ELSE SqlId(db, o)
         IN
         \A i \in DOMAIN db :
            LET o == db[i].obj
                s == sync[o[2]]
                target == CASE o[1] = "ret" -> <<"call", o[2]>>
                            [] o[1] = "sync" -> <<"call", s.ocall>>
                            [] calls[o[2]].prev = NoCall -> <<>>
                            [] OTHER -> <<"call", calls[o[2]].prev>>
                named == IF o[1] = "sync" /\ s.kind = "set"
                         THEN <<"sync", s.wait>> ELSE <<>>
            IN /\ db[i].ref # Unbound /\ db[i].ref = Link(target)
               /\ db[i].arg # Unbound /\ db[i].arg = Link(named)

SummaryRowsHaveThread ==
    written =>
      \A ord \in SetToSeqs(Threads) :
         \A r \in ToSet(Summary(ord)) : r.thread # NoThread
=============================================================================
