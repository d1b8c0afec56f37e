---------------------------- MODULE EnclaveCalls ----------------------------
(***************************************************************************)
(* The logger's interception of enclave calls (src/logger/src/            *)
(* urts_calls.cpp): sgx_create_enclave and sgx_destroy_enclave, sgx_ecall  *)
(* with its lazily built substitute OCall table, __ocall_bridge, and the   *)
(* two synchronisation OCalls with tcs_map; and EventStore::finalize       *)
(* (src/logger/src/store.cpp), which closes the calls every thread still   *)
(* has open while those threads run on.                                    *)
(*                                                                         *)
(* calls is the sequence of EnclaveCallEvents ever made: call i has a kind *)
(* and previous_call, its prev (NoCall is nullptr).  cur[t] is             *)
(* t->current_call.  frames[t] are the sgx_ecall and __ocall_bridge        *)
(* activations on t's native stack, with their locals: the call event,     *)
(* the enclave, and the ocall_table sgx_ecall passed to the enclave.       *)
(* A table is named by the thread that built it (NoTable is nullptr).     *)
(*                                                                         *)
(* The trusted side and the untrusted event of the SGX runtime (not in     *)
(* this repository) are the environment: in an ECall a thread may return,  *)
(* make an application OCall, or wait on or wake a thread through         *)
(* sgx_thread_cond; ev[t] is t's untrusted event, a counter that a wake    *)
(* increments and a wait decrements, blocking while it is 0.  queued[t]    *)
(* is t in a trusted condition queue, which only a waker dequeues.         *)
(*                                                                         *)
(* insert_event's own steps are ThreadRegistry's; here an event is         *)
(* recorded only through the state the properties read.                   *)
(***************************************************************************)
EXTENDS Integers, Sequences, SequencesExt

CONSTANTS
    Threads,    \* application threads, all registered with the logger
    Enclaves,   \* enclave ids
    MaxCalls    \* bound on the number of E/OCall events

NoCall == 0
NoTable == "nullptr"

VARIABLES
    emap,       \* enclave_map: state, orig_table set?, subst_ocall_table
    calls, cur, frames, pc,
    loc,        \* locals of the step in progress: eid, op, target, found
    tcs_map,    \* waiter -> its SyncWait event (a wait number), 0 if none
    waits,      \* number of SyncWait events each thread made
    pairs,      \* the EnclaveSyncSetEvents: waiter, the wait it names, and
                \* (history) the waiter's latest wait at that time
    ev, queued,
    finalized, fin, todo, fread, written

vars == <<emap, calls, cur, frames, pc, loc, tcs_map, waits, pairs, ev,
          queued, finalized, fin, todo, fread, written>>

Ops == {"app", "wait", "set"}

PCs == {"app", "e_orig", "e_subst", "e_enter", "enclave", "e_return",
        "o_enter", "o_return", "w_insert", "w_event", "w_block", "s_erase",
        "s_wake",
        "crashed"}

CallIds == 1..MaxCalls

TypeOK ==
    /\ emap \in [Enclaves -> [state : {"absent", "created", "destroyed"},
                              orig : BOOLEAN,
                              subst : Threads \cup {NoTable}]]
    /\ calls \in Seq([kind : {"ecall", "ocall"}, prev : {NoCall} \cup CallIds])
    /\ Len(calls) <= MaxCalls
    /\ cur \in [Threads -> {NoCall} \cup CallIds]
    /\ frames \in [Threads -> Seq([call : CallIds, eid : Enclaves,
                                   table : Threads \cup {NoTable}])]
    /\ pc \in [Threads -> PCs]
    /\ loc \in [Threads -> [eid : Enclaves, op : Ops, target : Threads,
                            found : Nat]]
    /\ tcs_map \in [Threads -> Nat]
    /\ waits \in [Threads -> Nat]
    /\ pairs \in Seq([waiter : Threads, wait : Nat, latest : Nat])
    /\ ev \in [Threads -> Nat]
    /\ queued \in [Threads -> BOOLEAN]
    /\ finalized \in BOOLEAN
    /\ fin \in {"recording", "unwinding", "writing", "exited"}
    /\ todo \subseteq Threads
    /\ fread \in [thread : Threads] \cup {<<>>}
    /\ written \in BOOLEAN

Init ==
    /\ emap = [e \in Enclaves |-> [state |-> "absent", orig |-> FALSE,
                                   subst |-> NoTable]]
    /\ calls = <<>>
    /\ cur = [t \in Threads |-> NoCall]
    /\ frames = [t \in Threads |-> <<>>]
    /\ pc = [t \in Threads |-> "app"]
    /\ loc = [t \in Threads |-> [eid |-> CHOOSE e \in Enclaves : TRUE,
                                 op |-> "app", target |-> t, found |-> 0]]
    /\ tcs_map = [t \in Threads |-> 0]
    /\ waits = [t \in Threads |-> 0]
    /\ pairs = <<>>
    /\ ev = [t \in Threads |-> 0]
    /\ queued = [t \in Threads |-> FALSE]
    /\ finalized = FALSE
    /\ fin = "recording"
    /\ todo = {}
    /\ fread = <<>>
    /\ written = FALSE

\* The process still runs: exit(0) after write_summary, or after a fault,
\* ends every thread.
Running == fin # "exited"

Goto(t, from, to) == pc[t] = from /\ pc' = [pc EXCEPT ![t] = to]

\* A fault in t: the signal handler finds the store finalized, so destroy()
\* returns at once and the handler calls exit(0).
Crash(t) ==
    /\ pc' = [pc EXCEPT ![t] = "crashed"]
    /\ fin' = "exited"
    /\ UNCHANGED <<emap, calls, cur, frames, loc, tcs_map, waits, pairs, ev,
                   queued, finalized, todo, fread, written>>

\* new E/OCallEvent(..., t->current_call) and t->current_call = it; the
\* model stops at MaxCalls events.
PushCall(t, kind, eid, table) ==
    /\ Len(calls) < MaxCalls
    /\ calls' = Append(calls, [kind |-> kind, prev |-> cur[t]])
    /\ cur' = [cur EXCEPT ![t] = Len(calls) + 1]
    /\ frames' = [frames EXCEPT ![t] = Append(@, [call |-> Len(calls) + 1,
                                                 eid |-> eid,
                                                 table |-> table])]

\* t->current_call = t->current_call->get_previous_call().
PopCall(t) ==
    /\ cur' = [cur EXCEPT ![t] = calls[cur[t]].prev]
    /\ frames' = [frames EXCEPT ![t] = Front(@)]

\* dynamic_cast<E/OCallEvent *>(c) != nullptr
IsCall(c, kind) == c # NoCall /\ calls[c].kind = kind

InOCall(t) == frames[t] # <<>> /\ calls[Last(frames[t]).call].kind = "ocall"

-----------------------------------------------------------------------------
(* sgx_create_enclave, sgx_destroy_enclave, sgx_ecall.                     *)

\* A successful creation stores a new Enclave, with no tables, in
\* enclave_map under the write lock (a failed one only records its event).
\* The application calls an enclave only after its creation returned.
sgx_create_enclave(t, e) ==
    /\ Running /\ pc[t] = "app" /\ emap[e].state = "absent"
    /\ emap' = [emap EXCEPT ![e].state = "created"]
    /\ UNCHANGED <<calls, cur, frames, pc, loc, tcs_map, waits, pairs, ev,
                   queued, finalized, fin, todo, fread, written>>

\* Sets destruction_time of the enclave_map entry; the application destroys
\* an enclave no thread is in and calls it no more.
sgx_destroy_enclave(t, e) ==
    /\ Running /\ pc[t] = "app" /\ emap[e].state = "created"
    /\ \A u \in Threads : \A i \in DOMAIN frames[u] : frames[u][i].eid # e
    /\ \A u \in Threads : pc[u] \in {"e_orig", "e_subst", "e_enter"} => loc[u].eid # e
    /\ emap' = [emap EXCEPT ![e].state = "destroyed"]
    /\ UNCHANGED <<calls, cur, frames, pc, loc, tcs_map, waits, pairs, ev,
                   queued, finalized, fin, todo, fread, written>>

\* sgx_ecall: encl = enclave_map[eid] under the read lock, then (FIXME:
\* "potential race") a table is built only when both pointers are null.
sgx_ecall(t, e) ==
    /\ Running /\ pc[t] = "app" /\ emap[e].state = "created"
    /\ loc' = [loc EXCEPT ![t].eid = e]
    /\ pc' = [pc EXCEPT ![t] = IF ~emap[e].orig /\ emap[e].subst = NoTable
                                THEN "e_orig" ELSE "e_enter"]
    /\ UNCHANGED <<emap, calls, cur, frames, tcs_map, waits, pairs, ev,
                   queued, finalized, fin, todo, fread, written>>

\* Mutant: the orig_table store is missing.
EcallSetOrigMissing(t) ==
    /\ Running /\ Goto(t, "e_orig", "e_subst")
    /\ UNCHANGED <<emap, calls, cur, frames, loc, tcs_map, waits, pairs, ev,
                   queued, finalized, fin, todo, fread, written>>

\* The new table and its bridges are built in local memory; then
\* encl->orig_table = ocall_table ...
ecall_set_orig(t) ==
    /\ Running /\ Goto(t, "e_orig", "e_subst")
    /\ emap' = [emap EXCEPT ![loc[t].eid].orig = TRUE]
    /\ UNCHANGED <<calls, cur, frames, loc, tcs_map, waits, pairs, ev,
                   queued, finalized, fin, todo, fread, written>>

\* Mutant: subst_ocall_table = ocall_table, the application's own table.
EcallSetSubstOrig(t) ==
    /\ Running /\ Goto(t, "e_subst", "e_enter")
    /\ emap' = [emap EXCEPT ![loc[t].eid].subst = "ocall_table"]
    /\ UNCHANGED <<calls, cur, frames, loc, tcs_map, waits, pairs, ev,
                   queued, finalized, fin, todo, fread, written>>

\* ... and encl->subst_ocall_table = new_table, overwriting any table
\* another thread stored meanwhile.
ecall_set_subst(t) ==
    /\ Running /\ Goto(t, "e_subst", "e_enter")
    /\ emap' = [emap EXCEPT ![loc[t].eid].subst = t]
    /\ UNCHANGED <<calls, cur, frames, loc, tcs_map, waits, pairs, ev,
                   queued, finalized, fin, todo, fread, written>>

\* ocall_table = encl->subst_ocall_table; get_thread(); the ECall event is
\* inserted and becomes current_call; real_sgx_ecall enters the enclave.
ecall_enter(t) ==
    /\ Running /\ Goto(t, "e_enter", "enclave")
    /\ PushCall(t, "ecall", loc[t].eid, emap[loc[t].eid].subst)
    /\ UNCHANGED <<emap, loc, tcs_map, waits, pairs, ev, queued, finalized,
                   fin, todo, fread, written>>

\* real_sgx_ecall returned: the return event reads
\* dynamic_cast<EnclaveECallEvent *>(t->current_call)->aex_counter, which
\* faults when current_call is null or no ECall; then current_call is
\* popped.
ecall_return(t) ==
    /\ Running /\ pc[t] = "e_return"
    /\ \/ ~IsCall(cur[t], "ecall") /\ Crash(t)
       \/ /\ IsCall(cur[t], "ecall")
          /\ PopCall(t)
          /\ pc' = [pc EXCEPT ![t] = "app"]
          /\ UNCHANGED <<emap, calls, loc, tcs_map, waits, pairs, ev, queued,
                         finalized, fin, todo, fread, written>>

\* The enclave returns from the ECall.
enclave_return(t) ==
    /\ Running /\ Goto(t, "enclave", "e_return")
    /\ UNCHANGED <<emap, calls, cur, frames, loc, tcs_map, waits, pairs, ev,
                   queued, finalized, fin, todo, fread, written>>

\* The enclave makes an OCall through the table it was given, which goes to
\* the generated bridge and so to __ocall_bridge: an application OCall, or
\* sgx_thread_cond waiting (t queues itself, then waits on its untrusted
\* event) or waking a queued thread w.  With a null table the runtime
\* refuses every OCall.
enclave_ocall(t, op, w) ==
    /\ Running /\ Goto(t, "enclave", "o_enter")
    /\ Last(frames[t]).table # NoTable
    /\ \/ op = "app" /\ w = t /\ UNCHANGED queued
       \/ op = "wait" /\ w = t /\ ~queued[t]
          /\ queued' = [queued EXCEPT ![t] = TRUE]
       \/ op = "set" /\ w # t /\ queued[w]
          /\ queued' = [queued EXCEPT ![w] = FALSE]
    /\ loc' = [loc EXCEPT ![t].op = op, ![t].target = w]
    /\ UNCHANGED <<emap, calls, cur, frames, tcs_map, waits, pairs, ev,
                   finalized, fin, todo, fread, written>>

-----------------------------------------------------------------------------
(* __ocall_bridge and the synchronisation OCalls.                          *)

\* The bridge reads enclave_map[eid]->orig_table->table[ocall_id] under the
\* read lock (BridgeFindsOrigTable: never null); get_thread(); the OCall
\* event is inserted and becomes current_call; the original OCall runs.
ocall_bridge(t) ==
    /\ Running /\ pc[t] = "o_enter"
    /\ PushCall(t, "ocall", Last(frames[t]).eid, Last(frames[t]).table)
    /\ pc' = [pc EXCEPT ![t] = CASE loc[t].op = "app" -> "app"
                                 [] loc[t].op = "wait" -> "w_insert"
                                 [] loc[t].op = "set" -> "s_erase"]
    /\ UNCHANGED <<emap, loc, tcs_map, waits, pairs, ev, queued, finalized,
                   fin, todo, fread, written>>

\* The application's OCall function returns to the bridge.
ocall_app_return(t) ==
    /\ Running /\ pc[t] = "app" /\ InOCall(t)
    /\ pc' = [pc EXCEPT ![t] = "o_return"]
    /\ UNCHANGED <<emap, calls, cur, frames, loc, tcs_map, waits, pairs, ev,
                   queued, finalized, fin, todo, fread, written>>

\* Mutant: current_call is not restored after the OCall.
OcallReturnNoPop(t) ==
    /\ Running /\ pc[t] = "o_return"
    /\ \/ cur[t] = NoCall /\ Crash(t)
       \/ /\ cur[t] # NoCall
          /\ frames' = [frames EXCEPT ![t] = Front(@)]
          /\ pc' = [pc EXCEPT ![t] = "enclave"]
          /\ UNCHANGED <<emap, calls, cur, loc, tcs_map, waits, pairs, ev,
                         queued, finalized, fin, todo, fread, written>>

\* The return event is inserted and current_call popped, which faults when
\* current_call is null; back in the enclave.
ocall_return(t) ==
    /\ Running /\ pc[t] = "o_return"
    /\ \/ cur[t] = NoCall /\ Crash(t)
       \/ /\ cur[t] # NoCall
          /\ PopCall(t)
          /\ pc' = [pc EXCEPT ![t] = "enclave"]
          /\ UNCHANGED <<emap, calls, loc, tcs_map, waits, pairs, ev, queued,
                         finalized, fin, todo, fread, written>>

\* sgx_thread_wait_untrusted_event_ocall: new EnclaveSyncWaitEvent of
\* current_call (ocall->get_eid() faults unless it is an OCall), then
\* tcs_map.insert(self, event) under the write lock, which keeps an entry
\* already there.  From here a waker can find the event.
sync_wait_insert(t) ==
    /\ Running /\ pc[t] = "w_insert"
    /\ \/ ~IsCall(cur[t], "ocall") /\ Crash(t)
       \/ /\ IsCall(cur[t], "ocall")
          /\ waits' = [waits EXCEPT ![t] = @ + 1]
          /\ tcs_map' = [tcs_map EXCEPT ![t] = IF @ = 0 THEN waits'[t] ELSE @]
          /\ pc' = [pc EXCEPT ![t] = "w_event"]
          /\ UNCHANGED <<emap, calls, cur, frames, loc, pairs, ev, queued,
                         finalized, fin, todo, fread, written>>

\* insert_event(event) after write_unlock: the store records the wait
\* event, or drops it if finalize has begun since it was published.
sync_wait_event(t) ==
    /\ Running /\ Goto(t, "w_event", "w_block")
    /\ UNCHANGED <<emap, calls, cur, frames, loc, tcs_map, waits, pairs, ev,
                   queued, finalized, fin, todo, fread, written>>

\* real_sgx_thread_wait_untrusted_event_ocall: returns once the event has
\* been set, consuming the wake.
sync_wait_block(t) ==
    /\ Running /\ Goto(t, "w_block", "o_return")
    /\ ev[t] > 0
    /\ ev' = [ev EXCEPT ![t] = @ - 1]
    /\ UNCHANGED <<emap, calls, cur, frames, loc, tcs_map, waits, pairs,
                   queued, finalized, fin, todo, fread, written>>

\* sgx_thread_set_untrusted_event_ocall: under the write lock, find the
\* waiter's entry in tcs_map and erase it.
sync_set_erase(t) ==
    /\ Running /\ Goto(t, "s_erase", "s_wake")
    /\ loc' = [loc EXCEPT ![t].found = tcs_map[loc[t].target]]
    /\ tcs_map' = [tcs_map EXCEPT ![loc[t].target] = 0]
    /\ UNCHANGED <<emap, calls, cur, frames, waits, pairs, ev, queued,
                   finalized, fin, todo, fread, written>>

\* With an entry found, an EnclaveSyncSetEvent names that wait event; then
\* real_sgx_thread_set_untrusted_event_ocall sets the waiter's event.
sync_set_wake(t) ==
    /\ Running /\ Goto(t, "s_wake", "o_return")
    /\ LET w == loc[t].target IN
       /\ pairs' = IF loc[t].found = 0 THEN pairs
                   ELSE Append(pairs, [waiter |-> w, wait |-> loc[t].found,
                                       latest |-> waits[w]])
       /\ ev' = [ev EXCEPT ![w] = @ + 1]
    /\ loc' = [loc EXCEPT ![t].found = 0]
    /\ UNCHANGED <<emap, calls, cur, frames, tcs_map, waits, queued,
                   finalized, fin, todo, fread, written>>

-----------------------------------------------------------------------------
(* destroy(): EventStore::finalize, then write_summary and exit, run by a *)
(* signal handler or the library destructor while the threads run on.     *)

\* finalized = true; the loop over thread_events begins.
finalize ==
    /\ fin = "recording"
    /\ finalized' = TRUE
    /\ fin' = "unwinding"
    /\ todo' = Threads
    /\ UNCHANGED <<emap, calls, cur, frames, pc, loc, tcs_map, waits, pairs,
                   ev, queued, fread, written>>

\* "while (thread->current_call != nullptr)": reads a thread's
\* current_call, and moves on to the next thread when it is null.
finalize_read(x) ==
    /\ fin = "unwinding" /\ x \in todo /\ fread = <<>>
    /\ \/ cur[x] = NoCall /\ todo' = todo \ {x} /\ UNCHANGED fread
       \/ cur[x] # NoCall /\ fread' = [thread |-> x]
          /\ UNCHANGED todo
    /\ UNCHANGED <<emap, calls, cur, frames, pc, loc, tcs_map, waits, pairs,
                   ev, queued, finalized, fin, written>>

\* A return event is pushed for the call read, and
\* thread->current_call = thread->current_call->get_previous_call(), which
\* reads current_call again.
finalize_pop ==
    /\ fin = "unwinding" /\ fread # <<>>
    /\ LET x == fread.thread IN
       /\ cur[x] # NoCall
       /\ cur' = [cur EXCEPT ![x] = calls[cur[x]].prev]
    /\ fread' = <<>>
    /\ UNCHANGED <<emap, calls, frames, pc, loc, tcs_map, waits, pairs, ev,
                   queued, finalized, fin, todo, written>>

\* The threads popped their own calls in between: the re-read
\* current_call is null, and thread->...->get_previous_call() faults.
finalize_pop_null ==
    /\ fin = "unwinding" /\ fread # <<>>
    /\ cur[fread.thread] = NoCall
    /\ fin' = "exited"
    /\ UNCHANGED <<emap, calls, cur, frames, pc, loc, tcs_map, waits, pairs,
                   ev, queued, finalized, todo, fread, written>>

\* thread_events.clear(); write_summary serialises the store.
finalize_done ==
    /\ fin = "unwinding" /\ todo = {} /\ fread = <<>>
    /\ fin' = "writing"
    /\ UNCHANGED <<emap, calls, cur, frames, pc, loc, tcs_map, waits, pairs,
                   ev, queued, finalized, todo, fread, written>>

\* write_summary has written out-<pid>.db; the handler calls exit(0).
write_summary ==
    /\ fin = "writing"
    /\ written' = TRUE
    /\ fin' = "exited"
    /\ UNCHANGED <<emap, calls, cur, frames, pc, loc, tcs_map, waits, pairs,
                   ev, queued, finalized, todo, fread>>

Next ==
    \/ \E t \in Threads :
          \/ ecall_set_orig(t) \/ ecall_set_subst(t) \/ ecall_enter(t)
          \/ enclave_return(t) \/ ecall_return(t) \/ ocall_bridge(t)
          \/ ocall_app_return(t) \/ ocall_return(t)
          \/ sync_wait_insert(t) \/ sync_wait_event(t) \/ sync_wait_block(t)
          \/ sync_set_erase(t) \/ sync_set_wake(t)
          \/ \E e \in Enclaves : sgx_create_enclave(t, e)
                                 \/ sgx_destroy_enclave(t, e)
                                 \/ sgx_ecall(t, e)
          \/ \E op \in Ops, w \in Threads : enclave_ocall(t, op, w)
          \/ finalize_read(t)
    \/ finalize \/ finalize_pop \/ finalize_pop_null \/ finalize_done
    \/ write_summary

Spec == Init /\ [][Next]_vars

-----------------------------------------------------------------------------
(* Properties.                                                             *)

\* While the logger records, each thread's current_call is the call of its
\* innermost sgx_ecall or __ocall_bridge activation, and following
\* previous_call from it visits the enclosing activations' calls in order:
\* the parent pointers the analyzer rebuilds call trees from match the
\* nesting of ECalls and OCalls, nested ECalls inside OCalls included.
CallStackConsistent ==
    fin = "recording" =>
      \A t \in Threads :
         LET f == frames[t] IN
         /\ cur[t] = IF f = <<>> THEN NoCall ELSE Last(f).call
         /\ \A i \in DOMAIN f :
               calls[f[i].call].prev = IF i = 1 THEN NoCall ELSE f[i - 1].call

\* __ocall_bridge never reads a null orig_table: sgx_ecall stores
\* orig_table before subst_ocall_table, so a thread that finds a table to
\* pass to the enclave also finds the original one, whichever of the racing
\* first ECalls stored them.
BridgeFindsOrigTable ==
    \A t \in Threads : pc[t] = "o_enter" => emap[Last(frames[t]).eid].orig

\* A process the logger ends by exit(0) has written its summary first:
\* destroy() finalizes the store, writes out-<pid>.db, and only then exits.
SummaryWritten == fin = "exited" => written

\* Every EnclaveSyncSetEvent names the SyncWait event of the wait it ends:
\* the waiter's latest sgx_thread_wait_untrusted_event_ocall.
SyncSetNamesLatestWait ==
    \A i \in DOMAIN pairs : pairs[i].wait = pairs[i].latest
=============================================================================
