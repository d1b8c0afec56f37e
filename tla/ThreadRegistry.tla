--------------------------- MODULE ThreadRegistry ---------------------------
(***************************************************************************)
(* The logger's registry of threads: EventStore::insert_event              *)
(* (src/logger/src/store.cpp) with the events of src/logger/src/           *)
(* libc_calls.cpp, and EventStore::finalize.                               *)
(*                                                                         *)
(* thread_events maps a pthread to the sql_id of its Thread object.        *)
(* objects[i + 1] is the pthread of the Thread object with sql_id i, one   *)
(* per "new Thread(..., __sync_fetch_and_add(&thread_id, 1))", inserted in *)
(* the map or not.  finished is finished_thread_events, the list           *)
(* write_summary serialises.  current[t] is t's thread-local current_thread *)
(* (Null while unset).                                                     *)
(*                                                                         *)
(* insert_event is split where it releases thread_events_lock: a lookup    *)
(* under the read lock, an insert under the write lock after the read lock *)
(* was dropped, and the erase of ThreadDestructionEvent.  Each locked      *)
(* section is one step; TicketRWLock shows the lock excludes writers.      *)
(* Of t's event only what insert_event reads and writes is kept in evt[t]: *)
(* its kind, the other pthread and the other_thread id it binds.  Every    *)
(* event of t goes to current[t].                                          *)
(***************************************************************************)
EXTENDS Integers, Sequences, Functions, SequencesExt, TLC

CONSTANTS
    Threads,   \* pthread ids
    Main,      \* the thread that loaded the logger
    Parent     \* [Threads \ {Main} -> Threads]: who calls pthread_create

VARIABLES thread_events, objects, finished, current, finalized, pc, evt

vars == <<thread_events, objects, finished, current, finalized, pc, evt>>

Null == -1

Kinds == {"creation", "creator", "destruction", "setname", "other"}

PCs == {"unstarted", "body", "self", "self_insert", "other", "other_insert",
        "lookup", "erase", "exited", "aborted"}

\* A ThreadEvent (creation, creator, destruction, set-name) as constructed:
\* other_thread is a pthread and other_thread_id is UINT64_MAX, which its
\* add_binds writes as -1 until insert_event sets it.  The arguments,
\* start functions, return values and names the subclasses bind are left
\* out.  Kind "other" is an event that is not a ThreadEvent.  then is where
\* the calling code continues.
NewThreadEvent(kind, other, then) ==
    [kind |-> kind, other |-> other, other_id |-> Null, then |-> then]

TypeOK ==
    /\ \E D \in SUBSET Threads : thread_events \in [D -> Nat]
    /\ objects \in Seq(Threads)
    /\ finished \in Seq(Nat)
    /\ current \in [Threads -> Nat \cup {Null}]
    /\ finalized \in BOOLEAN
    /\ pc \in [Threads -> PCs]
    /\ evt \in [Threads -> [kind : Kinds, other : Threads,
                            other_id : Nat \cup {Null},
                            then : {"body", "exited"}]]

\* The EventStore constructor's ThreadCreationEvent(pthread_self()) registers
\* Main as Thread 0; no other thread has started.
Init ==
    /\ thread_events = (Main :> 0)
    /\ objects = <<Main>>
    /\ finished = <<>>
    /\ current = [t \in Threads |-> IF t = Main THEN 0 ELSE Null]
    /\ finalized = FALSE
    /\ pc = [t \in Threads |-> IF t = Main THEN "body" ELSE "unstarted"]
    /\ evt = [t \in Threads |-> NewThreadEvent("other", t, "body")]

Aborted == \A t \in Threads : pc[t] = "aborted"

\* Begin insert_event(t, event) of the given kind; afterwards t goes to then.
Insert(t, kind, other, then) ==
    /\ pc' = [pc EXCEPT ![t] = "self"]
    /\ evt' = [evt EXCEPT ![t] = NewThreadEvent(kind, other, then)]

Return(t) == pc' = [pc EXCEPT ![t] = evt[t].then]

\* Mutant: "thread_events[p] = new Thread(...)", replacing an existing entry.
InsertThreadOverwrite(p) ==
    /\ objects' = Append(objects, p)
    /\ thread_events' = (p :> Len(objects)) @@ thread_events

\* Mutant: the pair inserted is built from the thread-local current_thread,
\* still nullptr for a thread that is not registered, not the new Thread.
InsertThreadCurrent(p) ==
    /\ objects' = Append(objects, p)
    /\ thread_events' = IF p \in DOMAIN thread_events THEN thread_events
                        ELSE (p :> current[p]) @@ thread_events

\* thread_events.insert of a new Thread for p: thread_id is taken first, and
\* insert keeps an existing entry.
InsertThread(p) ==
    /\ objects' = Append(objects, p)
    /\ thread_events' = IF p \in DOMAIN thread_events THEN thread_events
                        ELSE (p :> Len(objects)) @@ thread_events

-----------------------------------------------------------------------------
(* insert_event                                                            *)

\* "if (finalized) return;" and the lookup of current_thread: the TLS
\* cache, else thread_events.find under the read lock.
insert_event(t) ==
    /\ pc[t] = "self"
    /\ \/ finalized /\ Return(t) /\ UNCHANGED current
       \/ ~finalized /\ current[t] # Null
          /\ pc' = [pc EXCEPT ![t] = "other"] /\ UNCHANGED current
       \/ ~finalized /\ current[t] = Null /\ t \in DOMAIN thread_events
          /\ current' = [current EXCEPT ![t] = thread_events[t]]
          /\ pc' = [pc EXCEPT ![t] = "other"]
       \/ ~finalized /\ current[t] = Null /\ t \notin DOMAIN thread_events
          /\ pc' = [pc EXCEPT ![t] = "self_insert"] /\ UNCHANGED current
    /\ UNCHANGED <<thread_events, objects, finished, finalized, evt>>

\* read_unlock; write_lock; insert; current_thread = it->second.
insert_event_self(t) ==
    /\ pc[t] = "self_insert"
    /\ InsertThread(t)
    /\ current' = [current EXCEPT ![t] = thread_events'[t]]
    /\ pc' = [pc EXCEPT ![t] = "other"]
    /\ UNCHANGED <<finished, finalized, evt>>

\* The event is pushed to current_thread.  A ThreadCreatorEvent then looks
\* its new thread up under the read lock.
insert_event_other(t) ==
    /\ pc[t] = "other"
    /\ \/ evt[t].kind = "other" /\ Return(t)
       \/ evt[t].kind = "creator" /\ evt[t].other \in DOMAIN thread_events
          /\ pc' = [pc EXCEPT ![t] = "lookup"]
       \/ evt[t].kind = "creator" /\ evt[t].other \notin DOMAIN thread_events
          /\ pc' = [pc EXCEPT ![t] = "other_insert"]
       \/ evt[t].kind \in {"creation", "destruction", "setname"}
          /\ pc' = [pc EXCEPT ![t] = "lookup"]
    /\ UNCHANGED <<thread_events, objects, finished, current, finalized, evt>>

\* ThreadCreatorEvent: read_unlock; write_lock; insert the new thread.
insert_event_creator(t) ==
    /\ pc[t] = "other_insert"
    /\ InsertThread(evt[t].other)
    /\ pc' = [pc EXCEPT ![t] = "lookup"]
    /\ UNCHANGED <<finished, current, finalized, evt>>

\* Mutant: the event binds the involved thread's id, not the other's.
setOtherThreadIDInvolved(t) ==
    evt' = [evt EXCEPT ![t].other_id = current[t]]

\* othread = oit->second; tevent->setOtherThreadID(othread->sql_id).
setOtherThreadID(t) ==
    evt' = [evt EXCEPT ![t].other_id = thread_events[evt[t].other]]

\* Every ThreadEvent (creation, creator, destruction, set-name) looks the other thread
\* up under the read lock.  When it is missing, the code throws
\* std::exception, which nothing catches: std::terminate ends every thread.
insert_event_thread(t) ==
    /\ pc[t] = "lookup"
    /\ \/ evt[t].other \notin DOMAIN thread_events
          /\ pc' = [x \in Threads |-> "aborted"]
          /\ UNCHANGED evt
       \/ evt[t].other \in DOMAIN thread_events /\ setOtherThreadID(t)
          /\ \/ evt[t].kind = "destruction" /\ pc' = [pc EXCEPT ![t] = "erase"]
             \/ evt[t].kind # "destruction" /\ Return(t)
    /\ UNCHANGED <<thread_events, objects, finished, current, finalized>>

\* ThreadDestructionEvent: erase under the write lock and keep the Thread.
insert_event_erase(t) ==
    /\ pc[t] = "erase"
    /\ thread_events' = Restrict(thread_events, DOMAIN thread_events \ {t})
    /\ finished' = Append(finished, current[t])
    /\ Return(t)
    /\ UNCHANGED <<objects, current, finalized, evt>>

-----------------------------------------------------------------------------
(* The intercepted calls of libc_calls.cpp and finalize.                   *)

\* pthread_create: real_pthread_create starts c in intercepter_thread_start,
\* which inserts ThreadCreationEvent(creator); then the creator inserts its
\* ThreadCreatorEvent.
pthread_create(t, c) ==
    /\ pc[t] = "body" /\ pc[c] = "unstarted" /\ Parent[c] = t
    /\ pc' = [pc EXCEPT ![t] = "self", ![c] = "self"]
    /\ evt' = [evt EXCEPT
                 ![t] = NewThreadEvent("creator", c, "body"),
                 ![c] = NewThreadEvent("creation", t, "body")]
    /\ UNCHANGED <<thread_events, objects, finished, current, finalized>>

\* Any other intercepted call of t that does not read get_thread (an
\* enclave creation or destruction, a paging event, ...).
enclave_event(t) ==
    /\ pc[t] = "body"
    /\ Insert(t, "other", t, "body")
    /\ UNCHANGED <<thread_events, objects, finished, current, finalized>>

\* get_thread: current_thread, else thread_events.find(pthread_self()) under
\* the read lock, cached when found and nullptr when not.
get_thread(t) ==
    IF current[t] # Null \/ t \notin DOMAIN thread_events THEN current[t]
    ELSE thread_events[t]

\* sgx_ecall: "t = event_store->get_thread(); t->last_enclave = encl;"
\* and then insert_event of the EnclaveECallEvent.  A thread whose every
\* insert_event so far returned at "if (finalized)" has no current_thread
\* and, the map being cleared, get_thread returns nullptr: the store through
\* it faults, and the process ends.
sgx_ecall(t) ==
    /\ pc[t] = "body"
    /\ current' = [current EXCEPT ![t] = get_thread(t)]
    /\ \/ get_thread(t) # Null /\ Insert(t, "other", t, "body")
       \/ get_thread(t) = Null /\ pc' = [x \in Threads |-> "aborted"]
          /\ UNCHANGED evt
    /\ UNCHANGED <<thread_events, objects, finished, finalized>>

\* pthread_setname_np(o, name) inserts ThreadSetNameEvent(o) before the real
\* call.  t names itself or a thread it created, which may have returned
\* from its start function but not been joined yet.
pthread_setname_np(t, o) ==
    /\ pc[t] = "body"
    /\ o = t \/ (o # Main /\ Parent[o] = t /\ pc[o] # "unstarted")
    /\ Insert(t, "setname", o, "body")
    /\ UNCHANGED <<thread_events, objects, finished, current, finalized>>

\* intercepter_thread_start after orig_start returns:
\* ThreadDestructionEvent(creator_thread).  Main never passes here.
thread_exit(t) ==
    /\ t # Main /\ pc[t] = "body"
    /\ Insert(t, "destruction", Parent[t], "exited")
    /\ UNCHANGED <<thread_events, objects, finished, current, finalized>>

\* EventStore::finalize, from the destructor or the signal handler while
\* other threads may still run: no lock is taken.  Every registered Thread
\* is appended to finished_thread_events and the map is cleared.
finalize ==
    /\ ~finalized /\ ~Aborted
    /\ finalized' = TRUE
    /\ finished' = finished \o SetToSeq(Range(thread_events))
    /\ thread_events' = [p \in {} |-> 0]
    /\ UNCHANGED <<objects, current, pc, evt>>

Next ==
    \/ \E t \in Threads :
          \/ insert_event(t) \/ insert_event_self(t) \/ insert_event_other(t)
          \/ insert_event_creator(t) \/ insert_event_thread(t)
          \/ insert_event_erase(t)
          \/ enclave_event(t) \/ sgx_ecall(t) \/ thread_exit(t)
          \/ \E c \in Threads : pthread_create(t, c) \/ pthread_setname_np(t, c)
    \/ finalize

Spec == Init /\ [][Next]_vars

-----------------------------------------------------------------------------
(* Properties.                                                             *)

\* While the logger records (before finalize), a running thread whose pthread
\* is registered writes its events into the Thread registered for it: when a thread's own first insert_event and its
\* creator's ThreadCreatorEvent both find it missing and both insert, the
\* second insert keeps the first Thread and current_thread is it->second.
ThreadObjectConsistent ==
    \A t \in Threads :
       /\ ~finalized
       /\ pc[t] \notin {"exited", "aborted"}
       /\ current[t] # Null
       /\ t \in DOMAIN thread_events
       => thread_events[t] = current[t]

\* While the logger records (before finalize), a ThreadEvent row links
\* the two threads' rows: once insert_event has set its other_thread id
\* (setOtherThreadID), that id is the sql_id of the very Thread into which
\* the other thread, while it runs, writes its own events (its
\* current_thread), whichever of the creator's ThreadCreatorEvent and the
\* created thread's first event inserted that Thread.  (A ThreadCreatorEvent
\* that comes after its thread has exited names a fresh Thread instead: the
\* second row OneRowPerThread reports.)
ThreadEventNamesOthersThread ==
    \A t \in Threads :
       LET e == evt[t]
       IN  /\ ~finalized
           /\ e.kind # "other" /\ e.other_id # Null
           /\ current[e.other] # Null /\ pc[e.other] # "exited"
           => e.other_id = current[e.other]

\* While the logger records (before finalize), insert_event never
\* terminates the process: every ThreadEvent finds the other thread in
\* thread_events (the FIXME at store.cpp:211).
NoLoggerAbort == ~finalized => ~Aborted

\* The threads write_summary serialises are distinct Thread objects of
\* distinct pthreads: one "threads" row per thread.  It serialises
\* finished_thread_events, to which finalize appends the registered ones.
OneRowPerThread ==
    LET rows == IF finalized THEN finished
                ELSE finished \o SetToSeq(Range(thread_events))
    IN  \A i, j \in DOMAIN rows :
           i # j => objects[rows[i] + 1] # objects[rows[j] + 1]
=============================================================================
