----------------------------- MODULE CallTrace -----------------------------
(***************************************************************************)
(* The logger's recording of enclave calls, per thread.                    *)
(*                                                                         *)
(* sgx_ecall and __ocall_bridge (src/logger/src/urts_calls.cpp) record a   *)
(* call event whose previous_call is the thread's current_call, make it    *)
(* the current call, run the real call, record the return event and pop    *)
(* current_call back to previous_call.  EventStore::finalize               *)
(* (src/logger/src/store.cpp) closes every call still open at exit with a  *)
(* return event stamped end_time and stops accepting events.               *)
(*                                                                         *)
(* trace[t] is the sequence of calls of thread t in the order their call   *)
(* events were inserted, i.e. in start-time order: exactly the rows the    *)
(* analyzer later reads for t with "order by s.involved_thread, s.time".   *)
(* current[t] is the current_call chain as a stack of positions in         *)
(* trace[t].  Time is per thread: the analyzer only compares times of one  *)
(* thread, and each thread sees CLOCK_MONOTONIC_RAW advance by a gap drawn *)
(* from Gaps at every event.                                               *)
(***************************************************************************)
EXTENDS Integers, Sequences, SequencesExt

CONSTANTS
    Threads,      \* thread ids (the analyzer's threads.id), integers
    Enclaves,     \* enclave ids
    NumECalls,    \* [Enclaves -> Nat]: size of each enclave's ECall table
    NumOCalls,    \* [Enclaves -> Nat]: size of each enclave's OCall table
    MaxCalls,     \* bound: calls recorded per thread
    Gaps,         \* nanoseconds the clock may advance between two events
    NoParent      \* previous_call == nullptr

VARIABLES clock, current, trace, finalized

vars == <<clock, current, trace, finalized>>

ECALL == "ECALL"
OCALL == "OCALL"

\* An EnclaveECallEvent / EnclaveOCallEvent joined with its return event.
\* end = -1 while no return event exists.
CallRec == [id: Threads \X Nat, kind: {ECALL, OCALL}, eid: Enclaves,
            cid: Nat, parent: (Threads \X Nat) \cup {NoParent},
            start: Nat, end: Nat \cup {-1}]

TypeOK ==
    /\ clock \in [Threads -> Nat]
    /\ current \in [Threads -> Seq(Nat)]
    /\ trace \in [Threads -> Seq(CallRec)]
    /\ finalized \in BOOLEAN

Init ==
    /\ clock = [t \in Threads |-> 0]
    /\ current = [t \in Threads |-> <<>>]
    /\ trace = [t \in Threads |-> <<>>]
    /\ finalized = FALSE

\* Every OCall id of some enclave's table.
OCallIds == UNION {0..(NumOCalls[e] - 1) : e \in Enclaves}

\* The record on top of thread t's current_call chain.
Top(t) == trace[t][Last(current[t])]

\* The event id of current_call, the new event's previous_call.
PreviousCall(t) == IF current[t] = <<>> THEN NoParent ELSE Top(t).id

\* Record a call event and make it current_call (insert_event; the
\* assignment t->current_call = ecall / ocall).
EnterCall(t, kind, e, cid) ==
    /\ ~finalized
    /\ Len(trace[t]) < MaxCalls
    /\ \E g \in Gaps : clock' = [clock EXCEPT ![t] = @ + g]
    /\ trace' = [trace EXCEPT ![t] = Append(@,
                   [id |-> <<t, Len(@) + 1>>, kind |-> kind, eid |-> e,
                    cid |-> cid, parent |-> PreviousCall(t),
                    start |-> clock'[t], end |-> -1])]
    /\ current' = [current EXCEPT ![t] = Append(@, Len(trace[t]) + 1)]
    /\ UNCHANGED finalized

\* Record the return event of current_call and pop to previous_call.
ReturnCall(t, kind) ==
    /\ ~finalized
    /\ current[t] # <<>>
    /\ Top(t).kind = kind
    /\ \E g \in Gaps : clock' = [clock EXCEPT ![t] = @ + g]
    /\ trace' = [trace EXCEPT ![t][Last(current[t])].end = clock'[t]]
    /\ current' = [current EXCEPT ![t] = Front(@)]
    /\ UNCHANGED finalized

\* sgx_ecall, up to real_sgx_ecall: untrusted code calls enclave e, either
\* at top level or from inside an OCall handler.
sgx_ecall(t, e, cid) ==
    /\ \/ current[t] = <<>>
       \/ current[t] # <<>> /\ Top(t).kind = OCALL
    /\ EnterCall(t, ECALL, e, cid)

\* sgx_ecall after real_sgx_ecall returns.
sgx_ecall_return(t) == ReturnCall(t, ECALL)

\* __ocall_bridge up to bridge(arg): the enclave running the current ECall
\* performs OCall cid of its own table.
ocall_bridge(t, cid) ==
    /\ current[t] # <<>>
    /\ Top(t).kind = ECALL
    /\ cid < NumOCalls[Top(t).eid]
    /\ EnterCall(t, OCALL, Top(t).eid, cid)

\* __ocall_bridge after bridge(arg) returns.
ocall_bridge_return(t) == ReturnCall(t, OCALL)

\* EventStore::finalize: every open call of every thread is closed with a
\* return event at end_time; later events are dropped by insert_event.
finalize ==
    /\ ~finalized
    /\ \E g \in Gaps :
         /\ clock' = [t \in Threads |-> clock[t] + g]
         /\ trace' = [t \in Threads |->
               [i \in 1..Len(trace[t]) |->
                  IF trace[t][i].end = -1
                  THEN [trace[t][i] EXCEPT !.end = clock'[t]]
                  ELSE trace[t][i]]]
    /\ current' = [t \in Threads |-> <<>>]
    /\ finalized' = TRUE

Next ==
    \/ \E t \in Threads, e \in Enclaves :
          \E cid \in 0..(NumECalls[e] - 1) : sgx_ecall(t, e, cid)
    \/ \E t \in Threads : sgx_ecall_return(t)
    \/ \E t \in Threads, cid \in OCallIds : ocall_bridge(t, cid)
    \/ \E t \in Threads : ocall_bridge_return(t)
    \/ finalize

Spec == Init /\ [][Next]_vars
=============================================================================
