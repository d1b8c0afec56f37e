----------------------------- MODULE WorkingSet -----------------------------
(***************************************************************************)
(* The working set tool (src/workingset/src/main.cpp): an LD_PRELOAD       *)
(* library that protects every page of an enclave and counts the pages     *)
(* that fault.  Its SIGSEGV handler marks the faulting page in             *)
(* page_status and unprotects it; its SIGUSR1 handler prints the summary,  *)
(* clears page_status and protects every page again.  enclaves_lock, the   *)
(* ticket lock of src/common/rwlock.cpp, orders the handlers and the       *)
(* enclave creation and destruction.                                       *)
(*                                                                         *)
(* One enclave is modelled, with the pages in Pages.  A signal runs on     *)
(* the thread it interrupts: stack[t] is the thread's frames, the          *)
(* application code at the bottom and a frame per handler above it; only  *)
(* the top frame runs.  Both handlers are installed with SA_NODEFER and an *)
(* empty sa_mask, so SIGUSR1 may interrupt any frame, a handler included.  *)
(*                                                                         *)
(* The lock is the fair reader-writer lock of RWLock, which TicketRWLock   *)
(* refines.  Its users are frames: a frame is <<thread, depth>>, so a      *)
(* handler and the code it interrupted are distinct lock users.           *)
(*                                                                         *)
(* The tool also interposes sigaction and signal, so that an application   *)
(* handler for SIGSEGV is kept in old_handlers and called for faults       *)
(* outside the enclave, and handles SIGINT by printing and exiting.        *)
(* Besides the enclave's pages the application touches two addresses of    *)
(* its own: After, the page right after the enclave, and AppPage, a guard  *)
(* page it protects and handles itself.                                    *)
(***************************************************************************)
EXTENDS Integers, Sequences, FiniteSets

CONSTANTS
    Threads,   \* application threads
    Pages,     \* the enclave's pages
    MaxDepth   \* bound on the frames of one thread (nested signals)

VARIABLES
    stack,     \* stack[t]: t's frames, [kind, pc, page], top last
    queue,     \* enclaves_lock: waiting frames in ticket order
    holder,    \* enclaves_lock: the mode each frame holds
    encl,      \* "absent", "live" or "destroyed" (destruction_time set)
    status,    \* page_status[p] # 0
    prot,      \* the protection of page p: "none" or "rwx"
    touched,   \* the pages accessed since the last reset protected them
    old_segv,  \* old_handlers[SIGSEGV]: "null", "app" or the tool's "tool"
    exited     \* the process has ended

vars == <<stack, queue, holder, encl, status, prot, touched, old_segv, exited>>

Frames == Threads \X (1..MaxDepth)

Lock == INSTANCE RWLock WITH Procs <- Frames

NoPage == "none"
After == "after"       \* encl_end: the first byte past the enclave
AppPage == "app_page"  \* an application page that never holds an enclave
Addrs == Pages \cup {After, AppPage}

\* is_within_enclave (encl_start <= addr && addr <= encl_end) of an enclave
\* whose destruction_time is UINT64_MAX.  encl_end is encl_start + size, so
\* the page after the enclave counts as its page number "pages": its
\* page_status byte is the one past the array.
Within(a) == encl = "live" /\ a \in Pages \cup {After}

Frame == [kind : {"app", "segv", "usr1"}, pc : STRING, page : Addrs \cup {NoPage}]

TypeOK ==
    /\ stack \in [Threads -> Seq(Frame)]
    /\ Lock!TypeOK
    /\ encl \in {"absent", "live", "destroyed"}
    /\ status \in [Pages \cup {After} -> BOOLEAN]
    /\ prot \in [Pages \cup {After} -> {"none", "rwx"}]
    /\ touched \subseteq Pages
    /\ old_segv \in {"null", "app", "tool"}
    /\ exited \in BOOLEAN

\* Each thread runs application code outside the enclave; the enclave's
\* pages are loaded and accessible until sgx_create_enclave protects them.
\* initialize has installed handler, sigint and reset_handler, and
\* old_handlers is zeroed.  The page after the enclave is the
\* application's: accessible or a guard page.
Init ==
    /\ stack = [t \in Threads |-> <<[kind |-> "app", pc |-> "idle", page |-> NoPage]>>]
    /\ Lock!Init
    /\ encl = "absent"
    /\ status = [p \in Pages \cup {After} |-> FALSE]
    /\ prot \in {[p \in Pages \cup {After} |-> IF p = After THEN a ELSE "rwx"] : a \in {"none", "rwx"}}
    /\ touched = {}
    /\ old_segv = "null"
    /\ exited = FALSE

Top(t) == stack[t][Len(stack[t])]
Self(t) == <<t, Len(stack[t])>>
\* Only the frames of a running process step.
At(t, kind, pc) == ~exited /\ Top(t).kind = kind /\ Top(t).pc = pc
Goto(t, pc) == stack' = [stack EXCEPT ![t][Len(stack[t])].pc = pc]
Push(t, kind, pc, p) ==
    /\ Len(stack[t]) < MaxDepth
    /\ stack' = [stack EXCEPT ![t] = Append(@, [kind |-> kind, pc |-> pc, page |-> p])]
Pop(t) == stack' = [stack EXCEPT ![t] = SubSeq(@, 1, Len(@) - 1)]
Holds(t, m) == holder[Self(t)] = m

\* write_lock / read_lock draw a ticket; the frame then spins until the
\* lock grants it (Lock!Grant), and write_unlock / read_unlock release it.
Request(t, m) == Lock!Request(Self(t), m)
Release(t) == Lock!Release(Self(t))

-----------------------------------------------------------------------------
(* sgx_create_enclave and sgx_destroy_enclave                              *)

\* real_sgx_create_enclave, new Enclave (page_status zeroed), mprotect of
\* every page to PROT_NONE, then write_lock.  The byte past page_status is
\* whatever the heap holds there.
create_enclave(t) ==
    /\ At(t, "app", "idle") /\ encl = "absent"
    /\ \E heap \in BOOLEAN :
          status' = [p \in DOMAIN status |-> IF p = After THEN heap ELSE FALSE]
    /\ prot' = [p \in DOMAIN prot |-> IF p = After THEN prot[After] ELSE "none"]
    /\ Request(t, "write")
    /\ Goto(t, "create_wait")
    /\ UNCHANGED <<encl, touched, old_segv, exited>>

\* enclaves->push_back(encl); write_unlock.
create_push(t) ==
    /\ At(t, "app", "create_wait") /\ Holds(t, "write")
    /\ encl' = "live"
    /\ Release(t)
    /\ Goto(t, "idle")
    /\ UNCHANGED <<status, prot, touched, old_segv, exited>>

\* real_sgx_destroy_enclave, then write_lock.  The application destroys
\* the enclave once no thread is inside it.
destroy_enclave(t) ==
    /\ At(t, "app", "idle") /\ encl = "live"
    /\ \A u \in Threads : \A i \in DOMAIN stack[u] :
          stack[u][i].kind # "segv" /\ stack[u][i].pc # "access"
    /\ Request(t, "write")
    /\ Goto(t, "destroy_wait")
    /\ UNCHANGED <<encl, status, prot, touched, old_segv, exited>>

\* The loop sets destruction_time of the enclave; write_unlock.
destroy_mark(t) ==
    /\ At(t, "app", "destroy_wait") /\ Holds(t, "write")
    /\ encl' = "destroyed"
    /\ Release(t)
    /\ Goto(t, "idle")
    /\ UNCHANGED <<status, prot, touched, old_segv, exited>>

-----------------------------------------------------------------------------
(* Enclave code touching a page, and the SIGSEGV handler                   *)

\* A thread inside the enclave is about to access page p.
enter(t, p) ==
    /\ At(t, "app", "idle") /\ encl = "live"
    /\ stack' = [stack EXCEPT ![t][Len(stack[t])] = [kind |-> "app", pc |-> "access", page |-> p]]
    /\ UNCHANGED <<queue, holder, encl, status, prot, touched, old_segv, exited>>

\* Application code touches one of its own pages, enclave or not.
app_touch(t, a) ==
    /\ At(t, "app", "idle")
    /\ stack' = [stack EXCEPT ![t][Len(stack[t])] = [kind |-> "app", pc |-> "access", page |-> a]]
    /\ UNCHANGED <<queue, holder, encl, status, prot, touched, old_segv, exited>>

\* The guard page is never accessible.
Accessible(a) == a \in DOMAIN prot /\ prot[a] = "rwx"

\* The access succeeds on an accessible page; on a protected one the CPU
\* raises SIGSEGV, whose handler starts with read_lock.  After the handler
\* returns the instruction runs again.
access(t) ==
    /\ At(t, "app", "access")
    /\ \/ /\ Accessible(Top(t).page)
          /\ touched' = touched \cup ({Top(t).page} \cap Pages)
          /\ Goto(t, "idle")
          /\ UNCHANGED <<queue, holder>>
       \/ /\ ~Accessible(Top(t).page)
          /\ Push(t, "segv", "segv_check", Top(t).page)
          /\ Lock!Request(<<t, Len(stack[t]) + 1>>, "read")
          /\ UNCHANGED touched
    /\ UNCHANGED <<encl, status, prot, old_segv, exited>>

\* Mutant: the handler tests and unprotects without waiting for read_lock.
segv_checkUnlocked(t) ==
    /\ At(t, "segv", "segv_check")
    /\ \/ /\ Within(Top(t).page)
          /\ status' = [status EXCEPT ![Top(t).page] = TRUE]
          /\ Goto(t, IF status[Top(t).page] THEN "segv_unlock" ELSE "segv_mprotect")
       \/ /\ ~Within(Top(t).page)
          /\ Goto(t, "segv_forward") /\ UNCHANGED status
    /\ UNCHANGED <<queue, holder, encl, prot, touched, old_segv, exited>>

\* The handler looks for a live enclave holding the address.  If one does
\* it __atomic_test_and_set's the page's page_status byte: a page already
\* marked is left alone, otherwise it is unprotected next.  If none does,
\* the fault is the application's.
segv_check(t) ==
    /\ At(t, "segv", "segv_check") /\ Holds(t, "read")
    /\ \/ /\ Within(Top(t).page)
          /\ status' = [status EXCEPT ![Top(t).page] = TRUE]
          /\ Goto(t, IF status[Top(t).page] THEN "segv_unlock" ELSE "segv_mprotect")
       \/ /\ ~Within(Top(t).page)
          /\ Goto(t, "segv_forward") /\ UNCHANGED status
    /\ UNCHANGED <<queue, holder, encl, prot, touched, old_segv, exited>>

\* mprotect(page_addr, PAGE_SIZE, PROT_READ | PROT_WRITE | PROT_EXEC).
segv_mprotect(t) ==
    /\ At(t, "segv", "segv_mprotect")
    /\ prot' = [prot EXCEPT ![Top(t).page] = "rwx"]
    /\ Goto(t, "segv_unlock")
    /\ UNCHANGED <<queue, holder, encl, status, touched, old_segv, exited>>

\* read_unlock and return from the handler.
segv_unlock(t) ==
    /\ At(t, "segv", "segv_unlock")
    /\ Release(t)
    /\ Pop(t)
    /\ UNCHANGED <<encl, status, prot, touched, old_segv, exited>>

\* Mutant: the handler calls the application's handler before read_unlock.
segv_forwardLocked(t) ==
    /\ At(t, "segv", "segv_forward")
    /\ \/ old_segv = "app" /\ Goto(t, "app_handler") /\ UNCHANGED exited
       \/ old_segv # "app" /\ exited' = TRUE /\ UNCHANGED stack
    /\ UNCHANGED <<queue, holder, encl, status, prot, touched, old_segv>>

\* read_unlock, then old_handlers[signum](signum, siginfo, context).  The
\* application's handler runs in this frame.  A null entry is a call to
\* address 0 and the tool's own handler recurses on the same address:
\* either faults again until the stack overflows and the kernel kills
\* the process.
segv_forward(t) ==
    /\ At(t, "segv", "segv_forward")
    /\ Release(t)
    /\ \/ old_segv = "app" /\ Goto(t, "app_handler") /\ UNCHANGED exited
       \/ old_segv # "app" /\ exited' = TRUE /\ UNCHANGED stack
    /\ UNCHANGED <<encl, status, prot, touched, old_segv>>

\* The application's handler deals with its fault and resumes the
\* application past the faulting access (siglongjmp).
app_handler(t) ==
    /\ At(t, "segv", "app_handler")
    /\ stack' = [stack EXCEPT ![t] =
          Append(SubSeq(@, 1, Len(@) - 2), [kind |-> "app", pc |-> "idle", page |-> NoPage])]
    /\ UNCHANGED <<queue, holder, encl, status, prot, touched, old_segv, exited>>

-----------------------------------------------------------------------------
(* The sigaction and signal interposers, and SIGINT                        *)

\* The application calls sigaction(SIGSEGV, act, oldact) with its own
\* handler or with SIG_DFL: not the tool's handler, so the interposer stores
\* act->sa_sigaction in old_handlers and returns without real_sigaction.
app_sigaction(t, h) ==
    /\ At(t, "app", "idle")
    /\ old_segv' = h
    /\ UNCHANGED <<stack, queue, holder, encl, status, prot, touched, exited>>

\* The application calls signal(SIGSEGV, h) with a non-null h, its handler
\* or SIG_IGN: the interposer stores the tool's handler in old_handlers.
\* signal(SIGSEGV, SIG_DFL) passes a null pointer and changes nothing.
app_signal(t) ==
    /\ At(t, "app", "idle")
    /\ old_segv' = "tool"
    /\ UNCHANGED <<stack, queue, holder, encl, status, prot, touched, exited>>

\* SIGINT, delivered on any frame: sigint prints the summary without
\* enclaves_lock and calls exit(0), whose destructor prints it again.
sigint(t) ==
    /\ ~exited
    /\ exited' = TRUE
    /\ UNCHANGED <<stack, queue, holder, encl, status, prot, touched, old_segv>>

-----------------------------------------------------------------------------
(* The SIGUSR1 handler, reset_handler                                      *)

\* kill(pid, SIGUSR1) is delivered to t, whatever t's top frame is doing;
\* reset_handler starts with write_lock.
deliver_usr1(t) ==
    /\ ~exited
    /\ Push(t, "usr1", "usr1_reset", NoPage)
    /\ Lock!Request(<<t, Len(stack[t]) + 1>>, "write")
    /\ UNCHANGED <<encl, status, prot, touched, old_segv, exited>>

\* print_summary counts page_status; reset_page_counter memsets it.
usr1_reset(t) ==
    /\ At(t, "usr1", "usr1_reset") /\ Holds(t, "write")
    /\ status' = [p \in DOMAIN status |-> IF p = After THEN status[After] ELSE FALSE]
    /\ Goto(t, "usr1_protect")
    /\ UNCHANGED <<queue, holder, encl, prot, touched, old_segv, exited>>

\* Mutant: reset_handler clears page_status but leaves the pages accessible.
usr1_protectSkipped(t) ==
    /\ At(t, "usr1", "usr1_protect")
    /\ touched' = {}
    /\ Goto(t, "usr1_unlock")
    /\ UNCHANGED <<queue, holder, encl, status, prot, old_segv, exited>>

\* mprotect(encl_start, size, PROT_NONE): from here every access faults.
usr1_protect(t) ==
    /\ At(t, "usr1", "usr1_protect")
    /\ prot' = [p \in DOMAIN prot |-> IF p = After THEN prot[After] ELSE "none"]
    /\ touched' = {}
    /\ Goto(t, "usr1_unlock")
    /\ UNCHANGED <<queue, holder, encl, status, old_segv, exited>>

\* write_unlock and return from the handler.
usr1_unlock(t) ==
    /\ At(t, "usr1", "usr1_unlock")
    /\ Release(t)
    /\ Pop(t)
    /\ UNCHANGED <<encl, status, prot, touched, old_segv, exited>>

Step(t) ==
    \/ create_enclave(t) \/ create_push(t) \/ destroy_enclave(t) \/ destroy_mark(t)
    \/ \E p \in Pages : enter(t, p)
    \/ \E a \in {After, AppPage} : app_touch(t, a)
    \/ access(t) \/ segv_check(t) \/ segv_mprotect(t) \/ segv_unlock(t)
    \/ usr1_reset(t) \/ usr1_protect(t) \/ usr1_unlock(t)
    \/ deliver_usr1(t)

Grant ==
    /\ ~exited
    /\ Lock!Grant
    /\ UNCHANGED <<stack, encl, status, prot, touched, old_segv, exited>>

Next ==
    \/ \E t \in Threads : Step(t)
    \/ \E t \in Threads : segv_forward(t) \/ app_handler(t) \/ app_signal(t) \/ sigint(t)
    \/ \E t \in Threads, h \in {"app", "null"} : app_sigaction(t, h)
    \/ Grant

Spec == Init /\ [][Next]_vars

\* The steps of a frame already running: the OS keeps scheduling a thread
\* that spins or runs a handler, and the lock grants its head.  Starting
\* an access, an enclave operation or a signal is never forced.
Progress(t) ==
    \/ create_push(t) \/ destroy_mark(t) \/ access(t)
    \/ segv_check(t) \/ segv_mprotect(t) \/ segv_unlock(t) \/ segv_forward(t)
    \/ app_handler(t) \/ usr1_reset(t) \/ usr1_protect(t) \/ usr1_unlock(t)

FairSpec ==
    /\ Spec
    /\ \A t \in Threads : WF_vars(Progress(t))
    /\ WF_vars(Grant)

-----------------------------------------------------------------------------
(* Properties                                                              *)

\* A page whose page_status is set is accessible, or a SIGSEGV handler that
\* marked it is about to unprotect it.  Otherwise every later access to it
\* faults, and the handler, finding the mark, returns without mprotect:
\* the thread faults forever.  The lock keeps reset_handler's memset and
\* mprotect from interleaving with the handler's test-and-set and mprotect.
MarkedPagesAccessible ==
    \A p \in Pages :
       status[p] /\ prot[p] = "none" =>
          \E t \in Threads : \E i \in DOMAIN stack[t] :
             stack[t][i] = [kind |-> "segv", pc |-> "segv_mprotect", page |-> p]

\* When reset_handler's print_summary counts page_status, every page the
\* enclave accessed since the previous reset protected the pages is counted.
SummaryCountsAccessedPages ==
    \A t \in Threads :
       At(t, "usr1", "usr1_reset") /\ Holds(t, "write") =>
          \A p \in touched : status[p]

\* The application's SIGSEGV handler, which old_handlers forwards faults
\* outside the enclave to and which may siglongjmp and never return, runs
\* with no frame of its thread holding enclaves_lock.  Otherwise a handler
\* that leaves by siglongjmp keeps the lock for good.
AppHandlerRunsUnlocked ==
    \A t \in Threads :
       Top(t).pc = "app_handler" => \A i \in DOMAIN stack[t] : Lock!Idle(<<t, i>>)

\* Every SIGUSR1 handler returns: reset_handler's write_lock is eventually
\* granted and the thread resumes what the signal interrupted, unless the
\* process ends first.
ResetReturns ==
    \A t \in Threads :
       (\E i \in DOMAIN stack[t] : stack[t][i].kind = "usr1")
          ~> (exited \/ \A i \in DOMAIN stack[t] : stack[t][i].kind # "usr1")
====
