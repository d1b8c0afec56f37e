---------------------------- MODULE TicketRWLock ----------------------------
(***************************************************************************)
(* The ticket read-write lock of src/common/rwlock.cpp.                    *)
(*                                                                         *)
(* rwlock_t is one unsigned word u whose bytes are, from the least         *)
(* significant, write, read and users (struct s); the fourth byte is not   *)
(* named but receives the carry out of users, since the ticket is taken    *)
(* with atomic_xadd(&l->u, 1 << 16).  Bits is the width of a byte (8 in    *)
(* the code), so that tickets wrap within reach of TLC.                    *)
(*                                                                         *)
(* pc[p] is where thread p is:                                             *)
(*   idle      outside the lock                                            *)
(*   wspin     write_lock, spinning until s.write equals its ticket        *)
(*   wcs       holding the write lock                                      *)
(*   wstore    write_unlock between "t = *l" and the 16-bit store          *)
(*   rspin     read_lock, spinning until s.read equals its ticket          *)
(*   rload     read_lock, before the plain load of s.read for "read++"     *)
(*   rstore    read_lock, before the store of "read++"                     *)
(*   rcs       holding a read lock                                         *)
(*   wtry/rtry write_trylock/read_trylock between its loads and cmpxchg    *)
(*   ebusy     a trylock returned EBUSY                                    *)
(***************************************************************************)
EXTENDS Integers, FiniteSets, SequencesExt

CONSTANTS Procs, Bits

VARIABLES u, pc, ticket, saved

vars == <<u, pc, ticket, saved>>

Byte == 2 ^ Bits
Word == Byte ^ 4

WriteOf(x) == x % Byte
ReadOf(x) == (x \div Byte) % Byte
UsersOf(x) == (x \div (Byte ^ 2)) % Byte

\* u with its write (read) byte replaced by v.
WithWrite(x, v) == x - WriteOf(x) + v
WithRead(x, v) == x - ReadOf(x) * Byte + v * Byte

PCs == {"idle", "wspin", "wcs", "wstore", "rspin", "rload", "rstore", "rcs",
        "wtry", "rtry", "ebusy"}

TypeOK ==
    /\ u \in 0..(Word - 1)
    /\ pc \in [Procs -> PCs]
    /\ ticket \in [Procs -> 0..(Byte - 1)]
    /\ saved \in [Procs -> 0..(Word - 1)]

Init ==
    /\ u = 0
    /\ pc = [p \in Procs |-> "idle"]
    /\ ticket = [p \in Procs |-> 0]
    /\ saved = [p \in Procs |-> 0]

Goto(p, from, to) == pc[p] = from /\ pc' = [pc EXCEPT ![p] = to]

\* Mutant: val declared unsigned, keeping the carry byte.
TakeTicketWideVal(p, to) ==
    /\ Goto(p, "idle", to)
    /\ u' = (u + Byte ^ 2) % Word
    /\ ticket' = [ticket EXCEPT ![p] = u \div (Byte ^ 2)]
    /\ UNCHANGED saved

\* "me = atomic_xadd(&l->u, 1 << 16); val = me >> 16", val an unsigned char.
TakeTicket(p, to) ==
    /\ Goto(p, "idle", to)
    /\ u' = (u + Byte ^ 2) % Word
    /\ ticket' = [ticket EXCEPT ![p] = UsersOf(u)]
    /\ UNCHANGED saved

write_lock(p) == TakeTicket(p, "wspin")

\* "while (val != l->s.write) cpu_relax();"
write_lock_spin(p) ==
    /\ WriteOf(u) = ticket[p]
    /\ Goto(p, "wspin", "wcs")
    /\ ticket' = [ticket EXCEPT ![p] = 0]
    /\ UNCHANGED <<u, saved>>

\* write_unlock: "rwlock_t t = *l;"
write_unlock(p) ==
    /\ Goto(p, "wcs", "wstore")
    /\ saved' = [saved EXCEPT ![p] = u]
    /\ UNCHANGED <<u, ticket>>

\* Mutant: "*l = t;", storing the whole word loaded before.
WriteUnlockStoreWord(p) ==
    /\ Goto(p, "wstore", "idle")
    /\ u' = saved[p] - (saved[p] % (Byte ^ 2))
              + ((WriteOf(saved[p]) + 1) % Byte)
              + ((ReadOf(saved[p]) + 1) % Byte) * Byte
    /\ saved' = [saved EXCEPT ![p] = 0]
    /\ UNCHANGED ticket

\* Mutant: "t.s.read++" left out.
WriteUnlockStoreNoRead(p) ==
    /\ Goto(p, "wstore", "idle")
    /\ u' = u - (u % (Byte ^ 2))
              + ((WriteOf(saved[p]) + 1) % Byte) + ReadOf(saved[p]) * Byte
    /\ saved' = [saved EXCEPT ![p] = 0]
    /\ UNCHANGED ticket

\* write_unlock: "t.s.write++; t.s.read++; *(unsigned short *) l = t.us;"
\* the store replaces the two low bytes only.
write_unlock_store(p) ==
    /\ Goto(p, "wstore", "idle")
    /\ u' = u - (u % (Byte ^ 2))
              + ((WriteOf(saved[p]) + 1) % Byte)
              + ((ReadOf(saved[p]) + 1) % Byte) * Byte
    /\ saved' = [saved EXCEPT ![p] = 0]
    /\ UNCHANGED ticket

read_lock(p) == TakeTicket(p, "rspin")

\* "while (val != l->s.read) cpu_relax();"
read_lock_spin(p) ==
    /\ ReadOf(u) = ticket[p]
    /\ Goto(p, "rspin", "rload")
    /\ ticket' = [ticket EXCEPT ![p] = 0]
    /\ UNCHANGED <<u, saved>>

\* "l->s.read++;", a plain load and store of one byte.
read_lock_load(p) ==
    /\ Goto(p, "rload", "rstore")
    /\ saved' = [saved EXCEPT ![p] = ReadOf(u)]
    /\ UNCHANGED <<u, ticket>>

read_lock_store(p) ==
    /\ Goto(p, "rstore", "rcs")
    /\ u' = WithRead(u, (saved[p] + 1) % Byte)
    /\ saved' = [saved EXCEPT ![p] = 0]
    /\ UNCHANGED ticket

\* "atomic_inc(&l->s.write);", an atomic add on the write byte alone.
read_unlock(p) ==
    /\ Goto(p, "rcs", "idle")
    /\ u' = WithWrite(u, (WriteOf(u) + 1) % Byte)
    /\ UNCHANGED <<ticket, saved>>

(* The trylocks load users and then read (write) with plain loads, build   *)
(* cmp and cmpnew, and cmpxchg the whole word.  Success depends only on    *)
(* the word at the cmpxchg, so the two loads are taken as one step here.   *)
(* saved[p] holds cmp.                                                     *)

\* write_trylock: "cmp = (me << 16) + read + me", me = users.
write_trylock(p) ==
    /\ Goto(p, "idle", "wtry")
    /\ saved' = [saved EXCEPT ![p] =
                   UsersOf(u) * Byte ^ 2 + ReadOf(u) * Byte + UsersOf(u)]
    /\ UNCHANGED <<u, ticket>>

\* "cmpnew = (menew << 16) + read + me", menew an unsigned char.
WriteTryNew(c) == ((UsersOf(c) + 1) % Byte) * Byte ^ 2 + ReadOf(c) * Byte + WriteOf(c)

\* Mutant: "cmp = (me << 16) + (read << 8) + write", the current read byte.
ReadTrylockOnlyUsers(p) ==
    /\ Goto(p, "idle", "rtry")
    /\ saved' = [saved EXCEPT ![p] =
                   UsersOf(u) * Byte ^ 2 + ReadOf(u) * Byte + WriteOf(u)]
    /\ UNCHANGED <<u, ticket>>

\* read_trylock: "cmp = (me << 16) + (me << 8) + write".
read_trylock(p) ==
    /\ Goto(p, "idle", "rtry")
    /\ saved' = [saved EXCEPT ![p] =
                   UsersOf(u) * Byte ^ 2 + UsersOf(u) * Byte + WriteOf(u)]
    /\ UNCHANGED <<u, ticket>>

\* "cmpnew = ((unsigned) menew << 16) + (menew << 8) + write".
ReadTryNew(c) == ((UsersOf(c) + 1) % Byte) * (Byte ^ 2 + Byte) + WriteOf(c)

\* "if (cmpxchg(&l->u, cmp, cmpnew) == cmp) return 0;"
trylock_acquire(p) ==
    /\ u = saved[p]
    /\ \/ Goto(p, "wtry", "wcs") /\ u' = WriteTryNew(u)
       \/ Goto(p, "rtry", "rcs") /\ u' = ReadTryNew(u)
    /\ saved' = [saved EXCEPT ![p] = 0]
    /\ UNCHANGED ticket

\* "return EBUSY;"
trylock_busy(p) ==
    /\ u # saved[p]
    /\ pc[p] \in {"wtry", "rtry"}
    /\ pc' = [pc EXCEPT ![p] = "ebusy"]
    /\ saved' = [saved EXCEPT ![p] = 0]
    /\ UNCHANGED <<u, ticket>>

\* The caller sees EBUSY and goes on without the lock.
trylock_return(p) ==
    /\ Goto(p, "ebusy", "idle")
    /\ UNCHANGED <<u, ticket, saved>>

-----------------------------------------------------------------------------
\* A caller may start any lock operation from outside the lock.
Acquire(p) ==
    \/ write_lock(p) \/ read_lock(p) \/ write_trylock(p) \/ read_trylock(p)

\* Every other step of p, which the thread takes once it is in the lock code.
Progress(p) ==
    \/ write_lock_spin(p) \/ write_unlock(p) \/ write_unlock_store(p)
    \/ read_lock_spin(p) \/ read_lock_load(p) \/ read_lock_store(p)
    \/ read_unlock(p)
    \/ trylock_acquire(p) \/ trylock_busy(p) \/ trylock_return(p)

Next == \E p \in Procs : Acquire(p) \/ Progress(p)

\* Spinning threads keep being scheduled, and every critical section of
\* the callers (map lookups and inserts) ends in an unlock.
Fairness == \A p \in Procs : WF_vars(Progress(p))

Spec == Init /\ [][Next]_vars /\ Fairness

-----------------------------------------------------------------------------
WriteHeld(p) == pc[p] \in {"wcs", "wstore"}
ReadHeld(p) == pc[p] \in {"rload", "rstore", "rcs"}
Waiting(p) == pc[p] \in {"wspin", "rspin"}

\* Refinement mapping: holders by their pc, and waiters queued in ticket
\* order, the oldest ticket being the farthest behind users.
Age(p) == (ticket[p] - UsersOf(u)) % Byte

Lock == INSTANCE RWLock WITH
    queue <- [i \in 1..Cardinality({p \in Procs : Waiting(p)}) |->
                LET p == SetToSortSeq({q \in Procs : Waiting(q)},
                                      LAMBDA a, b : Age(a) < Age(b))[i]
                IN  <<p, IF pc[p] = "wspin" THEN "write" ELSE "read">>],
    holder <- [p \in Procs |-> CASE WriteHeld(p) -> "write"
                                 [] ReadHeld(p) -> "read"
                                 [] OTHER -> "none"]

\* A thread holds the write lock (from the end of write_lock's spin or a
\* successful write_trylock until write_unlock's store) only while no other
\* thread holds the lock in either mode: the byte-wise increments, the
\* non-atomic read++ and the 16-bit store of write_unlock never let two
\* tickets through together.
MutualExclusion ==
    \A p, q \in Procs : p # q /\ WriteHeld(p) => ~WriteHeld(q) /\ ~ReadHeld(q)

\* The ticket lock implements the fair reader-writer lock RWLock: every
\* acquisition is the grant of the oldest waiting request, or a trylock on
\* a lock with no waiter and no incompatible holder.
ImplementsRWLock == Lock!Spec

\* A thread that took a ticket in write_lock or read_lock eventually holds
\* the lock: no spin of rwlock.cpp lasts forever.
StarvationFree == \A p \in Procs : Waiting(p) ~> pc[p] \in {"wcs", "rcs"}

\* write_trylock and read_trylock return EBUSY only when another thread is
\* in the lock code; on a lock nobody uses they succeed.
TrylockFailsOnlyWhenBusy ==
    \A p \in Procs : pc[p] = "ebusy" => \E q \in Procs \ {p} : pc[q] # "idle"
=============================================================================
