------------------------------- MODULE RWLock -------------------------------
(***************************************************************************)
(* What a fair reader-writer lock promises its callers, with no word,      *)
(* bytes or tickets: requests queue in arrival order, the head of the      *)
(* queue is granted when its mode is compatible with the current holders   *)
(* (a writer needs no holder, a reader needs no writer), and a trylock     *)
(* succeeds only on a lock nobody holds incompatibly and nobody waits for. *)
(* A trylock that fails changes nothing and is a stuttering step.          *)
(***************************************************************************)
EXTENDS Sequences, SequencesExt

CONSTANTS Procs

VARIABLES queue, holder

avars == <<queue, holder>>

Modes == {"read", "write"}

TypeOK ==
    /\ queue \in Seq(Procs \X Modes)
    /\ holder \in [Procs -> Modes \cup {"none"}]

Init ==
    /\ queue = <<>>
    /\ holder = [p \in Procs |-> "none"]

Idle(p) == holder[p] = "none" /\ \A i \in DOMAIN queue : queue[i][1] # p

Compatible(m) ==
    \A q \in Procs : holder[q] \in IF m = "write" THEN {"none"} ELSE {"none", "read"}

Request(p, m) ==
    /\ Idle(p)
    /\ queue' = Append(queue, <<p, m>>)
    /\ UNCHANGED holder

Grant ==
    /\ queue # <<>>
    /\ Compatible(Head(queue)[2])
    /\ holder' = [holder EXCEPT ![Head(queue)[1]] = Head(queue)[2]]
    /\ queue' = Tail(queue)

TryAcquire(p, m) ==
    /\ Idle(p)
    /\ queue = <<>>
    /\ Compatible(m)
    /\ holder' = [holder EXCEPT ![p] = m]
    /\ UNCHANGED queue

Release(p) ==
    /\ holder[p] # "none"
    /\ holder' = [holder EXCEPT ![p] = "none"]
    /\ UNCHANGED queue

Next ==
    \/ \E p \in Procs, m \in Modes : Request(p, m) \/ TryAcquire(p, m)
    \/ Grant
    \/ \E p \in Procs : Release(p)

Spec == Init /\ [][Next]_avars
=============================================================================
