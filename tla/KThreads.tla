------------------------------ MODULE KThreads ------------------------------
(***************************************************************************)
(* What the blocking system calls (port/semaphore.c, pthread.c, signal.c)  *)
(* see of the scheduler: thread states, priorities and one queue of READY  *)
(* threads per priority, in the order the bitmap structure of Sched keeps  *)
(* them (ReadyQueue is the specification that Sched implements).           *)
(*                                                                         *)
(* kk.st, kk.prio, kk.rq: state, sched_priority and the queues.            *)
(***************************************************************************)
EXTENDS Integers, Sequences, FiniteSets

CONSTANTS
    Threads,    \* threads of the application
    Idle,       \* the idle thread: what runs when none of them is READY
    NULL,
    Levels      \* priorities 0 (highest) .. Levels - 1

ASSUME KThreadsAssumption ==
    /\ IsFiniteSet(Threads)
    /\ Idle \notin Threads /\ NULL \notin Threads /\ Idle # NULL
    /\ Levels \in Nat \ {0}

Prios  == 0 .. Levels - 1
States == {"FREE", "SUSPENDED", "READY", "FINISHED"}

(* Slip: the queues are searched from the lowest priority.                 *)
scheduling_Lowest(kk) ==
    LET busy == {l \in Prios : kk.rq[l] # <<>>}
    IN  IF busy = {} THEN Idle
        ELSE Head(kk.rq[CHOOSE l \in busy : \A m \in busy : m <= l])

(* The thread that scheduling() gives the processor to.                    *)
scheduling(kk) ==
    LET busy == {l \in Prios : kk.rq[l] # <<>>}
    IN  IF busy = {} THEN Idle
        ELSE Head(kk.rq[CHOOSE l \in busy : \A m \in busy : l <= m])

(* A queue without t, which is in it once at most.                         *)
Removed(q, t) ==
    LET n == CHOOSE i \in DOMAIN q : q[i] = t
    IN  IF \A i \in DOMAIN q : q[i] # t THEN q
        ELSE [i \in 1 .. Len(q) - 1 |-> q[IF i < n THEN i ELSE i + 1]]

Without(kk, t) == [l \in Prios |-> Removed(kk.rq[l], t)]
AtHead(rq, t, l) == [rq EXCEPT ![l] = <<t>> \o @]

suspend_thread(kk, t) ==
    [kk EXCEPT !.rq = Without(kk, t),
               !.st[t] = IF @ = "FINISHED" THEN @ ELSE "SUSPENDED"]

activate_thread(kk, t) ==
    IF kk.st[t] \in {"FINISHED", "READY"} THEN kk
    ELSE [kk EXCEPT !.rq = AtHead(@, t, kk.prio[t]), !.st[t] = "READY"]

change_thread_prio(kk, t, p) ==
    [kk EXCEPT !.rq = IF kk.st[t] = "READY" THEN AtHead(Without(kk, t), t, p)
                      ELSE Without(kk, t),
               !.prio[t] = p]

finish_thread(kk, t) == [kk EXCEPT !.rq = Without(kk, t), !.st[t] = "FINISHED"]

(* Every thread of S exists and sleeps; the others do not exist.           *)
Asleep(S, prio) ==
    [st |-> [t \in Threads |-> IF t \in S THEN "SUSPENDED" ELSE "FREE"],
     prio |-> prio, rq |-> [l \in Prios |-> <<>>]]

KType == [st : [Threads -> States], prio : [Threads -> Prios],
          rq : [Prios -> Seq(Threads)]]
=============================================================================
