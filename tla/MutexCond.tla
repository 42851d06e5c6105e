------------------------------ MODULE MutexCond ------------------------------
(***************************************************************************)
(* Mutexes and condition variables (port/pthread.c and, for                *)
(* pthread_mutex_setprioceiling, ulibc/pthread.c): one mutex, one          *)
(* condition variable and the threads that use them.  Steps, interrupts    *)
(* and sleep timers are those of Semaphore.                                *)
(*                                                                         *)
(* role: the attributes of the mutex (type, prot, ceil) and which threads  *)
(* wait for the condition (cond), wait with a timeout (timed) or only use  *)
(* the mutex; tryfirst: pthread_mutex_trylock may be the first call that   *)
(* takes a recursive mutex.                                                *)
(***************************************************************************)
EXTENDS PthreadList

CONSTANTS
    Base,       \* priority of each thread
    MaxDepth,   \* bound: how often a thread takes a recursive mutex
    Roles

Types == {"NORMAL", "RECURSIVE", "ERRORCHECK"}
Protections == {"NONE", "PROTECT"}

ASSUME MutexAssumption ==
    /\ Base \in [Threads -> Prios] /\ MaxDepth \in Nat \ {0}
    /\ Roles \subseteq [type : Types, prot : Protections, ceil : SUBSET Prios,
                        users : SUBSET Threads, cond : SUBSET Threads,
                        timed : SUBSET Threads, tryfirst : BOOLEAN]

VARIABLES
    role,       \* the role of this behaviour; never changes
    k, cur,     \* thread states (KThreads) and current_thread
    mutex,      \* the mutex: see MutexType
    cond,       \* cond -> cond_list with the nodes of the threads
    pc,         \* where each thread goes on when it is dispatched
    then,       \* where it goes on when its pthread_mutex_lock_sys returns
    held,       \* how often it holds the mutex, going by return values
    timer       \* its sleep_ktimer is armed

mvars == <<role, k, cur, mutex, cond, pc, then, held, timer>>

MutexType == [owner : Threads \cup {NULL}, counter : Nat, ceil : Prios,
              owner_prio : Prios, list : ListType]

(* "run": in the application; "lock": in pthread_mutex_lock_sys, after     *)
(* scheduling() or called by pthread_cond_*wait_sys; "wait", "timed":      *)
(* these two after unlocking; "woken": pthread_cond_timedwait_sys after    *)
(* sleep_for; "ceil": setprioceiling holds the mutex; "out": and has set   *)
(* the ceiling.                                                            *)
PCs    == {"run", "lock", "wait", "timed", "woken", "ceil", "out"}
Masked == {"lock", "wait", "timed", "woken"}

MTypeOK ==
    /\ role \in Roles /\ k \in KType /\ cur \in Threads \cup {Idle}
    /\ mutex \in MutexType /\ cond \in ListType
    /\ pc \in [Threads -> PCs] /\ then \in [Threads -> PCs]
    /\ held \in [Threads -> 0 .. MaxDepth + 1] /\ timer \in [Threads -> BOOLEAN]

MInit ==
    /\ role \in Roles /\ k = Asleep(Threads, Base) /\ cur = Idle
    /\ mutex \in [owner : {NULL}, counter : {0}, ceil : role.ceil, owner_prio : {0},
                  list : {init_pthread_list}]
    /\ cond = init_pthread_list
    /\ pc = [t \in Threads |-> "run"] /\ then = [t \in Threads |-> "run"]
    /\ held = [t \in Threads |-> 0] /\ timer = [t \in Threads |-> TRUE]

At(t, p) == cur = t /\ pc[t] = p
Goto(t, p) == pc' = [pc EXCEPT ![t] = p]
Holding(t, n) == held' = [held EXCEPT ![t] = n]

-----------------------------------------------------------------------------
(* Slip: priorities compared the wrong way round.                          *)
Take_Low(t, count) ==
    LET raise == role.prot = "PROTECT" /\ k.prio[t] < mutex.ceil
    IN  /\ mutex' = [mutex EXCEPT !.owner = t, !.counter = count,
                        !.owner_prio = IF role.prot = "PROTECT" THEN k.prio[t] ELSE @]
        /\ k' = IF raise THEN change_thread_prio(k, t, mutex.ceil) ELSE k
        /\ cur' = IF raise THEN scheduling(k') ELSE cur
        /\ Holding(t, held[t] + 1)

(* A protected mutex is taken: its owner gets the ceiling's priority.      *)
Take(t, count) ==
    LET raise == role.prot = "PROTECT" /\ k.prio[t] > mutex.ceil
    IN  /\ mutex' = [mutex EXCEPT !.owner = t, !.counter = count,
                        !.owner_prio = IF role.prot = "PROTECT" THEN k.prio[t] ELSE @]
        /\ k' = IF raise THEN change_thread_prio(k, t, mutex.ceil) ELSE k
        /\ cur' = IF raise THEN scheduling(k') ELSE cur
        /\ Holding(t, held[t] + 1)

Again(t) ==
    /\ mutex' = [mutex EXCEPT !.counter = @ + 1] /\ Holding(t, held[t] + 1)
    /\ UNCHANGED <<k, cur>>

(* Slip: a thread that was woken takes the mutex without looking again.    *)
LockLoop_If(t, ret) ==
    /\ then' = [then EXCEPT ![t] = ret]
    /\ IF mutex.owner = NULL \/ pc[t] = "lock" THEN Take(t, 1) /\ Goto(t, ret)
       ELSE IF mutex.owner = t /\ role.type = "RECURSIVE" THEN Again(t) /\ Goto(t, ret)
       ELSE IF mutex.owner = t /\ role.type = "ERRORCHECK" THEN      \* EDEADLK
            Goto(t, ret) /\ UNCHANGED <<k, cur, mutex, held>>
       ELSE /\ k' = suspend_thread(k, t) /\ cur' = scheduling(k')
            /\ mutex' = [mutex EXCEPT !.list = insert_pthread_list(@, t)]
            /\ Goto(t, "lock") /\ UNCHANGED held

(* The loop of pthread_mutex_lock_sys up to its next scheduling().         *)
LockLoop(t, ret) ==
    /\ then' = [then EXCEPT ![t] = ret]
    /\ IF mutex.owner = NULL THEN Take(t, 1) /\ Goto(t, ret)
       ELSE IF mutex.owner = t /\ role.type = "RECURSIVE" THEN Again(t) /\ Goto(t, ret)
       ELSE IF mutex.owner = t /\ role.type = "ERRORCHECK" THEN      \* EDEADLK
            Goto(t, ret) /\ UNCHANGED <<k, cur, mutex, held>>
       ELSE /\ k' = suspend_thread(k, t) /\ cur' = scheduling(k')
            /\ mutex' = [mutex EXCEPT !.list = insert_pthread_list(@, t)]
            /\ Goto(t, "lock") /\ UNCHANGED held

(* The application does not take a mutex of the normal type twice, which   *)
(* would block the thread for ever.                                        *)
MayLock(t) == t \in role.users /\ held[t] < MaxDepth /\ (role.type = "NORMAL" => held[t] = 0)

pthread_mutex_lock_sys(t) ==
    /\ At(t, "run") /\ MayLock(t)
    /\ LockLoop(t, "run")
    /\ UNCHANGED <<role, cond, timer>>

pthread_mutex_lock_resumes(t) ==
    /\ At(t, "lock")
    /\ LockLoop(t, then[t])
    /\ UNCHANGED <<role, cond, timer>>

(* counter stays 0 when the mutex is taken.                                *)
pthread_mutex_trylock_sys(t) ==
    /\ At(t, "run") /\ t \in role.users
    /\ role.type = "RECURSIVE" => held[t] \in 1 .. MaxDepth - 1 \/ role.tryfirst
    /\ \/ mutex.owner = NULL /\ Take(t, mutex.counter)
       \/ mutex.owner = t /\ role.type = "RECURSIVE" /\ Again(t)    \* else EBUSY
    /\ UNCHANGED <<role, cond, pc, then, timer>>

(* Wakes all threads of a list: <<kk, ll>> after that.                     *)
WakeAll(kk, l) ==
    LET after[n \in 0 .. 2 * Cardinality(Threads)] ==
            IF n = 0 THEN <<kk, l>>
            ELSE LET b == after[n - 1]
                 IN  IF b[2].head = NULL THEN b
                     ELSE <<activate_thread(b[1], b[2].head), remove_head_pthread_list(b[2])>>
    IN  after[2 * Cardinality(Threads)]

Lower(kk, t) == role.prot = "PROTECT" /\ mutex.owner_prio # kk.prio[t]

(* Slip: one waiter is woken, and the others forgotten.                    *)
Unlock_WakesOne(t) ==
    IF role.type = "RECURSIVE" /\ mutex.counter - 1 > 0
    THEN mutex' = [mutex EXCEPT !.counter = @ - 1] /\ UNCHANGED <<k, cur>>
    ELSE LET k1 == IF mutex.list.head = NULL THEN k ELSE activate_thread(k, mutex.list.head)
         IN  /\ mutex' = [mutex EXCEPT !.owner = NULL, !.counter = 0,
                                       !.list = remove_head_pthread_list(@)]
             /\ k' = IF Lower(k1, t) THEN change_thread_prio(k1, t, mutex.owner_prio) ELSE k1
             /\ cur' = IF Lower(k1, t) THEN scheduling(k') ELSE cur

(* Slip: scheduling() is called whenever a waiter was woken.               *)
Unlock_Yields(t) ==
    IF role.type = "RECURSIVE" /\ mutex.counter - 1 > 0
    THEN mutex' = [mutex EXCEPT !.counter = @ - 1] /\ UNCHANGED <<k, cur>>
    ELSE LET w == WakeAll(k, mutex.list)
         IN  /\ mutex' = [mutex EXCEPT !.owner = NULL, !.counter = 0, !.list = w[2]]
             /\ k' = IF Lower(w[1], t) THEN change_thread_prio(w[1], t, mutex.owner_prio) ELSE w[1]
             /\ cur' = scheduling(k')

(* pthread_mutex_unlock_sys for the owner (others get EPERM or nothing):   *)
(* scheduling() is called only when the priority goes down, so a waiter of *)
(* higher priority stays READY until the next call of it.                  *)
Unlock(t) ==
    IF role.type = "RECURSIVE" /\ mutex.counter - 1 > 0
    THEN mutex' = [mutex EXCEPT !.counter = @ - 1] /\ UNCHANGED <<k, cur>>
    ELSE LET w == WakeAll(k, mutex.list)
         IN  /\ mutex' = [mutex EXCEPT !.owner = NULL, !.counter = 0, !.list = w[2]]
             /\ k' = IF Lower(w[1], t) THEN change_thread_prio(w[1], t, mutex.owner_prio) ELSE w[1]
             /\ cur' = IF Lower(w[1], t) THEN scheduling(k') ELSE cur

pthread_mutex_unlock_sys(t) ==
    /\ At(t, "run") /\ mutex.owner = t
    /\ Unlock(t) /\ Holding(t, held[t] - 1)
    /\ UNCHANGED <<role, cond, pc, then, timer>>

-----------------------------------------------------------------------------
(* pthread_mutex_setprioceiling of the user library: lock, set, unlock.    *)
pthread_mutex_setprioceiling(t) ==
    /\ At(t, "run") /\ t \in role.users /\ held[t] = 0
    /\ LockLoop(t, "ceil")
    /\ UNCHANGED <<role, cond, timer>>

SetCeiling(t) ==
    /\ At(t, "ceil") /\ Goto(t, "out")
    /\ \E c \in role.ceil : mutex' = [mutex EXCEPT !.ceil = c]
    /\ UNCHANGED <<role, k, cur, cond, then, held, timer>>

CeilingUnlock(t) ==
    /\ At(t, "out") /\ mutex.owner = t
    /\ Unlock(t) /\ Holding(t, held[t] - 1) /\ Goto(t, "run")
    /\ UNCHANGED <<role, cond, then, timer>>

-----------------------------------------------------------------------------
(* pthread_cond_wait_sys and pthread_cond_timedwait_sys: the calls of      *)
(* scheduling() in pthread_mutex_unlock_sys come before the thread is in   *)
(* the list of the condition.                                              *)
CondRelease(t, next) ==
    /\ At(t, "run") /\ mutex.owner = t              \* else EPERM
    /\ Unlock(t) /\ Holding(t, held[t] - 1) /\ Goto(t, next)
    /\ UNCHANGED <<role, cond, then, timer>>

pthread_cond_wait_sys(t) == t \in role.cond /\ CondRelease(t, "wait")
pthread_cond_timedwait_sys(t) == t \in role.timed /\ CondRelease(t, "timed")

CondBlock(t, from, next, armed) ==
    /\ At(t, from)
    /\ k' = suspend_thread(k, t) /\ cur' = scheduling(k')
    /\ cond' = insert_pthread_list(cond, t)
    /\ timer' = [timer EXCEPT ![t] = @ \/ armed]
    /\ then' = [then EXCEPT ![t] = "run"] /\ Goto(t, next)
    /\ UNCHANGED <<role, mutex, held>>

pthread_cond_wait_blocks(t) == CondBlock(t, "wait", "lock", FALSE)
pthread_cond_timedwait_blocks(t) == CondBlock(t, "timed", "woken", TRUE)

pthread_cond_timedwait_resumes(t) ==
    /\ At(t, "woken")
    /\ cond' = remove_pthread_list(cond, t) /\ Goto(t, "lock")
    /\ UNCHANGED <<role, k, cur, mutex, then, held, timer>>

pthread_cond_signal_sys(t) ==
    /\ At(t, "run") /\ t \in role.users
    /\ k' = IF cond.head = NULL THEN k ELSE activate_thread(k, cond.head)
    /\ cond' = remove_head_pthread_list(cond) /\ cur' = scheduling(k')
    /\ UNCHANGED <<role, mutex, pc, then, held, timer>>

pthread_cond_broadcast_sys(t) ==
    /\ At(t, "run") /\ t \in role.users
    /\ LET w == WakeAll(k, cond) IN k' = w[1] /\ cond' = w[2]
    /\ cur' = scheduling(k')
    /\ UNCHANGED <<role, mutex, pc, then, held, timer>>

-----------------------------------------------------------------------------
MSleep(t) ==
    /\ At(t, "run")
    /\ k' = suspend_thread(k, t) /\ timer' = [timer EXCEPT ![t] = TRUE]
    /\ cur' = scheduling(k')
    /\ UNCHANGED <<role, mutex, cond, pc, then, held>>

MTimer(u) ==
    /\ timer[u] /\ (cur # Idle => pc[cur] \notin Masked)
    /\ timer' = [timer EXCEPT ![u] = FALSE]
    /\ k' = activate_thread(k, u) /\ cur' = scheduling(k')
    /\ UNCHANGED <<role, mutex, cond, pc, then, held>>

MStep(t) ==
    \/ pthread_mutex_lock_sys(t) \/ pthread_mutex_lock_resumes(t)
    \/ pthread_mutex_trylock_sys(t) \/ pthread_mutex_unlock_sys(t)
    \/ pthread_mutex_setprioceiling(t) \/ SetCeiling(t) \/ CeilingUnlock(t)
    \/ pthread_cond_wait_sys(t) \/ pthread_cond_wait_blocks(t)
    \/ pthread_cond_timedwait_sys(t) \/ pthread_cond_timedwait_blocks(t)
    \/ pthread_cond_timedwait_resumes(t)
    \/ pthread_cond_signal_sys(t) \/ pthread_cond_broadcast_sys(t)
    \/ MSleep(t)

MNext == \E t \in Threads : MStep(t) \/ MTimer(t)

MSpec == MInit /\ [][MNext]_mvars
-----------------------------------------------------------------------------
(* The thread that was told it holds the mutex is its owner and no other   *)
(* thread was told so; a recursive mutex counts its lock calls.            *)
MutualExclusion ==
    \A t \in Threads : held[t] > 0 => /\ mutex.owner = t
                                      /\ role.type = "RECURSIVE" => mutex.counter = held[t]

(* No waiter is forgotten: a thread that sleeps in pthread_mutex_lock_sys  *)
(* is in the list that the next unlock wakes, or in the list of the        *)
(* condition it waits for, and a free mutex has nobody in its list.        *)
WaitersKnown ==
    /\ \A t \in Threads : k.st[t] = "SUSPENDED" /\ pc[t] = "lock" =>
           t \in Linked(mutex.list) \cup Linked(cond)
    /\ mutex.owner = NULL => mutex.list.head = NULL

(* The owner of a protected mutex runs at the ceiling, or at its own       *)
(* priority where that is higher, and everybody else at his own:           *)
(* pthread_mutex_lock_sys raises and pthread_mutex_unlock_sys restores, in *)
(* recursive locks, condition waits and calls of setprioceiling too.       *)
(* (Between setting the ceiling and its unlock, setprioceiling still runs  *)
(* at the old one.)  Said of threads whose priority nobody changes         *)
(* otherwise: pthread_setschedparam_sys is not called for them.            *)
CeilingExact ==
    \A t \in Threads :
        IF mutex.owner # t \/ role.prot = "NONE" THEN k.prio[t] = Base[t]
        ELSE IF pc[t] = "out" THEN k.prio[t] <= Base[t]
        ELSE k.prio[t] = IF mutex.ceil < Base[t] THEN mutex.ceil ELSE Base[t]

(* pthread_cond_wait_sys releases the mutex and blocks in one step as far  *)
(* as the other threads can tell: none runs in between, so no signal is    *)
(* lost.  (Where the release lowers a raised priority, others do.)         *)
ReleaseAtomic ==
    role.prot = "NONE" => \A t \in Threads : pc[t] \in {"wait", "timed"} => cur = t

(* With a ceiling not below its users' priorities, no READY thread waits   *)
(* for the processor while one of lower priority runs, although            *)
(* pthread_mutex_unlock_sys wakes waiters without calling scheduling()     *)
(* unless it lowers a priority.  (Without protection, threads do.)         *)
HighestRuns ==
    role.prot = "PROTECT" /\ cur # Idle =>
        \A t \in Threads : k.st[t] = "READY" => k.prio[cur] <= k.prio[t]
=============================================================================
