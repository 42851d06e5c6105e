------------------------------ MODULE Semaphore ------------------------------
(***************************************************************************)
(* Semaphores (port/semaphore.c): one semaphore and the threads that use   *)
(* it.  A critical section that does not call scheduling() is one step.    *)
(* One that does is two: the thread goes on after scheduling() when it is  *)
(* dispatched again, with interrupts still disabled (pc in Masked).  The   *)
(* timer interrupt wakes sleeping threads at every other moment and ends   *)
(* in scheduling().                                                        *)
(*                                                                         *)
(* role says which threads call what: wait, timed, try, post, and signal,  *)
(* the threads that others send unblocked signals to.                      *)
(***************************************************************************)
EXTENDS PthreadList

CONSTANTS
    Base,           \* priority of each thread
    SEM_VALUE_MAX,  \* 2^31 - 1 in the source
    InitValues,     \* values the application passes to sem_init
    Roles           \* the uses of the semaphore that are explored

ASSUME SemaphoreAssumption ==
    /\ Base \in [Threads -> Prios]
    /\ SEM_VALUE_MAX \in Nat \ {0} /\ InitValues \subseteq 0 .. SEM_VALUE_MAX
    /\ Roles \subseteq [wait : SUBSET Threads, timed : SUBSET Threads,
                        try : SUBSET Threads, post : SUBSET Threads,
                        signal : SUBSET Threads]

VARIABLES
    role,       \* the role of this behaviour; never changes
    k, cur,     \* thread states (KThreads) and current_thread
    value,      \* sem -> value
    list,       \* sem -> sem_list with the nodes of the threads
    live,       \* the semaphore is initialised
    pc,         \* where each thread goes on when it is dispatched
    reg,        \* the value that sem_timedwait_sys read
    timer       \* sleep_ktimer of each thread is armed

svars == <<role, k, cur, value, list, live, pc, reg, timer>>

(* "run": in the application; "wait", "post", "tw2": after scheduling() in *)
(* sem_wait_sys, sem_post_sys, sem_timedwait_sys; "tw0": sem_timedwait_sys *)
(* read the value; "tw1": before its critical section.                     *)
PCs    == {"run", "wait", "post", "tw0", "tw1", "tw2"}
Masked == {"wait", "post", "tw2"}

STypeOK ==
    /\ role \in Roles /\ k \in KType /\ cur \in Threads \cup {Idle}
    /\ value \in Int /\ list \in ListType /\ live \in BOOLEAN
    /\ pc \in [Threads -> PCs] /\ reg \in [Threads -> Int]
    /\ timer \in [Threads -> BOOLEAN]

SInit ==
    /\ role \in Roles /\ k = Asleep(Threads, Base) /\ cur = Idle
    /\ value \in InitValues /\ list = init_pthread_list /\ live = TRUE
    /\ pc = [t \in Threads |-> "run"] /\ reg = [t \in Threads |-> 0]
    /\ timer = [t \in Threads |-> TRUE]

At(t, p) == cur = t /\ pc[t] = p
Goto(t, p) == pc' = [pc EXCEPT ![t] = p]

-----------------------------------------------------------------------------
(* sem_init: only before first use or after sem_destroy.                   *)
sem_init_sys(t) ==
    /\ At(t, "run") /\ t \in role.wait /\ ~live
    /\ value' \in InitValues /\ list' = [list EXCEPT !.head = NULL] /\ live' = TRUE
    /\ UNCHANGED <<role, k, cur, pc, reg, timer>>

sem_destroy_sys(t) ==
    /\ At(t, "run") /\ t \in role.wait /\ live
    /\ list.head = NULL         \* else EBUSY
    /\ live' = FALSE
    /\ UNCHANGED <<role, k, cur, value, list, pc, reg, timer>>

(* Block the calling thread in the list; then the rest of scheduling().    *)
Block(t, p) ==
    /\ k' = suspend_thread(k, t) /\ list' = insert_pthread_list(list, t)
    /\ Goto(t, p) /\ cur' = scheduling(k')

(* Slip: a woken waiter does not lower the value.                          *)
sem_wait_resumes_Free(t) ==
    /\ At(t, "wait")
    /\ Goto(t, "run")
    /\ UNCHANGED <<role, k, cur, value, list, live, reg, timer>>

(* Slip: the thread is not put in the list.                                *)
sem_wait_sys_Unlinked(t) ==
    /\ At(t, "run") /\ t \in role.wait /\ live
    /\ IF value = 0
       THEN /\ k' = suspend_thread(k, t) /\ cur' = scheduling(k')
            /\ Goto(t, "wait") /\ UNCHANGED <<value, list>>
       ELSE value' = value - 1 /\ UNCHANGED <<k, cur, list, pc>>
    /\ UNCHANGED <<role, live, reg, timer>>

sem_wait_sys(t) ==
    /\ At(t, "run") /\ t \in role.wait /\ live
    /\ IF value = 0 THEN Block(t, "wait") /\ UNCHANGED value
       ELSE value' = value - 1 /\ UNCHANGED <<k, cur, list, pc>>
    /\ UNCHANGED <<role, live, reg, timer>>

(* After scheduling() the value is not looked at again.                    *)
sem_wait_resumes(t) ==
    /\ At(t, "wait")
    /\ value' = value - 1 /\ Goto(t, "run")
    /\ UNCHANGED <<role, k, cur, list, live, reg, timer>>

sem_trywait_sys(t) ==
    /\ At(t, "run") /\ t \in role.try /\ live
    /\ value # 0                \* else EAGAIN
    /\ value' = value - 1
    /\ UNCHANGED <<role, k, cur, list, live, pc, reg, timer>>

(* The first lines of sem_timedwait_sys are not in a critical section: an  *)
(* interrupt may come between reading and writing the value, and before    *)
(* the critical section.                                                   *)
sem_timedwait_sys(t) ==
    /\ At(t, "run") /\ t \in role.timed /\ live
    /\ reg' = [reg EXCEPT ![t] = value]
    /\ Goto(t, IF value > 0 THEN "tw0" ELSE "tw1")
    /\ UNCHANGED <<role, k, cur, value, list, live, timer>>

sem_timedwait_takes(t) ==
    /\ At(t, "tw0")
    /\ value' = reg[t] - 1
    /\ Goto(t, IF reg[t] - 1 > 0 THEN "run" ELSE "tw1")
    /\ reg' = [reg EXCEPT ![t] = 0]
    /\ UNCHANGED <<role, k, cur, list, live, timer>>

(* EINVAL for a tv_nsec out of range; a unit it has taken is gone.         *)
sem_timedwait_fails(t) ==
    /\ At(t, "tw1") /\ Goto(t, "run")
    /\ UNCHANGED <<role, k, cur, value, list, live, reg, timer>>

(* sleep_for arms the sleep timer, which stays armed if the thread is      *)
(* woken before it expires.  How long it is armed for is left out: it may  *)
(* expire at once, as it does when the deadline is past.                   *)
sem_timedwait_sleeps(t) ==
    /\ At(t, "tw1")
    /\ Block(t, "tw2") /\ timer' = [timer EXCEPT ![t] = TRUE]
    /\ UNCHANGED <<role, value, live, reg>>

(* Slip: the value is lowered without a test.                              *)
sem_timedwait_resumes_Untested(t) ==
    /\ At(t, "tw2")
    /\ list' = remove_pthread_list(list, t)
    /\ value' = value - 1
    /\ Goto(t, "run")
    /\ UNCHANGED <<role, k, cur, live, reg, timer>>

(* It returns 0 whether it was posted to or timed out.                     *)
sem_timedwait_resumes(t) ==
    /\ At(t, "tw2")
    /\ list' = remove_pthread_list(list, t)
    /\ value' = IF value > 0 THEN value - 1 ELSE value
    /\ Goto(t, "run")
    /\ UNCHANGED <<role, k, cur, live, reg, timer>>

(* A waiter is woken only at value 0, and scheduling() runs before the     *)
(* value is raised.                                                        *)
sem_post_sys(t) ==
    /\ At(t, "run") /\ t \in role.post /\ live
    /\ IF value = 0 /\ list.head # NULL
       THEN /\ k' = activate_thread(k, list.head)
            /\ list' = remove_head_pthread_list(list)
            /\ cur' = scheduling(k') /\ Goto(t, "post") /\ UNCHANGED value
       ELSE /\ value' = IF value < SEM_VALUE_MAX THEN value + 1 ELSE value \* ERANGE
            /\ UNCHANGED <<k, cur, list, pc>>
    /\ UNCHANGED <<role, live, reg, timer>>

sem_post_resumes(t) ==
    /\ At(t, "post")
    /\ value' = IF value < SEM_VALUE_MAX THEN value + 1 ELSE value
    /\ Goto(t, "run")
    /\ UNCHANGED <<role, k, cur, list, live, reg, timer>>

-----------------------------------------------------------------------------
(* What threads do besides: sleep (nanosleep calls sleep_for), and send a  *)
(* signal, which wakes its target and calls no scheduling().               *)
SSleep(t) ==
    /\ At(t, "run")
    /\ k' = suspend_thread(k, t) /\ timer' = [timer EXCEPT ![t] = TRUE]
    /\ cur' = scheduling(k')
    /\ UNCHANGED <<role, value, list, live, pc, reg>>

SKill(t) ==
    /\ At(t, "run")
    /\ \E u \in role.signal : k.st[u] = "SUSPENDED" /\ k' = activate_thread(k, u)
    /\ UNCHANGED <<role, cur, value, list, live, pc, reg, timer>>

(* The timer interrupt.                                                    *)
STimer(u) ==
    /\ timer[u] /\ (cur # Idle => pc[cur] \notin Masked)
    /\ timer' = [timer EXCEPT ![u] = FALSE]
    /\ k' = activate_thread(k, u) /\ cur' = scheduling(k')
    /\ UNCHANGED <<role, value, list, live, pc, reg>>

SStep(t) ==
    \/ sem_init_sys(t) \/ sem_destroy_sys(t) \/ sem_trywait_sys(t)
    \/ sem_wait_sys(t) \/ sem_wait_resumes(t)
    \/ sem_timedwait_sys(t) \/ sem_timedwait_takes(t)
    \/ sem_timedwait_fails(t) \/ sem_timedwait_sleeps(t) \/ sem_timedwait_resumes(t)
    \/ sem_post_sys(t) \/ sem_post_resumes(t)
    \/ SSleep(t) \/ SKill(t)

SNext == \E t \in Threads : SStep(t) \/ STimer(t)

(* The processor executes the current thread and armed timers expire.      *)
SFair == \A t \in Threads : WF_svars(SStep(t)) /\ WF_svars(STimer(t))

SSpec == SInit /\ [][SNext]_svars /\ SFair
-----------------------------------------------------------------------------
(* The value is never negative (every test in semaphore.c compares it with *)
(* zero, so a negative one counts as available) when a single thread of    *)
(* lower priority than the posters waits, or all waits are timed.          *)
NeverNegative == value >= 0

(* A thread blocked in sem_wait_sys or sem_timedwait_sys is in the list    *)
(* that sem_post_sys takes from, and a unit is never left lying while the  *)
(* only sem_wait_sys caller is blocked: no post is lost.                   *)
BlockedAreLinked ==
    /\ \A t \in Threads :
           pc[t] \in {"wait", "tw2"} /\ k.st[t] = "SUSPENDED" => t \in Linked(list)
    /\ \A t \in role.wait :
           pc[t] = "wait" /\ k.st[t] = "SUSPENDED" => value = 0

(* The semaphore counts (sem_wait_sys, sem_trywait_sys, sem_post_sys, with *)
(* interrupts and other threads wherever they call scheduling()): every    *)
(* wait that ends took exactly one unit that was there, every post added   *)
(* exactly one unless the value was at its maximum, and nobody else        *)
(* changes the value.  Said of the uses without sem_timedwait_sys, which   *)
(* loses concurrent changes of the value.                                  *)
Seen(x, y) == IF role.timed = {} THEN x ELSE y
AtPc(p) == {t \in Threads : pc[t] = p}
Abs == INSTANCE CountingSem WITH
    value   <- Seen(value, CHOOSE v \in InitValues : TRUE),
    live    <- Seen(live, TRUE),
    waiting <- Seen(AtPc("wait"), {}),
    posting <- Seen(AtPc("post"), {})
Counts == Abs!Spec

(* A thread that waits while a unit is available gets it, if the posting   *)
(* threads leave the processor again and again: sem_post_sys and the       *)
(* resumption of sem_wait_sys lose no wake-up.                             *)
WaitServed ==
    []<>(\A u \in role.post : k.st[u] # "READY") =>
        \A t \in Threads :
            (t \in role.wait /\ pc[t] = "wait" /\ value > 0) ~> (pc[t] # "wait")
=============================================================================
