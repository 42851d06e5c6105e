------------------------------- MODULE Timers -------------------------------
(***************************************************************************)
(* Kernel timers and sleeping threads (port/time.c) on the heap of         *)
(* TimerHeap, with the clock and the one-shot timer of the OMAP4           *)
(* (common/arm_omap4_pit.c).                                               *)
(*                                                                         *)
(* One step is one critical section, as in Sched.  The scheduler is seen   *)
(* through what time.c asks of it: a thread runs, or sleeps in sleep_for;  *)
(* scheduling() gives the processor to some thread that does not sleep.    *)
(* A system call that consists of several critical sections keeps the rest *)
(* of its work in todo; the clock interrupt may come in between and switch *)
(* to another thread.  All timers run on the monotonic clock, which is the *)
(* realtime clock, too.                                                    *)
(***************************************************************************)
EXTENDS TimerHeap

CONSTANTS
    Threads,        \* threads of the application
    Idle,           \* what runs when all of them sleep
    MAX_TIMERS,     \* length of timer_array, 32 in the source
    Word,           \* 2^32 in the source
    TicksPer,       \* 384 ticks of the hardware ...
    NsecPer,        \* ... are 10000 ns
    MaxTicks,       \* bound: how far the hardware clock is followed
    Delays,         \* times the application sleeps or sets timers for
    Intervals,      \* periods of its timers (0: none)
    SignalWakes,    \* its timers' signals are not blocked while it sleeps
    SharedTimers    \* its threads set and delete timers of each other

ASSUME TimersAssumption ==
    /\ Idle \notin Threads
    /\ {MAX_TIMERS, Word, TicksPer, NsecPer} \subseteq Nat \ {0}
    /\ MaxTicks \in Nat /\ {SignalWakes, SharedTimers} \subseteq BOOLEAN
    /\ Delays \subseteq Nat \ {0} /\ Intervals \subseteq Nat

TimerIds == 0 .. MAX_TIMERS - 1
HEAP_MAX_NELEM == MAX_TIMERS + 1
NoThread == -2      \* sleep timer of a thread that does not exist
Off == -1           \* the hardware timer is not running

VARIABLES
    k,          \* kernel data: timer_array, timer_heap, sleeping threads
    slp,        \* sleep_ktimer of each thread, as an index
    cur,        \* the running thread
    todo,       \* what is left of each thread's system call
    ticks,      \* current_time_hi and the hardware counter, as one number
    hw          \* when the hardware timer interrupts, or Off

vars == <<k, slp, cur, todo, ticks, hw>>

(* k.fault: the kernel went on with a bad pointer or index, or spins in    *)
(* the loop of update_hwtimer.  The model stops there.                     *)
Unused == [use |-> FALSE, armed |-> FALSE, abs |-> FALSE, value |-> 0,
           interval |-> 0, owner |-> Idle, act |-> "wakeup"]
Done == [op |-> "none"]

Alive    == {t \in Threads : slp[t] # NoThread}
Values(tm) == [i \in TimerIds |-> tm[i].value]

-----------------------------------------------------------------------------
(* The clock: ticks become nanoseconds in steps of NsecPer.  The upper     *)
(* word of the counter, kept by a thread of its own (time_irq_thread), is  *)
(* taken to be exact.                                                      *)

nsec(t) == (t \div TicksPer) * NsecPer

Now == nsec(ticks)

(* set_hwtimer counts whole steps of NsecPer, and one tick to the overflow.*)
set_hwtimer(interval) == ticks + (interval \div NsecPer) * TicksPer + 1

get_min_interval == NsecPer \div TicksPer
get_max_interval == ((Word - 1) * NsecPer) \div TicksPer

-----------------------------------------------------------------------------
(* timer_array.                                                            *)

Free(tm) == {i \in TimerIds : ~tm[i].use}

(* The first free timer, or -1.                                            *)
alloc_index(tm) == IF Free(tm) = {} THEN -1
                   ELSE CHOOSE i \in Free(tm) : \A j \in Free(tm) : i <= j

(* The callers use the index without a check that would notice -1.         *)
alloc_ktimer(kk, owner, act) ==
    LET i == alloc_index(kk.tm)
    IN  IF i = -1 THEN [kk EXCEPT !.fault = TRUE]
        ELSE [kk EXCEPT !.tm[i] = [Unused EXCEPT !.use = TRUE, !.owner = owner,
                                                 !.act = act]]

Unheap(kk, i) == HEAP_remove_element(kk.heap, Values(kk.tm), i)

free_ktimer(kk, i) ==
    [kk EXCEPT !.heap = Unheap(kk, i), !.tm[i].use = FALSE, !.tm[i].armed = FALSE,
               !.tm[i].abs = FALSE]

(* Slip: the timer stays in the heap.                                      *)
disarm_timer_FlagOnly(kk, i) == [kk EXCEPT !.tm[i].armed = FALSE]

disarm_timer(kk, i) == [kk EXCEPT !.heap = Unheap(kk, i), !.tm[i].armed = FALSE]

(* HEAP_insert has an index past the array when one slot is left for it.   *)
Enheap(kk, i) ==
    [kk EXCEPT !.heap = HEAP_insert(kk.heap, Values(kk.tm), i, HEAP_MAX_NELEM),
               !.fault = kk.fault \/ Len(kk.heap) + 1 = HEAP_MAX_NELEM]

arm_timer(kk, i, value, interval) ==
    IF ~kk.tm[i].use THEN kk
    ELSE Enheap([kk EXCEPT !.tm[i].value = IF kk.tm[i].abs THEN value ELSE value + Now,
                           !.tm[i].armed = TRUE,
                           !.tm[i].interval = interval], i)

-----------------------------------------------------------------------------
(* Expiry.  The difference of two words, read as a signed word.            *)
SignedDiff(a, b) ==
    LET d == (a - b) % Word IN IF 2 * d >= Word THEN d - Word ELSE d

(* Slip: a timer whose time is now has not expired.                        *)
Expired_Strict(value, ctime) ==
    LET hi == SignedDiff(value \div Word, ctime \div Word)
        lo == SignedDiff(value % Word, ctime % Word)
    IN  hi > 0 \/ (hi = 0 /\ lo < 0)

Expired(value, ctime) ==
    LET hi == SignedDiff(value \div Word, ctime \div Word)
        lo == SignedDiff(value % Word, ctime % Word)
    IN  hi > 0 \/ (hi = 0 /\ lo <= 0)

Due(kk) == kk.heap # <<>> /\ Expired(kk.tm[HEAP_min(kk.heap)].value, Now)

(* One round of the loop: the action of the first timer, its removal, and  *)
(* its return to the heap when it is periodic and its owner still exists.  *)
(* action_kill wakes the owner when it does not block the signal.          *)
Expire(kk) ==
    LET i      == HEAP_min(kk.heap)
        t      == kk.tm[i]
        again  == t.interval > 0 /\ t.owner \in Alive
        asleep == IF t.act = "wakeup" \/ SignalWakes
                  THEN kk.asleep \ {t.owner} ELSE kk.asleep
        k1     == [kk EXCEPT !.asleep = asleep,
                             !.heap = HEAP_remove_min(kk.heap, Values(kk.tm)),
                             !.tm[i].armed = again]
    IN  IF again THEN Enheap([k1 EXCEPT !.tm[i].value = t.interval + Now], i) ELSE k1

(* The loop, followed for Rounds rounds; if it is not over then, it goes   *)
(* on, with interrupts disabled, until the clock shows another time.       *)
Rounds == 2 * MAX_TIMERS
ExpireAll(kk) ==
    LET round[n \in 0 .. Rounds] ==
            IF n = 0 THEN kk
            ELSE IF Due(round[n - 1]) THEN Expire(round[n - 1]) ELSE round[n - 1]
        last == round[Rounds]
    IN  [last EXCEPT !.fault = last.fault \/ Due(last)]

NextTime(kk) ==
    LET next == (kk.tm[HEAP_min(kk.heap)].value - Now) % (Word * Word)
    IN  IF next < get_min_interval THEN get_min_interval
        ELSE IF next > get_max_interval THEN get_max_interval ELSE next

(* Slip: the hardware timer is only set when nothing expired.              *)
update_hwtimer_Once(off) ==
    /\ \/ k' = ExpireAll(k)
       \/ k.heap = <<>> /\ k' = [k EXCEPT !.fault = TRUE]
    /\ hw' = IF k'.heap = <<>> \/ Due(k) THEN off ELSE set_hwtimer(NextTime(k'))

(* update_hwtimer; off is where it leaves the hardware timer when the heap *)
(* is empty.  With an empty heap it reads through a null pointer first:    *)
(* that ends in a fault or has no effect, as the compiler chooses.         *)
update_hwtimer(off) ==
    /\ \/ k' = ExpireAll(k)
       \/ k.heap = <<>> /\ k' = [k EXCEPT !.fault = TRUE]
    /\ hw' = IF k'.heap = <<>> THEN off ELSE set_hwtimer(NextTime(k'))

(* scheduling(): some thread that does not sleep.                          *)
Scheduling(alive) ==
    cur' \in (IF alive \subseteq k'.asleep THEN {Idle} ELSE alive \ k'.asleep)

-----------------------------------------------------------------------------
(* System calls of the running thread.                                     *)

InCall == ~k.fault /\ cur \in Threads
Ready  == InCall /\ todo[cur] = Done

Init ==
    \E first \in Threads :
        /\ k = [tm     |-> [i \in TimerIds |->
                              IF i = 0 THEN [Unused EXCEPT !.use = TRUE, !.owner = first]
                              ELSE Unused],
                heap   |-> <<>>,
                asleep |-> {},
                fault  |-> FALSE]
        /\ slp = [t \in Threads |-> IF t = first THEN 0 ELSE NoThread]
        /\ cur = first
        /\ todo = [t \in Threads |-> Done]
        /\ ticks = 0
        /\ hw = Off

(* create_pthread_struct, then the scheduling() of pthread_create.         *)
ThreadCreate(t) ==
    /\ Ready /\ t \notin Alive
    /\ k' = alloc_ktimer(k, t, "wakeup")
    /\ slp' = [slp EXCEPT ![t] = alloc_index(k.tm)]
    /\ Scheduling(Alive \cup {t})
    /\ UNCHANGED <<todo, ticks, hw>>

(* pthread_exit_sys.                                                       *)
ThreadExit ==
    /\ Ready
    /\ k' = free_ktimer(k, slp[cur])
    /\ slp' = [slp EXCEPT ![cur] = NoThread]
    /\ Scheduling(Alive \ {cur})
    /\ UNCHANGED <<todo, ticks, hw>>

timer_create_sys ==
    /\ Ready
    /\ k' = alloc_ktimer(k, cur, "kill")
    /\ UNCHANGED <<slp, cur, todo, ticks, hw>>

(* The application only names timers it created.                           *)
UserTimers == {i \in TimerIds : /\ k.tm[i].use /\ k.tm[i].act = "kill"
                                /\ SharedTimers \/ k.tm[i].owner = cur}

timer_delete_sys(i) ==
    /\ Ready /\ i \in UserTimers
    /\ k' = free_ktimer(k, i)
    /\ UNCHANGED <<slp, cur, todo, ticks, hw>>

(* timer_settime_sys up to disarm_timer; a value of 0 only disarms.        *)
timer_settime_sys(i, abs, value, interval) ==
    LET k1 == IF k.tm[i].armed THEN disarm_timer(k, i) ELSE k
    IN  /\ Ready /\ i \in UserTimers
        /\ k' = [k1 EXCEPT !.tm[i].abs = abs]
        /\ todo' = [todo EXCEPT ![cur] =
                      IF value = 0 THEN Done
                      ELSE [op |-> "arm", timer |-> i, value |-> value,
                            interval |-> interval]]
        /\ UNCHANGED <<slp, cur, ticks, hw>>

SettimeArm ==
    /\ InCall /\ todo[cur].op = "arm"
    /\ k' = arm_timer(k, todo[cur].timer, todo[cur].value, todo[cur].interval)
    /\ todo' = [todo EXCEPT ![cur] = [op |-> "update"]]
    /\ UNCHANGED <<slp, cur, ticks, hw>>

SettimeUpdate ==
    /\ InCall /\ todo[cur].op = "update"
    /\ update_hwtimer(hw)
    /\ todo' = [todo EXCEPT ![cur] = Done]
    /\ UNCHANGED <<slp, cur, ticks>>

(* sleep_for: the timer is armed and the thread suspended ...              *)
sleep_for(d) ==
    /\ Ready
    /\ k' = [arm_timer(k, slp[cur], d, 0) EXCEPT !.asleep = k.asleep \cup {cur}]
    /\ todo' = [todo EXCEPT ![cur] = [op |-> "sleep"]]
    /\ UNCHANGED <<slp, cur, ticks, hw>>

(* ... then update_hwtimer and scheduling(), which comes back when the     *)
(* thread has been woken.                                                  *)
SleepUpdate ==
    /\ InCall /\ todo[cur].op = "sleep"
    /\ update_hwtimer(hw)
    /\ todo' = [todo EXCEPT ![cur] = Done]
    /\ Scheduling(Alive)
    /\ UNCHANGED <<slp, ticks>>

-----------------------------------------------------------------------------
(* hwtimer_irq_handler: the one-shot timer is off, then clock_handler; a   *)
(* call of scheduling() takes effect at the end of do_irq.                 *)
ClockIrq ==
    /\ ~k.fault
    /\ hw # Off /\ ticks >= hw
    /\ update_hwtimer(Off)
    /\ IF Due(k) THEN Scheduling(Alive) ELSE UNCHANGED cur
    /\ UNCHANGED <<slp, todo, ticks>>

(* The hardware counts; the clock is followed up to MaxTicks.              *)
Tick ==
    /\ ~k.fault /\ ticks < MaxTicks
    /\ ticks' = ticks + 1
    /\ UNCHANGED <<k, slp, cur, todo, hw>>

Next ==
    \/ ThreadExit \/ timer_create_sys \/ SettimeArm \/ SettimeUpdate \/ SleepUpdate
    \/ ClockIrq \/ Tick
    \/ \E t \in Threads : ThreadCreate(t)
    \/ \E d \in Delays : sleep_for(d)
    \/ \E i \in TimerIds : timer_delete_sys(i)
    \/ \E i \in TimerIds, abs \in BOOLEAN, v \in Delays \cup {0}, p \in Intervals :
         timer_settime_sys(i, abs, v, p)

Spec == Init /\ [][Next]_vars

-----------------------------------------------------------------------------
(* Properties.                                                             *)

(* The heap holds every armed timer of timer_array exactly once and        *)
(* nothing else, and it fits into its array, whatever was armed, disarmed, *)
(* deleted and expired before (TIMER_ARMED and timer_heap are kept by      *)
(* different functions of time.c).                                         *)
HeapSound ==
    LET h == k.heap
    IN  ~k.fault =>
          /\ {h[i] : i \in 1 .. Len(h)} = {i \in TimerIds : k.tm[i].armed}
          /\ \A i, j \in 1 .. Len(h) : h[i] = h[j] => i = j
          /\ Len(h) < HEAP_MAX_NELEM

(* Sleeping takes as long as it was asked to: a thread is not woken before *)
(* the time of its sleep timer, and no update_hwtimer leaves one asleep    *)
(* whose time has come ("the already triggered clocks", time.c).  This and *)
(* HwCovers rely on HEAP_min, and so on heaps of at most five timers: see  *)
(* HEAP_check_min in MCTimerHeap.                                          *)
SleepExact ==
    [][/\ \A t \in k.asleep \ k'.asleep : k.tm[slp[t]].value <= Now
       /\ (ClockIrq \/ SleepUpdate \/ SettimeUpdate) /\ ~k'.fault =>
            \A t \in k'.asleep : k'.tm[slp'[t]].value > Now]_vars

(* Who sleeps has its own sleep timer armed: nothing that happens between  *)
(* arm_timer and the wake-up in sleep_for disarms or frees it, or gives it *)
(* to somebody else.                                                       *)
SleepersArmed ==
    ~k.fault => \A t \in k.asleep : k.tm[slp[t]].armed /\ k.tm[slp[t]].owner = t

(* Who sleeps will be woken: its timer is armed, and the processor is      *)
(* never left without a wake-up call: while timers are armed, the hardware *)
(* interrupts when the first of them expires at the latest (to a step of   *)
(* the clock), or the running thread itself is about to set it.  A thread  *)
(* that is switched out between arming its timer and setting the hardware  *)
(* does not leave it unset.                                                *)
HwCovers ==
    /\ SleepersArmed
    /\ ~k.fault =>
           \/ k.heap = <<>>
           \/ cur \in Threads /\ todo[cur] # Done
           \/ hw # Off /\ nsec(hw) <= k.tm[HEAP_min(k.heap)].value + NsecPer
=============================================================================
