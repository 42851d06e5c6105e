------------------------------ MODULE TimeCalls ------------------------------
(***************************************************************************)
(* The calls that tell the time and wait for it (port/time.c, port/rtl.c,  *)
(* ulibc/rtl.c) and the CPU time that scheduling() counts (port/sched.c).  *)
(* Timers has the timers behind them and why they expire in time; here a   *)
(* timer expires when its time has come, or later.  A timespec is a pair   *)
(* of seconds and nanoseconds.                                             *)
(***************************************************************************)
EXTENDS Integers

CONSTANTS
    Tasks, IdleTask,    \* threads; IdleTask is the one of create_idle
    NSECS_PER_USEC,     \* 1000
    USECS_PER_SEC,      \* 10^6
    Long,               \* 2^32
    Periods,            \* periods and times to sleep
    LastTime,           \* bound: how long the clock is followed
    MaxCalls            \* bound: calls of each thread

ASSUME TimeCallsAssumption ==
    /\ IdleTask \in Tasks /\ {NSECS_PER_USEC, USECS_PER_SEC, Long} \subseteq Nat \ {0}
    /\ Periods \subseteq Nat \ {0} /\ {LastTime, MaxCalls} \subseteq Nat

NSECS_PER_SEC == NSECS_PER_USEC * USECS_PER_SEC

VARIABLES
    clock,      \* what gettime_nsec returns
    runs,       \* the running thread
    task        \* of each thread, see NewTask

jvars == <<clock, runs, task>>

(* cpu and first say how long the thread ran and when it ran first; ask,   *)
(* begun, woken and cut belong to its last call: how long the caller       *)
(* wanted to sleep, when it began and ended to, and whether a signal woke  *)
(* it.  req is the time that sleep_for is called with.                     *)
NewTask == [state |-> "new", used_time |-> 0, starting_time |-> 0, period |-> 0, req |-> 0,
            ret |-> 0, rem |-> 0, calls |-> 0,
            cpu |-> 0, first |-> 0, ask |-> 0, begun |-> 0, woken |-> 0, cut |-> FALSE]

timespec(d) == <<d \div NSECS_PER_SEC, d % NSECS_PER_SEC>>
duration(ts) == ts[1] * NSECS_PER_SEC + ts[2]

(* create_idle reads the clock.  Nothing sets starting_time in the other   *)
(* threads: startup, which would, is not built.                            *)
JInit ==
    /\ clock = 0 /\ runs = IdleTask
    /\ task = [t \in Tasks |-> IF t = IdleTask THEN [NewTask EXCEPT !.state = "ready"] ELSE NewTask]

(* The rest of scheduling() is Sched.  A thread that runs first goes to    *)
(* user mode and not through the end of scheduling().                      *)
(* Slip: the thread that goes is not charged.                              *)
Charge_Free(ts, n) ==
    IF n = runs THEN ts
    ELSE [ts EXCEPT ![n].starting_time = IF ts[n].state = "new" THEN @ ELSE clock,
                    ![n].first = IF ts[n].state = "new" THEN clock ELSE @,
                    ![n].state = "ready"]
Charge(ts, n) ==
    IF n = runs THEN ts
    ELSE [ts EXCEPT ![runs].used_time = @ + clock - ts[runs].starting_time,
                    ![n].starting_time = IF ts[n].state = "new" THEN @ ELSE clock,
                    ![n].first = IF ts[n].state = "new" THEN clock ELSE @,
                    ![n].state = "ready"]
Runnable(ts) == {t \in Tasks : ts[t].state \in {"ready", "new"}}
scheduling(ts) == \E n \in Runnable(ts) : task' = Charge(ts, n) /\ runs' = n /\ UNCHANGED clock

(* The calls the running thread makes of its own.                          *)
CallsOf(t) == runs = t /\ t # IdleTask /\ task[t].state = "ready" /\ task[t].calls < MaxCalls

-----------------------------------------------------------------------------
(* pthread_setperiod_np_sys, from pthread_make_periodic_np (which does not *)
(* look at the start time).                                                *)
pthread_setperiod_np_sys(value) == duration(value)
pthread_make_periodic_np(t, p) ==
    /\ CallsOf(t) /\ task' = [task EXCEPT ![t].period = pthread_setperiod_np_sys(timespec(p)),
                                        ![t].calls = @ + 1]
    /\ UNCHANGED <<clock, runs>>

(* sleep_for, up to scheduling().  A thread that a signal woke does not    *)
(* sleep again: its timer is still armed (see SignalWakes in Timers).      *)
sleep_for(t, d, asked) ==
    /\ CallsOf(t) /\ ~task[t].cut
    /\ scheduling([task EXCEPT ![t].state = "asleep", ![t].req = d, ![t].ask = asked,
                               ![t].begun = clock, ![t].calls = @ + 1])

(* The product in usleep_sys has the width of useconds_t.                  *)
nanosleep_sys(t, req) == sleep_for(t, duration(req), duration(req))
usleep_sys(t, usec) == sleep_for(t, (usec * NSECS_PER_USEC) % Long, usec * NSECS_PER_USEC)
pthread_getperiod_np_sys(t) == task[t].period
pthread_wait_np(t) ==
    LET period == pthread_getperiod_np_sys(t) IN period > 0 /\ nanosleep_sys(t, timespec(period))

(* Its timer expires, or a signal comes.                                   *)
Wakes(t) ==
    /\ task[t].state = "asleep"
    /\ \E cut \in BOOLEAN :
         /\ cut \/ clock >= task[t].begun + task[t].req
         /\ task' = [task EXCEPT ![t].state = "woken", ![t].cut = cut, ![t].woken = clock]
    /\ UNCHANGED <<clock, runs>>
(* A thread that is switched out at the end of its call comes back there.  *)
Resumes(t) ==
    /\ task[t].state \in {"woken", "back"} /\ t # runs
    /\ task' = [Charge(task, t) EXCEPT ![t].state = "back"] /\ runs' = t
    /\ UNCHANGED clock

(* The end of sleep_for and of nanosleep_sys: what was asked for is        *)
(* compared with the clock.                                                *)
SleepEnds(t) ==
    /\ runs = t /\ task[t].state = "back"
    /\ LET d == IF task[t].req > clock THEN task[t].req - clock ELSE 0
       IN  task' = [task EXCEPT ![t].state = "ready", ![t].ret = IF d > 0 THEN -1 ELSE 0,
                                ![t].rem = duration(timespec(d))]
    /\ UNCHANGED <<clock, runs>>

-----------------------------------------------------------------------------
read_thread_cputime(t) == task[t].used_time + clock - task[t].starting_time
clock_gettime_sys(id) ==
    CASE id = "CLOCK_THREAD_CPUTIME_ID" -> timespec(read_thread_cputime(runs))
      [] OTHER -> timespec(clock)                   \* CLOCK_REALTIME, CLOCK_MONOTONIC
gettimeofday_sys == LET d == clock \div NSECS_PER_USEC IN <<d \div USECS_PER_SEC, d % USECS_PER_SEC>>
time_sys == clock \div NSECS_PER_SEC

Passes ==
    /\ clock < LastTime /\ clock' = clock + 1
    /\ task' = [task EXCEPT ![runs].cpu = @ + 1]
    /\ UNCHANGED runs

JNext ==
    \/ Passes \/ (task[runs].state = "ready" /\ scheduling(task))
    \/ \E t \in Tasks : Wakes(t) \/ Resumes(t) \/ SleepEnds(t) \/ pthread_wait_np(t)
    \/ \E t \in Tasks, p \in Periods :
         pthread_make_periodic_np(t, p) \/ nanosleep_sys(t, timespec(p)) \/ usleep_sys(t, p)

JSpec == JInit /\ [][JNext]_jvars

-----------------------------------------------------------------------------
(* Who is told that time is left (-1) was interrupted by a signal, and     *)
(* what it is told is not too much: sleeping for the rest does not take    *)
(* longer than the caller asked in the first place, although sleep_for     *)
(* compares with the clock and not with the time slept.  The four calls    *)
(* that read the clock agree to the microsecond.  Between two readings of  *)
(* its CPU clock a thread finds exactly the time that it ran, whatever was *)
(* charged at the switches in between; the readings are not the time that  *)
(* it ran in all, since they start at the age of the system when it ran    *)
(* first (starting_time is 0 then).                                        *)
TimesRight ==
    /\ \A t \in Tasks : task[t].state = "ready" /\ task[t].ret = -1 =>
           task[t].cut /\ task[t].woken + task[t].rem <= task[t].begun + task[t].ask
    /\ LET mono == clock_gettime_sys("CLOCK_MONOTONIC")
           day == gettimeofday_sys
       IN  mono[1] = time_sys /\ day[1] = time_sys /\ mono[2] \div NSECS_PER_USEC = day[2]
    /\ task[runs].state = "ready" =>
           duration(clock_gettime_sys("CLOCK_THREAD_CPUTIME_ID")) = task[runs].first + task[runs].cpu
=============================================================================
