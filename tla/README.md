# A TLA+ development of l4ertl

l4ertl is the PaRTiKle real-time kernel (POSIX threads for one processor) run as
a vCPU of the Fiasco.OC microkernel on ARM.  This directory models its kernel
(`src/server/core`, `src/include/ertl_core`) and the user library over it
(`src/server/ulibc`), checks small instances with TLC, and proves with TLAPS, for
every size, the main properties of the scheduler, of semaphores, mutexes and
condition variables, of signals and joins, of the timers, of the calls that
tell the time, of the calendar and of several other services.

Source paths below are relative to `src/server/core` unless they start with
`include/` (relative to `src`) or `ulibc/` (relative to `src/server`).

## 1. Inventory

| component | state | operations | must be true of it | module |
|---|---|---|---|---|
| ready structure, `include/ertl_core/sched_struct.h` | `thread_matrix`, bitmaps, links and place of each thread | `insert_ss`, `insert_ss_tail`, `remove_ss`, `get_head_ss` | describes exactly the READY threads; order among equals | `SchedStruct` |
| scheduler, `port/sched.c` | thread states and priorities, `current_thread`, `active_threads` | create, delete, activate, suspend, finish, change priority, yield, `scheduling` | every dispatch goes to the best READY thread, the idle thread last | `Sched` |
| kernel stacks, `arm/arm_l4_stack.c` | `kstack_flag`, `kentry_sp` | `alloc_kstack` at the first dispatch, `free_kstack`, `setup_stack` | no stack shared, none leaked; a new thread begins as asked | `Sched`, `SyscallPath` |
| kernel entry and context switch, `arm/dispatch_syscalls.c`, `arm/arm_context_switch.c`, `common/irqs-l4.c`, `port/syscalls.c` | kernel stacks, registers, interrupt flag, `irq_nesting_counter` | system call, `do_irq`, `context_switch_to` | no rescheduling request lost; each call reaches its function and its result its caller | `Sched`, `SyscallPath` |
| critical sections, `include/ertl_core/l4/processor.h` | vCPU interrupt flag | `hw_save_flags_and_cli`, `hw_restore_flags` | what lies between is atomic for handlers | `SchedWindow` |
| thread life cycle, `port/pthread.c`, `port/rtl.c` | detach state, `joining_thread`, cancel state, cleanup table | create, join, detach, cancel, exit, cleanup | a joiner is woken when its thread ends, nothing is used after it was freed | `ThreadLife` |
| signals, `port/signal.c` | pending and blocked sets, `signal_table` | kill, sigmask, sigaction, sigsuspend, sigwait, `do_signals` | none lost, masks come back, sigwait ends | `ThreadLife` |
| semaphores, `port/semaphore.c`, `include/ertl_core/pthread_list.h` | value, waiters | init, destroy, wait, trywait, timedwait, post | a wait takes one unit and a post adds one (where no wait is timed), waiters are served | `Semaphore` |
| mutexes and condition variables, `port/pthread.c`, `ulibc/pthread.c` | owner, counter, ceiling, waiters | lock, trylock, unlock, setprioceiling, wait, timedwait, signal, broadcast | mutual exclusion, no waiter forgotten, the owner runs at the ceiling and nobody else | `MutexCond` |
| thread-specific data, `port/pthread.c` | key table, `tsd` | create, delete, set, get | keys are private | not modelled |
| attributes, `ulibc/pthread.c`, `ulibc/sched.c` | attribute objects | setters, getters, creation | what was set arrives | not modelled |
| timers, `port/time.c`, `port/heap.c` | `timer_array`, heap | arm, disarm, expiry, sleep, timer calls | in order, neither early nor never | `Timers`, `TimerHeap` |
| time calls, `port/time.c`, `port/rtl.c`, `ulibc/rtl.c` | clocks, CPU time, periods | clock_gettime, nanosleep, usleep, periods, ... | clocks agree, what is reported as left is left, CPU time counts | `TimeCalls` |
| timer hardware, `common/arm_omap4_pit.c`, `common/l4_icu.c` | registers, `current_time_hi` | `set_hwtimer`, interrupts, `time_irq_thread`, `read_l4_timer` | no interval and no overflow is lost | `TimerHw` |
| system memory, `common/l4_sysmem.c`, `libc/tlsf.c`, `ulibc/stdlib.c` | block list; blocks, free lists, bitmaps | `alloc_region`, `ualloc`, malloc, free, realloc | allocations are disjoint, the structures sound | `SysMem`, `Tlsf` |
| files and devices, `port/fs.c`, `port/dev*.c` | table of open files | open, close, read, write | a descriptor has one holder, reads come in order | `DevFs` |
| boot, `vmain.c`, `elf-loader.c`, `port/setup.c`, `ulibc/user_entry_point.c` | what has been set up | the steps from `main` to the application | nothing is used before it is there | `Startup` |
| C libraries, `ulibc/`, `libc/` | streams, memory | printf, scanf, strings, streams, calendar | agree with reference definitions | `Stdarg`, `Stdio`, `CString`, `Calendar` |

Interaction.  Everything that blocks calls `suspend_thread (current_thread)`,
links the thread in a list of its own and calls `scheduling ()`; everything that
wakes calls `activate_thread` and, mostly, `scheduling ()`.  System calls run
with interrupts enabled (`hw_sti` in `l4ertl_entry_from_user`); handlers run
with interrupts disabled and share the data of the system calls.  `scheduling ()`
inside a handler only sets `SCHED_PENDING`; `do_irq` makes the call at its end.
A thread may therefore be switched out in two places, inside a system call and
inside `do_irq`, and goes on there when it is switched in.  Signals are handled
on the way out of both.  Beside the vCPU one more L4 thread, `time_irq_thread`,
counts the overflows of the clock.

Hard behaviours: interrupts between and inside critical sections, threads that
stop and go on in the middle of kernel code, wake-ups by somebody else than the
one waited for (a stale sleep timer, a signal), code without critical sections
(`pthread_exit_sys`, keys, files, the start of `sem_timedwait_sys`), counters
that run on between two accesses to registers, limits and word boundaries.
`PROJECT.json` lists these under "hazards", each at its line, with the
properties that would show it going wrong; where a property holds only for some
uses, the note says what happens in the others.

## 2. Modules

How they build on each other:

    SchedStruct <- Sched <- SchedWindow             (SchedWindow implements Sched,
                                                     Sched implements ReadyQueue)
    KThreads <- PthreadList <- Semaphore, MutexCond (Semaphore implements CountingSem)
    KThreads <- ThreadLife
    TimerHeap <- Timers;   TimerHw, TimeCalls: below and above Timers
    Stdarg <- Stdio
    SyscallPath <- MCSyscalls (the calls of the threads and of their handlers)
    MCServices puts DevFs, Tlsf, SysMem, MCSyscalls, CString, Stdio, Calendar,
    TimeCalls, TimerHw and Startup side by side

and the proofs, of which each extends the module it is about:

    SchedStructProofs <- SchedProofs   (Sched and SchedWindow)
    KThreadsProofs    <- SemaphoreProofs, MutexCondProofs, ThreadLifeProofs
    TimersProofs         (Timers)
    ServicesProofs       (TimerHw, DevFs, SysMem, SyscallPath, TimeCalls, Calendar)

**Scheduler.**

* `SchedStruct` - the ready structure.  A record of the C fields; each function
  of the header is an operator on it.  The bitmaps are sets of indices, so the
  first set bit (`_ffs`) is the least element.  A freshly zeroed structure has
  `ss_i = ss_j = 0` (`zero_ss`) and not -1, as in the code.
* `Sched` - the scheduler with kernel stacks, context switch and interrupts.
  `k` holds the kernel data, `ctx[t]` what thread t's kernel stack holds (where
  it goes on), `resched` the frames that are on their way to a call of
  `scheduling ()`; `nest` and `pend` are the two parts of `irq_nesting_counter`.
  `Finish`, `Suspend`, `Activate` and `IrqWake` stand for the callers of the
  corresponding functions in the rest of the kernel: those suspend and finish
  only the current thread and activate any thread at any time.
* `SchedWindow` - `Sched` with `suspend_thread`, `activate_thread` and
  `scheduling` of the system calls split in two, so that an interrupt can come
  in the middle.  `CliMasks` selects the `hw_save_flags_and_cli` of the build.
* `ReadyQueue` - the abstract scheduler: one sequence of threads per priority.
  The mapping is at the end of `Sched`: `Queues(k.ss)`, what a walk along each
  list of `active_threads` finds.
* `MCSched`, `MCSchedWindow` - the symmetry sets for TLC.
* `SchedStructProofs`, `SchedProofs` - the proofs.

| `Sched` action | code |
|---|---|
| `Init`, `CreateIdle` | `create_idle`, `pthread_create_idle_sys` |
| `SyscallEnter`, `SyscallReturn` | `l4ertl_entry_from_user` |
| `Create` | `pthread_create_sys`, `pthread_create2_sys`, also when `alloc_stack` fails |
| `Activate` | callers of `activate_thread` in system calls |
| `Suspend` | blocking calls, `SLEEP_THREAD_handler` |
| `Finish` | `pthread_exit_sys`, `CANCEL_THREAD_handler` |
| `SetPrio` | `pthread_setschedparam_sys`, priority ceilings |
| `pthread_yield_sys`, `pthread_delete_np_sys` | the same |
| `Delete` | the end of `pthread_join_sys` |
| `CallScheduling` | `scheduling ()` outside handlers |
| `IrqEnter`, `IrqWake`, `IrqExit`, `IrqReturn` | `l4ertl_vcpu_entry_c`, `clock_handler`, end of `do_irq`, resumption |

**Synchronisation.**

* `KThreads` - what the blocking calls see of the scheduler: states, priorities
  and the queues of `ReadyQueue`, which `Sched` implements; `PthreadList` - the
  lists of blocked threads.
* `Semaphore`, `MutexCond`, `ThreadLife` - one object and the threads that use
  it.  A critical section without `scheduling ()` is one step.  Where the code
  calls `scheduling ()` the step ends, and a second one (`sem_wait_resumes`,
  `pthread_mutex_lock_resumes`, `pthread_join_resumes`, ...) begins when the
  thread is dispatched again; `pc` says where a thread goes on.  Code outside
  critical sections is split further.  The timer interrupt may come between any
  two steps unless the code has interrupts disabled there (`Masked`), wakes a
  thread and reschedules.  Sleep timers stay armed when a thread is woken
  early, as in `sleep_for`.  `role`, chosen at the start, says what the
  application does with the object; `MayLock` in `MutexCond` is such a rule too
  (a normal mutex is not taken twice by the same thread).
* `ThreadLife` also has signals: a thread leaves every system call, and every
  interrupt that it was current in, through `do_signals`, whose activations on
  its stack are `frames[t]`; handlers run with interrupts enabled, so
  activations nest.
* `CountingSem` - what a semaphore promises: a wait takes one unit that is there,
  a post adds one, the maximum aside, and nothing else changes the value of a
  semaphore but `sem_init` after `sem_destroy`.  The uses with `sem_timedwait`, whose
  unprotected read and write of the value loses concurrent changes, are mapped to
  a semaphore that does nothing: `Counts` says nothing of them.

**Time.**

* `TimerHeap` - `port/heap.c` as operators on the sequence `array[1..nelem]`.
* `Timers` - `port/time.c` with a one-shot timer.  `k` holds `timer_array`,
  `timer_heap` and the set of sleeping threads, `slp` the `sleep_ktimer` of each
  thread, `todo` what is left of a system call between its critical sections,
  `ticks` the clock, `hw` the time of the next timer interrupt.  `scheduling ()`
  gives the processor to some thread that does not sleep, so what holds in it
  holds for every assignment of priorities.  `update_hwtimer` is one step, the
  whole loop over the expired timers included; the expiry test keeps the two
  words of the code, with `Word` for 2^32.  The clock moves between steps only.
  Timers on the CPU-time clock are left out; on this hardware the realtime clock
  is the monotonic one.
* `TimerHw` - the registers under `hw` and `ticks`: one step is one access to a
  register of GPTIMER2 or GPTIMER10 or one call of L4, and the counters go on
  between any two of them.
* `TimeCalls` - the calls over the timers: clocks, CPU time, sleeping and what
  is reported as left, periods.  `ask` is what the caller asked for, `req` what
  `sleep_for` was given: they differ where `usleep_sys` multiplies in 32 bits.

**Services.**

* `DevFs` - the table of open files; a step ends wherever another thread may run.
* `Tlsf` - blocks, headers, lists and bitmaps byte by byte; `SysMem` - the list of
  blocks under it.  Where `realloc` or `ualloc_sys` goes on without a block it writes
  to address 0; `astray` and `wiped` say so, and nothing happens afterwards.
* `SyscallPath` - the way of a system call from the stub through `entry_uregs`, the
  table and back, with other threads' calls and interrupts in between, and the
  first registers of a new thread.  The handlers that `do_signals` calls run in the
  kernel's mode; what they call comes through `l4ertl_entry_from_kern`
  (`HandlerEntry`, `HandlerReturns`), which saves the registers in `entry_kregs` but
  dispatches with `entry_uregs`.  `owed` is what the thread has to find when it is
  back in user mode, `sure` whether that includes r0: not after a handler's call,
  whose result went there, and not after `pthread_create`, whose result is dropped.
  So two things that the repository's examples rely on do not hold and are not
  claimed: a call made in a handler (they print) is served with the registers of the
  interrupted code instead of its arguments, which `CallsServed` states as it is
  (dispatch_syscalls.c:171), and `pthread_create` does not return 0 when it has made
  the thread (dispatch_syscalls.c:54; `examples/timer_error.c:33` exits).  The
  registers of interrupted kernel code are left out.  Handlers create and end no threads (`SyscallPathAssumption`).
* `Startup` - a function is the sequence of its steps; a step makes a part of the
  system and uses others.  Any step whose code can fail may fail: the failure stops
  the start, enters the debugger, skips the rest of the function (where a caller
  does not look, as `vcpu_thread` with `setup_kernel`) or is not noticed at all
  (`lost`).  `time_irq_thread` runs beside it.  The model stops at the first use of a
  part that is not there (`missing`).

**C libraries.**  `Stdarg`, `CString` and `Calendar` are operators on numbers for
characters.  Those that write memory or convert numbers and dates follow the
loops of the code; the string functions that only search or compare (`strlen`,
`strchr`, `strcmp`, `strspn`, `strstr`, ...) are the place where their loop stops.
`Stdio` is the buffer of a stream.  The properties compare them with reference
definitions (what a printed number means, the memory after a copy, the date of
the next day).  `Stdarg` and `CString` are down at single characters because what
can go wrong there is: an overlap, a missing end mark, a sign or a padding in the
wrong place.

`enter_kdebug` stops the system; it is the flag `k.fault` in `Sched` and
`Timers`, after which nothing happens.  In `Timers` the flag also stands for
going on with a bad index (`alloc_ktimer` returned -1), with a null pointer
(`update_hwtimer` with an empty heap: a fault or no effect, at the compiler's
choice) and for a loop of `update_hwtimer` that cannot end at the present time.
Elsewhere the system stops because the application ends (`over`), because
everybody waits for something the application does not do (a semaphore that is
never posted), or at a bound (`MaxTicks`, `LastTime`, `LastTick`, `LastDay`).
This is why the runs do not check for deadlock; that those who are owed a
wake-up get it is said by `BlockedAreLinked`, `WaitersKnown` and `JoinerKnown`
and by the liveness properties.

Definitions whose comment starts with "Slip:" are deliberate errors; each
replaces the definition after it in a run that must then fail, and is used
nowhere else.

## 3. Runs

| run | instance | shows |
|---|---|---|
| `sched` | boot thread + 3, two application priorities, 2 x 2 lists, 3 kernel stacks | the ready structure is exact, dispatches are optimal, deferred calls are not lost, the idle thread comes last, the runner is READY, kernel stacks are neither shared nor leaked, and the lists implement `ReadyQueue` |
| `window_masked` | boot thread + 3, one application priority, masking `hw_save_flags_and_cli` | the split kernel implements `Sched` |
| `window_l4` (violation) | the same, the compiled `hw_save_flags_and_cli` | an interrupt between `remove_ss` and the state change leaves a READY thread in no list; the idle thread is dispatched over it |
| `sched_prio` (violation) | priority 3 = the idle priority of the 2 x 2 matrix allowed in `pthread_setschedparam` | the idle thread is dispatched over a READY thread |
| `sched_delete` (violation) | `pthread_delete_np` of FINISHED threads | a kernel stack is freed twice and shared |
| `timers` | two threads, 3 kernel timers, times far from the word limit | armed timers and heap agree; the hardware timer covers the first timer; sleepers are woken at their time, neither early nor late |
| `timers_wrap` (violation) | words of 8 ns | a sleep across a multiple of the word (2^32 ns = 4.3 s in the code) ends at once |
| `heap_remove` (violation) | up to 8 timers in the heap, two of which may be disarmed | `HEAP_remove_element` breaks the heap order; `HEAP_min` then misses the earliest timer |
| `sem` | three threads of different priorities, three roles: a waiter below two posters; everybody waits with a timeout, tries and posts; timed waiters that get signals | the value is never negative, who is blocked is in the list, the semaphore implements `CountingSem`, and a waiter is served |
| `mutex` | three threads; normal, recursive + ceiling, error-checking + ceiling + timed condition waits | one owner, exact recursion count, no waiter forgotten, the owner exactly at the ceiling, release and wait are one step for the others, no inversion under a ceiling |
| `life` | main thread + 2, five roles: join chain with cancel, detach and cleanup, signals between threads, handlers with interrupts, sigwait with interrupts | a joiner is known and served, signals are kept, masks come back, sigwait ends |
| `services` | the modules of the services and libraries, one at a time (`sel`); of `SyscallPath` three threads with a few calls each and handlers that call, then every stub with one thread | descriptors are exclusive, reads in order, both allocators sound, system calls served, the libraries agree with their reference definitions, clock and timer lose nothing, and after any failures the start either stops or is whole |

### Bounds

Scheduler.  `Width` is 2 instead of 32: two rows and two columns exercise both
bitmap levels, with the idle thread in the last list.  Besides the idle thread
there are two application threads: enough for lists of two (head and tail
differ) at one priority and for preemption between priorities.  A deleted
structure can be allocated again, so behaviours are not bounded in length.
`Params` and `DeleteStates` are what the application passes; the passing runs
keep them in the range the documentation gives, the violation runs leave it.
The threads other than the boot thread are interchangeable, hence the symmetry.

Timers.  Three timers are the sleep timers of both threads and one timer of
the application, or fewer threads and more timers; the fourth allocation runs
into the limit.  384 ticks of 10000 ns become 2 ticks of 3 ns, which keeps the
rounding.  Delays of 3 ns expire exactly at a step of the clock, periods of 2 ns
between steps, and absolute times lie in the future or the past; five ticks are
two steps of the clock, enough for a periodic timer to expire twice.  The flaw
of `HEAP_remove_element` needs six timers in the heap, so `SleepExact` and
`HwCovers` are claims about heaps of at most five, which is also the hypothesis
`Few` of their proofs.  Two assumptions on the
application are constants: `SharedTimers = FALSE` (a thread sets and deletes
only timers it created) and `SignalWakes = FALSE` (the signals of timers do not
wake sleepers).  Without either of them `HeapSound` fails.

Synchronisation.  Three threads are a holder or poster, a waiter and a third
that comes in between, at two or three priorities.  Values up to 2 reach the
maximum of a semaphore, depth 2 the recursion; two nested activations of
`do_signals` (`MaxNest`) are one handler interrupted by another.  What the roles
leave out, because the code does not keep the properties there, is: a
`sem_wait` caller above a poster in priority, two such callers, `trylock` as the
first call on a recursive mutex, `setprioceiling` by the holder, two joiners of
one thread, a joined thread that is interrupted in `pthread_exit_sys`, timed
waits on a mutex that three threads use.

Services.  `TimerHw`: counters of 4 ticks, followed for nine: two overflows.
`TimeCalls`: seconds of 4 ns, words of 8 ns, so that sleeps and clock pass both.
`Tlsf`: the real constants for the small lists (`FLI_OFFSET`, `MAX_LOG2_SLI`) and
a pool of 588 bytes, which holds small and large blocks; three allocations have
both neighbours free or in use in every combination.  `SysMem`: the real sizes
with user regions of 1 MB.  `Stdarg`: integers of 6 bits and every combination of
flag, width, precision and size; `CString`: memories of five bytes over an end
mark, a slash and a letter.  `Calendar`: every day of 1970-1973 and from the end of
1999 into 2001, past leap years and the century.  `SyscallPath`: two threads
and one that is created; the first makes calls that create threads, end it or take
0 to 6 arguments, its handler prints, the second blocks; and, by itself, the first
goes through every stub.  `Startup`: the whole start, with every failure.  `Uses` (one thread
opens files) is an assumption on the environment; without it the code does not
keep `FdsExclusive`: the search for a free descriptor is not a critical section.

### Fairness

`WaitServed`, `JoinServed` and `SigwaitServed` are checked under weak fairness of
the steps of each thread, which can only be taken while it is `current_thread`
(the processor executes the current thread), and, for `WaitServed`, of the
expiry of armed timers (the counter runs on).  The scheduler has strict
priorities and no time slices, so nothing is owed to a thread that others never
leave the processor to: that they do, again and again, is the premise of each
property (`[]<>`), not an assumption on the kernel.

### Together

The logic of the scheduler is right provided its critical sections are atomic
(`sched`), masking interrupts makes them atomic (`window_masked`), and the L4
header as it stands does not mask them (`window_l4`).  All other modules take
critical sections as atomic.  The refinement to `ReadyQueue` is what entitles
`Semaphore`, `MutexCond` and `ThreadLife` to use queues for the ready structure;
`TimerServed` and `ClockNear` are what entitles `Timers` to `hw` and `ticks`, up to
the jump of the clock that `ClockNear` names.

## 4. Proofs

A theorem holds for every value of the constants that the named ASSUMEs of its
module allow; TLC evaluates these on every run.  The assumptions are about
types, and: threads and the clients of the file system are finitely many, the
ready structure has more than one level, `SEM_VALUE_MAX` is at least 1, a page
is at least as long as a block header and memory sizes are whole pages, the table of open files has
room for the three files of the start, and every second of the last day that
the calendar looks at is a time of the 32-bit `time_t`.  Conditions on the use of a component are
hypotheses of its theorem and are named below; the notes under "hazards" say
what happens without them.

**Scheduler** (`SchedStructProofs`, `SchedProofs`), for any
`Threads`, `Width` (> 1), `MAX_KERN_THREADS`, `Params`, `DeleteStates`.

* `SchedStructProofs`: `init_ss`, `zero_ss`, `insert_ss`, `insert_ss_tail`,
  `remove_ss` and `get_head_ss` respect `Linked(q, S, prio)`: the record holds
  exactly the threads of S.  `Linked` says that SOME ranking of the threads
  satisfies `Holds`.  The ranking is what makes the invariant inductive: the
  local agreement of links alone also admits cycles that no head reaches, and
  with one the walk of `insert_ss_tail` would have no end.  Insertion at the
  head ranks the thread below all others, insertion at the tail above, and
  removal keeps the ranking.
* `SchedInv`: the inductive invariant `SInv` = `TypeOK` /\ `Linked` for the
  READY threads /\ `Booting \/ Booted` (there is a READY idle thread with the
  idle priority once the boot thread is gone, so `get_head_ss` always finds
  one) /\ `FramesMatch` (a call of `scheduling ()` is outstanding only in a frame
  that exists) /\ `RunnerReady`.  From it: `TypeCorrect`, `StructAlwaysSound`,
  `RunnerAlwaysReady`, `DispatchIsOptimal`, `DeferredIsNotLost`.  `IdleIsLast`
  additionally assumes that `Params` stays in 0 .. `MIN_SCHED_PRIORITY` and uses
  `IdleAlone`: no other thread ever has the idle priority.  The `sched_prio` run
  shows that the assumption is needed.
* `KStacksExact`, assuming that `pthread_delete_np` is given READY or SUSPENDED
  threads only (`sched_delete` shows that this is needed).  The invariant adds
  that a FINISHED thread still running towards `scheduling ()` no longer owns its
  stack.
* `ReadyQueueImplemented`: `Spec => ImplementsReadyQueue`.  The ranking does not
  name the order, so the invariant `KWalks` says for each list that some sequence
  w is its walk (`Walk`): w holds the READY threads of the place once each, the
  head points to its first element and `next` leads from each to the following
  one.  An insertion at the head puts the thread before w, one at the tail
  behind it, a removal takes it out, and a walk is what `ListOf` computes
  (`WalkList`), so each change of the lists is the change of the queues that
  `ReadyQueue` allows.
* `SectionsAreAtomic`: every behaviour of `SchedWindow`, with either
  `hw_save_flags_and_cli`, in which no interrupt is taken inside a section
  (`Uninterrupted`) is one of `Sched`, where the mapping completes a section that is
  half done.  So the theorems about `Sched` hold of the compiled kernel in every
  behaviour without such an interrupt; `window_l4` shows what one of them does.
  `WindowInv` says that only the current thread is inside a section and that what
  it chose in `scheduling ()` is still what it would choose.  The corollary
  `MaskingIsEnough`: a header that masks (`CliMasks`, the version under `#if 0`) takes
  no such interrupt.

**Synchronisation** (`KThreadsProofs` and the three modules over it), for any
threads, priorities and roles.  `KThreadsProofs` has the lemmas: the ready
queues stay sound (`KSound`), and a list of blocked threads is a chain
(`ListSound`), which insertion and removal keep.

* `MutualExclusionHolds`: invariant `Excl`, the owner and the count agree with
  the lock calls that returned.  Hypothesis `Counting`: `trylock` is not the
  first call on a recursive mutex, which the code does not count.
* `ReleaseAtomicHolds`; `CeilingExactHolds` (hypothesis `Counting` again) and
  `HighestRunsHolds` from `PrioInv`:
  who is in a call or a list is a user (`Users`), and the owner of a protected
  mutex remembers its own priority and runs at least at the ceiling (`Raised`).
  `HighestRuns` has the hypothesis `Covers`: no ceiling is below a user.
* `WaitersKnownHolds`: invariant `Listed`, a thread is in one of the two lists
  exactly while it sleeps in `pthread_mutex_lock_sys`, and a free mutex has an
  empty list.  Hypothesis: no timed waits.  With them the property is false as soon
  as a third thread uses the mutex: a sleep timer left over from
  `pthread_cond_timedwait` wakes a thread that is in the list, the loop of
  `pthread_mutex_lock_sys` inserts its node again, and whoever stood behind it is
  in the list no more.  The run has two users in the role with timed waits.
* `NeverNegativeHolds`, `BlockedAreLinkedHolds`, `CountsHolds`: invariant `SemInv`,
  which says `Timed` for uses without `sem_wait` and `Single` for one waiter
  below its posters; together these are the hypothesis `Proper`.  In `Single`
  the woken waiter finds a unit, or a post that still has to raise the value and
  runs first because its thread has the higher priority.  `CountsHolds` is the
  refinement of `CountingSem`.
* `MaskRestoredHolds`, `SignalsKeptHolds`: invariant `Inv`.  Its core is `StackOK`:
  for every number of nested activations of `do_signals`, the mask the
  application will go on with is the thread's mask if no activation has
  started, and otherwise the one that the outermost started activation saved.
* `JoinerKnownHolds`: invariant `JoinInv`, a joiner that sleeps and the thread it
  waits for know each other.  Hypothesis `OneJoiner`.

**Timers** (`TimersProofs`), for any threads, number of timers, delays and
periods, under the hypotheses `~SignalWakes` and `~SharedTimers` (see Bounds;
without either the properties are false).

* `HeapSoundHolds`, `SleepersArmedHolds`: invariant `TimersInv`.  Its core `KSound`
  relates the three places that say what a timer does: the heap holds the armed
  timers once each (`HeapOf`), an armed timer is in use (`TimerOK`), and whoever
  sleeps has its own sleep timer armed.  `Arms` is what an interleaving could
  break: a thread that `timer_settime_sys` left between disarming and arming
  still owns its timer, and it is not armed.  Nothing here needs the order of the
  heap: the loops of `HEAP_insert`, `HEAP_remove_element` and `update_hwtimer`
  only exchange elements, remove one or insert one, and the lemmas about them
  say no more.  So the results hold for heaps of any size, although
  `HEAP_remove_element` breaks the order of heaps of more than five.
* `HwCoversHolds`, `SleepExactHolds`: these need the order of the heap (`HEAP_min`
  must be the earliest timer), hence two more hypotheses.  `Few`: at most five
  timers are armed at a time, whatever the length of `timer_array`; from six on
  `HEAP_remove_element` may break the order.  `InWord`: the armed timers are in
  the clock's word and less than half a word away, which is where comparing
  words is comparing times; the run `timers_wrap` shows what happens without it.
  `HwCovers` also needs `TicksPer > 1` (384 on the OMAP4): with 1, the least
  interval of the hardware timer would be a whole step of the clock.
  The argument: `OrderInv` says that the heap is ordered at every step.  Its
  lemmas go through the loops with the two ways a heap may be out of order at one
  place (`Sinking` in `heapify`, `Rising` in `HEAP_insert`); refilling the gap that
  a removal leaves keeps the order of at most five (`FiveFit`).  In an ordered heap
  the root is the earliest timer (`RootLeast`, `FirstEarliest`), so that the loop of
  `update_hwtimer` stops with exactly the expired timers taken out (`ExpireAllWoke`,
  `ExpiredIs`), which is `SleepExact`.  `set_hwtimer` then asks for an interrupt when
  the first timer expires at the latest, to a step of the clock (`HwAhead`); `CoverInv` says that the hardware is
  set so, or that the running thread still has `update_hwtimer` before it.
* `InWordHolds`, `SmallSystem`: the two hypotheses follow from the constants alone.
  If delays and periods are below half a word even at the last tick (`Fits`),
  invariant `NearInv` gives `InWord`; at most five timers in all give `Few`.  The
  constants of the run `timers` meet `SmallSystem`, so that it covers the run and
  every other number of threads, length of the clock's step and set of delays.

**Services** (`ServicesProofs`).

* `TimerServedHolds` (`TwInv`: the state of the registers at every step of the
  driver) and `ClockNearHolds` (`TcInv`: the counted rounds, the round that waits
  in the status register and a read under way add up to the time), for every
  length of the counter and any run of it.
* `FdsExclusiveHolds`, `ReadsInOrderHolds` (`FilesInv`), for any number of files
  and clients of which one opens files (`Alone`, which `Uses` decides); reads of 0
  bytes are left out of the second (`Chunks`).
* `RegionsDisjointHolds` (`SysMemInv`): the free list never holds more than the
  block at the end of the memory (`OneFree`), a region is the page below what was
  cut off it, and pages that lie a multiple of a page apart stay apart.
* `CallsServedHolds` (`CallInv`): each stub passes as many arguments as the
  function of its name takes (`StubsRight`, for all 83 stubs), the code of a call
  gives back number and count, and `Booked` says of a thread in the kernel which of
  its saved registers hold what it is owed at each place where it may go on, handlers'
  calls included.  `HandlerInv` says of a handler's call that it reaches the function
  of its name with the interrupted code's registers.  Of r0 the theorem speaks only
  where `sure` is true; the code gives no more.
* `TimesRightHolds` (`TimeInv`): of each task, `Slept` relates what it asked for,
  when it began, when it was woken and what it reports as left, and `Counted` the
  time it ran, the time charged to it so far and the start of its present turn;
  that the three clocks agree is `ClocksAgree`, about nested divisions.  The CPU
  clock starts at the age of the system when the thread first ran (`first`), so the
  theorem is about differences of its readings.  For any tasks, periods, lengths of
  a second (`NSECS_PER_USEC`, `USECS_PER_SEC`) and of a `long`.  It does not say
  that a sleep lasts as long as asked, since `usleep_sys` multiplies in 32 bits and a
  sleep of more than 4.29 s ends after the remainder (time.c:367), nor that one cut
  short is reported, since `sleep_for` compares the length with the age of the system
  (time.c:337).
* `CalendarRightHolds` (`CalInv`): `YearDay` shows that correcting the guessed year
  once by the leap days of the guess gives the year and the day of every day
  number (`DateIs`), `YearIs` that there is no other such pair, `MonthExists` and
  `MonthUnique` that the tables give each day one month.  From these, the date of
  the next day (`NextDate`) and the way back (`MktimeBack`).  `LeapEndIs` shows that
  the exception in the property is exactly the last day of each leap year.  The
  proof covers every day to 2038; TLC looks at the days around 1970-1973 and 2000.

What recursive functions compute is proved where a theorem needs it (the walk
of `ListOf`, `WakeAll`, the search of `FirstFit`) by induction over a set of
numbers, from the fact that such a set has a least element; the induction
theorems of the library take operators as parameters, which the provers cannot
instantiate.

Only model-checked:

* liveness (`WaitServed`, `JoinServed`, `SigwaitServed`), which is outside the
  prover;
* the allocator (`TlsfSound`, `AllocationsKept`): sizes are powers of two and bit
  positions, computed by loops;
* `StringsRight` and `FormatsRight`, which are inductions over strings and digits;
* `StartsWhole`: the sequence of steps has no size to generalise, and the run
  goes through all of its behaviours, every failure and every position of
  `time_irq_thread` included;
* the uses that the hypotheses above leave out.

## 5. Plan

Left to prove: `TlsfSound`, which would need a theory of powers of two first.

## 6. Not modelled

The registers of interrupted kernel code, page faults and exceptions of the vCPU
(they stop it), device registers other than the two timers', the contents of
ELF files, `mmap`, `lseek` and `ioctl` (arguments handed to a device),
`pthread_once_sys`, keys and attribute objects (assignments and range checks of one
step), `pthread_detach` without a joiner (a null pointer), `ufree_sys` and the trace device (no caller, or not built),
floating-point beyond exact decimal numbers, mathematical functions, and the
headers and drivers for other processors.  The reasons are under "components" in
`PROJECT.json`.
