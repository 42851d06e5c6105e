-------------------------------- MODULE Sched --------------------------------
(***************************************************************************)
(* The scheduler (port/sched.c) with what it runs on: the kernel stacks    *)
(* (arm/arm_l4_stack.c), the context switch (arm/arm_context_switch.c),    *)
(* the kernel entry of the vCPU (arm/dispatch_syscalls.c) and the deferral *)
(* of rescheduling out of interrupts (common/irqs-l4.c).                   *)
(*                                                                         *)
(* One step is one critical section of the kernel (the code between        *)
(* hw_save_flags_and_cli and hw_restore_flags); an interrupt may come      *)
(* between any two of them while the vCPU has interrupts enabled.  The     *)
(* rest of the kernel (semaphores, mutexes, timers, signals) is seen here  *)
(* through the calls it makes: it activates any thread, suspends only the  *)
(* current one, and calls scheduling().                                    *)
(***************************************************************************)
EXTENDS SchedStruct

CONSTANTS
    Boot,           \* the thread structure made by create_idle at boot
    MAX_KERN_THREADS,   \* kernel stacks, 32 in the source
    Params,         \* priorities the application passes to the kernel
    DeleteStates    \* states of threads it passes to pthread_delete_np

(* Slip: the idle thread shares the lowest priority of the application.    *)
IDLE_SCHED_PRIORITY_Shared == Levels - 2

IDLE_SCHED_PRIORITY == Levels - 1
MIN_SCHED_PRIORITY  == Levels - 2
MAX_SCHED_PRIORITY  == 0

KStacks == 1 .. MAX_KERN_THREADS

ASSUME BootAssumption == Boot \in Threads
ASSUME KStackAssumption == MAX_KERN_THREADS \in Nat \ {0}
ASSUME ParamAssumption == Params \subseteq Nat /\ Width > 1
ASSUME DeleteAssumption == DeleteStates \subseteq {"READY", "SUSPENDED", "FINISHED"}

VARIABLES
    k,          \* kernel data: see KType
    current,    \* current_thread
    idle,       \* idle_thread
    ctx,        \* what each thread's kernel stack holds: see Contexts
    resched,    \* <<t, f>>: frame f of thread t goes on to call scheduling()
    irq_on,     \* L4_VCPU_F_IRQ of the running vCPU state
    nest,       \* irq_nesting_counter & OUTSIDE_IRQS
    pend        \* irq_nesting_counter & SCHED_PENDING

vars == <<k, current, idle, ctx, resched, irq_on, nest, pend>>

(* "user": in user mode, or not started yet; "sys": in a system call;      *)
(* "irq_user", "irq_sys": in do_irq, which interrupted user mode or a      *)
(* system call.  The context of a thread that is switched out is where it  *)
(* goes on when it is switched in.                                         *)
Contexts == {"user", "sys", "irq_user", "irq_sys"}
Frames   == {"sys", "irq"}
States   == {"FREE", "SUSPENDED", "READY", "FINISHED"}

(* ss: active_threads; state, prio, kentry: state, sched_priority and      *)
(* kentry_sp of each thread structure ("FREE": no structure; 0: no stack); *)
(* kflag: kstack_flag; fault: enter_kdebug was reached.                    *)
KType ==
    [ss : StructType, state : [Threads -> States], prio : [Threads -> Nat],
     kentry : [Threads -> KStacks \cup {0}], kflag : SUBSET KStacks,
     fault : BOOLEAN]

Ready(kk) == {t \in Threads : kk.state[t] = "READY"}

-----------------------------------------------------------------------------
(* Kernel stacks.                                                          *)

alloc_kstack(kk, t) ==
    IF KStacks \subseteq kk.kflag
    THEN [kk EXCEPT !.fault = TRUE]
    ELSE LET i == _ffs(KStacks \ kk.kflag)
         IN  [kk EXCEPT !.kentry[t] = i, !.kflag = kk.kflag \cup {i}]

(* kentry_sp of a thread that never ran lies in no stack; it is not reset  *)
(* when the stack is freed.                                                *)
free_kstack(kk, t) ==
    IF kk.kentry[t] = 0
    THEN [kk EXCEPT !.fault = TRUE]
    ELSE [kk EXCEPT !.kflag = kk.kflag \ {kk.kentry[t]}]

-----------------------------------------------------------------------------
(* The functions of sched.c.                                               *)

create_pthread_struct(kk, t, p) ==
    [kk EXCEPT !.ss = zero_ss(kk.ss, t), !.state[t] = "SUSPENDED",
               !.prio[t] = p, !.kentry[t] = 0]

delete_pthread_struct(kk, t) ==
    [kk EXCEPT !.ss = remove_ss(kk.ss, t), !.state[t] = "FREE"]

(* Slip: the thread stays in the list of its old priority.                 *)
change_thread_prio_FieldOnly(kk, t, p) == [kk EXCEPT !.prio[t] = p]

change_thread_prio(kk, t, p) ==
    LET q == remove_ss(kk.ss, t)
    IN  [kk EXCEPT !.ss = IF kk.state[t] = "READY" THEN insert_ss(q, t, p) ELSE q,
                   !.prio[t] = p]

suspend_thread(kk, t) ==
    [kk EXCEPT !.ss = remove_ss(kk.ss, t),
               !.state[t] = IF kk.state[t] = "FINISHED" THEN "FINISHED"
                            ELSE "SUSPENDED"]

(* Slip: a thread that wakes up goes behind the others of its priority.    *)
activate_thread_AtTail(kk, t) ==
    IF kk.state[t] \in {"FINISHED", "READY"} THEN kk
    ELSE [kk EXCEPT !.ss = insert_ss_tail(kk.ss, t, kk.prio[t]), !.state[t] = "READY"]

activate_thread(kk, t) ==
    IF kk.state[t] \in {"FINISHED", "READY"} THEN kk
    ELSE [kk EXCEPT !.ss = insert_ss(kk.ss, t, kk.prio[t]), !.state[t] = "READY"]

(* Slip: the kernel stack is not given back.                               *)
finish_thread_KeepsStack(kk, t) ==
    [kk EXCEPT !.ss = remove_ss(kk.ss, t), !.state[t] = "FINISHED"]

finish_thread(kk, t) ==
    LET k1 == free_kstack([kk EXCEPT !.ss = remove_ss(kk.ss, t)], t)
    IN  [k1 EXCEPT !.state[t] = "FINISHED"]

yield_thread(kk, t) ==
    [kk EXCEPT !.ss = insert_ss_tail(remove_ss(kk.ss, t), t, kk.prio[t])]

-----------------------------------------------------------------------------
(* The innermost frame of a thread that is in the kernel.                  *)
Frame(t) == <<t, IF ctx[t] = "sys" THEN "sys" ELSE "irq">>

(* The kernel is running code of the current thread outside an interrupt   *)
(* handler; Free: and may do anything next; InSyscall: in a system call.   *)
InKernel  == ~k.fault /\ nest = 0 /\ ctx[current] # "user"
Free      == InKernel /\ Frame(current) \notin resched
InSyscall == Free /\ ctx[current] = "sys"

(* context_switch_to: a thread that never ran gets a kernel stack and goes *)
(* to user mode without coming back into scheduling(); any other one goes  *)
(* on inside its own call of scheduling(), interrupts disabled, and resets *)
(* irq_nesting_counter there.                                              *)
context_switch_to(new) ==
    /\ current' = new
    /\ IF k.kentry[new] = 0
       THEN /\ k' = alloc_kstack(k, new)
            /\ irq_on' = TRUE
            /\ UNCHANGED <<ctx, resched, pend>>
       ELSE /\ irq_on' = FALSE
            /\ resched' = resched \ {Frame(new)}
            /\ pend' = FALSE
            /\ UNCHANGED <<k, ctx>>

(* scheduling() outside interrupt handlers, called by the current frame.   *)
Scheduling ==
    LET h   == get_head_ss(k.ss)
        new == IF h = NULL THEN idle ELSE h
    IN  IF new = current
        THEN /\ resched' = resched \ {Frame(current)}
             /\ pend' = FALSE
             /\ UNCHANGED <<k, current, ctx, irq_on>>
        ELSE context_switch_to(new)

-----------------------------------------------------------------------------
(* Boot and system calls.                                                  *)

(* setup_kernel up to create_idle: the boot thread runs, on a kernel stack *)
(* of its own, and is in no list.                                          *)
Init ==
    /\ k = [ss     |-> zero_ss(init_ss, Boot),
            state  |-> [t \in Threads |-> IF t = Boot THEN "SUSPENDED" ELSE "FREE"],
            prio   |-> [t \in Threads |-> 0],
            kentry |-> [t \in Threads |-> IF t = Boot THEN 1 ELSE 0],
            kflag  |-> {1},
            fault  |-> FALSE]
    /\ current = Boot
    /\ idle = Boot
    /\ ctx = [t \in Threads |-> "user"]
    /\ resched = {}
    /\ irq_on = TRUE
    /\ nest = 0
    /\ pend = FALSE

(* pthread_create_idle_sys, the one system call of the boot thread: its    *)
(* successor t takes its place and goes to user mode at once.              *)
CreateIdle(t) ==
    LET k1 == activate_thread(create_pthread_struct(k, t, MIN_SCHED_PRIORITY), t)
        k2 == finish_thread(alloc_kstack(k1, t), idle)
        k3 == change_thread_prio(suspend_thread(k2, t), t, IDLE_SCHED_PRIORITY)
    IN  /\ ~k.fault
        /\ current = Boot /\ ctx[current] = "user"
        /\ k.state[t] = "FREE"
        /\ k' = activate_thread(k3, t)
        /\ idle' = t
        /\ current' = t
        /\ irq_on' = TRUE
        /\ UNCHANGED <<ctx, resched, nest, pend>>

(* l4ertl_entry_from_user: hw_sti before the call is dispatched.           *)
SyscallEnter ==
    /\ ~k.fault
    /\ ctx[current] = "user" /\ current # Boot
    /\ ctx' = [ctx EXCEPT ![current] = "sys"]
    /\ irq_on' = TRUE
    /\ UNCHANGED <<k, current, idle, resched, nest, pend>>

(* hw_cli, then the vCPU resumes user mode with interrupts enabled.        *)
SyscallReturn ==
    /\ InSyscall
    /\ ctx' = [ctx EXCEPT ![current] = "user"]
    /\ irq_on' = TRUE
    /\ UNCHANGED <<k, current, idle, resched, nest, pend>>

(* A step of kernel code that changes kernel data, and goes on to call     *)
(* scheduling() or not.                                                    *)
KernelStep(kk, callsScheduling) ==
    /\ k' = kk
    /\ resched' = IF callsScheduling THEN resched \cup {Frame(current)} ELSE resched
    /\ UNCHANGED <<current, idle, ctx, irq_on, nest, pend>>

(* pthread_create_sys, pthread_create2_sys.  When alloc_stack fails the    *)
(* call returns an error and the structure stays, never activated.         *)
Create(t, p) ==
    LET k1 == create_pthread_struct(k, t, p)
    IN  /\ InSyscall
        /\ k.state[t] = "FREE"
        /\ p \in MAX_SCHED_PRIORITY .. MIN_SCHED_PRIORITY
        /\ \/ KernelStep(activate_thread(k1, t), TRUE)
           \/ KernelStep(k1, FALSE)

(* A call of activate_thread by the rest of the kernel: on the way to      *)
(* scheduling() or not (pthread_mutex_unlock_sys and pthread_kill_sys      *)
(* activate and return; pthread_exit_sys activates its joiner and          *)
(* sleep_for the owners of expired timers after the caller left READY).    *)
Activate(t) ==
    /\ InKernel /\ (ctx[current] = "sys" \/ k.state[current] = "FINISHED")
    /\ k.state[t] # "FREE"
    /\ \E b \in BOOLEAN : KernelStep(activate_thread(k, t), b)

(* Slip: the blocked thread goes on running.                               *)
Suspend_NoScheduling ==
    /\ Free /\ current # idle
    /\ KernelStep(suspend_thread(k, current), FALSE)

(* Blocking: suspend_thread (current_thread), then scheduling().  The      *)
(* handler of SLEEP_SIGNAL does it out of do_irq, too.                     *)
Suspend ==
    /\ Free /\ current # idle
    /\ KernelStep(suspend_thread(k, current), TRUE)

(* pthread_exit_sys, also called by the handler of CANCEL_SIGNAL.          *)
Finish ==
    /\ Free /\ current # idle
    /\ KernelStep(finish_thread(k, current), TRUE)

(* pthread_setschedparam_sys; it does not check the priority.  The mutex   *)
(* calls change priorities the same way.                                   *)
SetPrio(t, p) ==
    /\ InSyscall
    /\ k.state[t] # "FREE" /\ t # idle
    /\ KernelStep(change_thread_prio(k, t, p), TRUE)

pthread_yield_sys ==
    /\ InSyscall
    /\ KernelStep(yield_thread(k, current), TRUE)

(* The kernel stack of a deleted thread is never returned to.              *)
Forget(t, calls) ==
    /\ ctx' = [ctx EXCEPT ![t] = "user"]
    /\ resched' = (resched \ ({t} \X Frames)) \cup calls
    /\ UNCHANGED <<current, idle, irq_on, nest, pend>>

(* The end of pthread_join_sys.                                            *)
Delete(t) ==
    /\ InSyscall
    /\ k.state[t] = "FINISHED" /\ t # Boot
    /\ k' = delete_pthread_struct(k, t)
    /\ Forget(t, {})

pthread_delete_np_sys(t) ==
    /\ InSyscall
    /\ k.state[t] \in DeleteStates /\ t \notin {Boot, idle, current}
    /\ k' = delete_pthread_struct(finish_thread(k, t), t)
    /\ Forget(t, {Frame(current)})

(* The call of scheduling() that kernel code was on its way to.            *)
CallScheduling ==
    /\ InKernel /\ Frame(current) \in resched
    /\ Scheduling
    /\ UNCHANGED <<idle, nest>>

-----------------------------------------------------------------------------
(* Interrupts (do_irq).  The vCPU disables interrupts on entry.            *)

IrqEnter ==
    /\ ~k.fault /\ irq_on /\ nest = 0
    /\ ctx[current] \in {"user", "sys"}
    /\ ctx' = [ctx EXCEPT ![current] = IF ctx[current] = "sys" THEN "irq_sys"
                                       ELSE "irq_user"]
    /\ irq_on' = FALSE
    /\ nest' = 1
    /\ UNCHANGED <<k, current, idle, resched, pend>>

(* clock_handler: a timer expires, its action activates the owner, and     *)
(* scheduling() only notes that it was called.                             *)
IrqWake(t) ==
    /\ ~k.fault /\ nest = 1
    /\ k.state[t] # "FREE" /\ t # Boot
    /\ k' = activate_thread(k, t)
    /\ pend' = TRUE
    /\ UNCHANGED <<current, idle, ctx, resched, irq_on, nest>>

(* Slip: the noted call of scheduling() is dropped.                        *)
IrqExit_Forgets ==
    /\ ~k.fault /\ nest = 1
    /\ nest' = 0
    /\ pend' = FALSE
    /\ UNCHANGED <<k, current, idle, ctx, resched, irq_on>>

(* The end of the handler: the noted call of scheduling() is made now.     *)
(* The code that was interrupted is still on its way to its own call.      *)
IrqExit ==
    /\ ~k.fault /\ nest = 1
    /\ nest' = 0
    /\ IF pend THEN Scheduling
       ELSE UNCHANGED <<k, current, ctx, resched, irq_on, pend>>
    /\ UNCHANGED idle

IrqReturn ==
    /\ Free /\ ctx[current] \in {"irq_user", "irq_sys"}
    /\ ctx' = [ctx EXCEPT ![current] = IF ctx[current] = "irq_sys" THEN "sys"
                                       ELSE "user"]
    /\ irq_on' = TRUE
    /\ UNCHANGED <<k, current, idle, resched, nest, pend>>

-----------------------------------------------------------------------------
ThreadStep(t) ==
    \/ CreateIdle(t) \/ Activate(t) \/ Delete(t) \/ pthread_delete_np_sys(t)
    \/ IrqWake(t)
    \/ \E p \in Params : Create(t, p) \/ SetPrio(t, p)

CurrentStep ==
    \/ SyscallEnter \/ SyscallReturn \/ Suspend \/ Finish \/ pthread_yield_sys
    \/ CallScheduling \/ IrqEnter \/ IrqExit \/ IrqReturn

Next == CurrentStep \/ \E t \in Threads : ThreadStep(t)

Spec == Init /\ [][Next]_vars

-----------------------------------------------------------------------------
(* Properties.                                                             *)

TypeOK ==
    /\ k \in KType
    /\ current \in Threads /\ idle \in Threads
    /\ ctx \in [Threads -> Contexts]
    /\ resched \subseteq Threads \X Frames
    /\ irq_on \in BOOLEAN /\ nest \in {0, 1} /\ pend \in BOOLEAN

(* No thread of Ready(kk) has a higher priority than t.                    *)
Best(kk, t) == \A u \in Ready(kk) : Level(kk.prio[t]) <= Level(kk.prio[u])

(* active_threads always describes the READY threads exactly, whatever     *)
(* mixture of insertions, removals and priority changes came before: a bit *)
(* of the bitmaps is set iff its list is not empty, every READY thread is  *)
(* linked in the list of its priority with links that agree both ways, and *)
(* no other thread can be reached (sched_struct.h: "only ready threads are *)
(* inserted in this structure").                                           *)
StructSound ==
    /\ BitmapExact(k.ss)
    /\ OutsideClean(k.ss, Ready(k))
    /\ LinksAgree(k.ss, Ready(k), k.prio)

(* Whenever scheduling() gives the processor to another thread, that       *)
(* thread is READY and no READY thread has a higher priority, whichever    *)
(* interrupts came between the steps that led there.                       *)
DispatchOptimal ==
    [][current' # current => k'.state[current'] = "READY" /\ Best(k', current')]_vars

(* A call of scheduling() made inside an interrupt handler is not lost: at *)
(* the end of do_irq the processor goes to a best READY thread.            *)
DeferredNotLost ==
    [][nest = 1 /\ nest' = 0 /\ pend => Best(k', current')]_vars

(* Live threads that have run never share a kernel stack, and kstack_flag  *)
(* marks exactly their stacks: none leaks, none is handed out twice.       *)
Running(t) == k.state[t] \in {"READY", "SUSPENDED"} /\ k.kentry[t] # 0
KStackExact ==
    ~k.fault => /\ k.kflag = {k.kentry[t] : t \in {u \in Threads : Running(u)}}
                /\ \A t, u \in Threads :
                     Running(t) /\ Running(u) /\ k.kentry[t] = k.kentry[u] => t = u

(* The idle thread is given the processor only when no other thread is     *)
(* READY (the comment on idle_thread in sched.c).                          *)
IdleLast == [][current' = idle' /\ current # idle' => Ready(k') = {idle'}]_vars

(* User code and system calls that are not on their way to scheduling()    *)
(* only ever run for a thread that is READY: no wait is left through a     *)
(* missed call of scheduling().                                            *)
RunnerReady ==
    ~k.fault /\ current # Boot /\ (resched \cap ({current} \X Frames) = {})
        => k.state[current] = "READY"

(* The queues of ReadyQueue are the lists of active_threads.               *)
RQ == INSTANCE ReadyQueue WITH rq <- Queues(k.ss)

(* The linked lists with bitmaps implement the sequences of ReadyQueue:    *)
(* every step of sched.c is a step of ReadyQueue or leaves it unchanged,   *)
(* so equal priorities run in the order ReadyQueue states.                 *)
ImplementsReadyQueue == RQ!Spec
=============================================================================
