----------------------------- MODULE SyscallPath -----------------------------
(***************************************************************************)
(* The way of a system call: the stubs of the user library (ulibc), the    *)
(* register convention of include/ertl_user/arm/syscalls.h, the entry and  *)
(* the dispatcher of arm/dispatch_syscalls.c with the threads' saved       *)
(* registers, and the table of port/syscalls.c.  The kernel functions may  *)
(* give the processor to another thread before they return, and a new      *)
(* thread begins with the registers that setup_stack laid on its stack     *)
(* (arm/arm_l4_stack.c).  do_signals calls the handlers of the application *)
(* in the mode of the kernel; what they call enters the kernel a second    *)
(* time (l4ertl_entry_from_kern).  That the microkernel lets it is         *)
(* external.                                                               *)
(***************************************************************************)
EXTENDS Integers, Sequences

CONSTANTS
    Callers,        \* threads, numbered from 1
    Calls,          \* the system calls each of them makes
    HandlerCalls    \* the system calls its signal handlers make

VARIABLES
    vregs,      \* r0 .. r6 of the vCPU
    running,    \* current_thread
    uregs,      \* entry_uregs of each thread
    kregs,      \* entry_kregs of each thread
    mode,       \* where each thread goes on, see Modes
    call,       \* the stub that each thread called last
    did,        \* the function the kernel called for it, with its arguments
    owed,       \* the registers the thread has to find when it is back
    sure,       \* whether r0 is among them
    hcall,      \* the stub that a handler of the thread called last
    hdid,       \* the function the kernel called for it
    frame,      \* [stack, of]: the stack of a new thread, the call that made it
    start       \* the registers each thread began with

cvars == <<vregs, running, uregs, kregs, mode, call, did, owed, sure, hcall, hdid, frame, start>>

(* "func": in a function of the kernel ("made": and it has made a thread); *)
(* "irq": in do_irq, interrupted in user mode; "sig": in do_signals on the *)
(* way out; "hfunc", "hsig": in a function that a handler called, from     *)
(* "func" or "sig".                                                        *)
Modes == {"user", "func", "made", "irq", "sig", "hfunc", "hsig", "new", "none", "gone"}

(* The numbers of the system calls, from 0 (the enumeration of             *)
(* syscalls.h), and the functions of syscall_table, without their _sys.    *)
syscall_nr == <<
    "exit", "open", "close", "read", "write", "lseek", "ioctl", "mmap",
    "munmap", "pthread_exit", "pthread_create", "pthread_join",
    "pthread_detach", "pthread_cleanup_pop", "pthread_cleanup_push",
    "pthread_once", "pthread_cancel", "pthread_setcancelstate",
    "pthread_setcanceltype", "pthread_self", "pthread_getschedparam",
    "pthread_setschedparam", "pthread_mutex_init", "pthread_mutex_destroy",
    "pthread_mutex_lock", "pthread_mutex_timedlock", "pthread_mutex_trylock",
    "pthread_mutex_unlock", "pthread_cond_init", "pthread_cond_destroy",
    "pthread_cond_signal", "pthread_cond_broadcast", "pthread_cond_wait",
    "pthread_cond_timedwait", "pthread_key_create", "pthread_setspecific",
    "pthread_getspecific", "pthread_key_delete", "pthread_yield", "time",
    "gettimeofday", "usleep", "nanosleep", "clock_settime", "clock_gettime",
    "clock_getres", "sigaction", "sigsuspend", "sigwait", "sigpending",
    "pthread_kill", "pthread_sigmask", "_get_errno", "_set_errno",
    "install_irq_handler", "install_trap_handler", "hw_disable_irq",
    "hw_enable_irq", "hw_ack_irq", "hw_end_irq", "hw_cli", "hw_sti",
    "hw_restore_flags", "hw_save_flags", "hw_save_flags_and_cli", "ualloc",
    "ufree", "sem_init", "sem_destroy", "sem_getvalue", "sem_wait",
    "sem_trywait", "sem_timedwait", "sem_post", "pthread_delete_np",
    "pthread_setperiod_np", "pthread_getperiod_np", "iopl", "timer_create",
    "timer_delete", "timer_settime", "timer_gettime", "timer_getoverrun",
    "pthread_create_idle", "pthread_create2">>

syscall_table == <<
    "exit", "open", "close", "read", "write", "lseek", "ioctl", "mmap",
    "munmap", "pthread_exit", "pthread_create", "pthread_join",
    "pthread_detach", "pthread_cleanup_pop", "pthread_cleanup_push",
    "pthread_once", "pthread_cancel", "pthread_setcancelstate",
    "pthread_setcanceltype", "pthread_self", "pthread_getschedparam",
    "pthread_setschedparam", "pthread_mutex_init", "pthread_mutex_destroy",
    "pthread_mutex_lock", "pthread_mutex_timedlock", "pthread_mutex_trylock",
    "pthread_mutex_unlock", "pthread_cond_init", "pthread_cond_destroy",
    "pthread_cond_signal", "pthread_cond_broadcast", "pthread_cond_wait",
    "pthread_cond_timedwait", "pthread_key_create", "pthread_setspecific",
    "pthread_getspecific", "pthread_key_delete", "pthread_yield", "time",
    "gettimeofday", "usleep", "nanosleep", "clock_settime", "clock_gettime",
    "clock_getres", "sigaction", "sigsuspend", "sigwait", "sigpending",
    "pthread_kill", "pthread_sigmask", "_get_errno", "_set_errno",
    "install_irq_handler", "install_trap_handler", "hw_disable_irq",
    "hw_enable_irq", "hw_ack_irq", "hw_end_irq", "hw_cli", "hw_sti",
    "hw_restore_flags", "hw_save_flags", "hw_save_flags_and_cli", "ualloc",
    "ufree", "sem_init", "sem_destroy", "sem_getvalue", "sem_wait",
    "sem_trywait", "sem_timedwait", "sem_post", "pthread_delete_np",
    "pthread_setperiod_np", "pthread_getperiod_np", "iopl", "timer_create",
    "timer_delete", "timer_settime", "timer_gettime", "timer_getoverrun",
    "pthread_create_idle", "pthread_create2">>

NR_SYSCALLS == 85
Names == {syscall_nr[i] : i \in 1 .. NR_SYSCALLS}
nr_of(name) == (CHOOSE i \in 1 .. NR_SYSCALLS : syscall_nr[i] = name) - 1

(* How many arguments the kernel functions take.                           *)
Params(f) ==
    CASE f \in {"pthread_self", "pthread_yield", "_get_errno", "hw_cli", "hw_sti"} -> 0
      [] f \in {"munmap", "pthread_join", "pthread_cleanup_push", "pthread_once",
                "pthread_setcancelstate", "pthread_setcanceltype",
                "pthread_mutex_init", "pthread_mutex_timedlock",
                "pthread_cond_init", "pthread_cond_wait", "pthread_key_create",
                "pthread_setspecific", "gettimeofday", "nanosleep",
                "clock_settime", "clock_gettime", "clock_getres", "sigwait",
                "pthread_kill", "install_irq_handler", "install_trap_handler",
                "ufree", "sem_getvalue", "sem_timedwait", "pthread_setperiod_np",
                "pthread_getperiod_np", "timer_gettime"} -> 2
      [] f \in {"open", "read", "write", "lseek", "ioctl", "pthread_getschedparam",
                "pthread_setschedparam", "pthread_cond_timedwait", "sigaction",
                "pthread_sigmask", "sem_init", "timer_create"} -> 3
      [] f \in {"timer_settime", "pthread_create_idle", "pthread_create2"} -> 4
      [] f = "pthread_create" -> 5
      [] f = "mmap" -> 6
      [] OTHER -> 1

-----------------------------------------------------------------------------
(* The stubs: how many arguments each passes, file by file.                *)
In(name, S) == \E e \in S : e[1] = name
Of(name, S) == (CHOOSE e \in S : e[1] = name)[2]

stubs_create == {<<"pthread_create2", 4>>, <<"pthread_create", 5>>, <<"pthread_exit", 1>>,
    <<"pthread_join", 2>>, <<"pthread_detach", 1>>, <<"pthread_once", 2>>,
    <<"pthread_self", 0>>, <<"pthread_getschedparam", 3>>, <<"pthread_setschedparam", 3>>}
stubs_cancel == {<<"pthread_setcancelstate", 2>>, <<"pthread_setcanceltype", 2>>,
    <<"pthread_cancel", 1>>, <<"pthread_cleanup_pop", 1>>, <<"pthread_cleanup_push", 2>>}
stubs_mutex == {<<"pthread_mutex_init", 2>>, <<"pthread_mutex_destroy", 1>>,
    <<"pthread_mutex_lock", 1>>, <<"pthread_mutex_timedlock", 2>>,
    <<"pthread_mutex_trylock", 1>>, <<"pthread_mutex_unlock", 1>>}
stubs_cond == {<<"pthread_cond_init", 2>>, <<"pthread_cond_destroy", 1>>,
    <<"pthread_cond_signal", 1>>, <<"pthread_cond_broadcast", 1>>,
    <<"pthread_cond_wait", 2>>, <<"pthread_cond_timedwait", 3>>}
stubs_key == {<<"pthread_key_create", 2>>, <<"pthread_setspecific", 2>>,
    <<"pthread_getspecific", 1>>, <<"pthread_key_delete", 1>>, <<"pthread_yield", 0>>,
    <<"pthread_create_idle", 4>>}
stubs_sem == {<<"sem_init", 3>>, <<"sem_destroy", 1>>, <<"sem_getvalue", 2>>,
    <<"sem_wait", 1>>, <<"sem_timedwait", 2>>, <<"sem_trywait", 1>>, <<"sem_post", 1>>}
stubs_signal == {<<"sigaction", 3>>, <<"pthread_kill", 2>>, <<"pthread_sigmask", 3>>,
    <<"sigwait", 2>>, <<"sigsuspend", 1>>, <<"sigpending", 1>>}
stubs_irqs == {<<"install_irq_handler", 2>>, <<"install_trap_handler", 2>>,
    <<"hw_disable_irq", 1>>, <<"hw_enable_irq", 1>>, <<"hw_ack_irq", 1>>,
    <<"hw_end_irq", 1>>, <<"hw_cli", 0>>, <<"hw_sti", 0>>, <<"hw_restore_flags", 1>>,
    <<"hw_save_flags", 1>>, <<"hw_save_flags_and_cli", 1>>}
stubs_rtl == {<<"pthread_delete_np", 1>>, <<"pthread_setperiod_np", 2>>,
    <<"pthread_getperiod_np", 2>>}
stubs_time == {<<"nanosleep", 2>>, <<"usleep", 1>>, <<"clock_settime", 2>>,
    <<"clock_gettime", 2>>, <<"clock_getres", 2>>, <<"time", 1>>, <<"gettimeofday", 2>>,
    <<"timer_create", 3>>, <<"timer_delete", 1>>, <<"timer_settime", 4>>,
    <<"timer_gettime", 2>>, <<"timer_getoverrun", 1>>}
stubs_mman == {<<"mmap", 6>>, <<"munmap", 2>>, <<"ualloc", 1>>, <<"ufree", 2>>}
stubs_io == {<<"open", 3>>, <<"close", 1>>, <<"read", 3>>, <<"write", 3>>, <<"iopl", 1>>}
stubs_errno == {<<"_get_errno", 0>>, <<"_set_errno", 1>>}
stubs_exit == {<<"exit", 1>>}

Stubs == UNION {stubs_create, stubs_cancel, stubs_mutex, stubs_cond, stubs_key,
                stubs_sem, stubs_signal, stubs_irqs, stubs_rtl, stubs_time,
                stubs_mman, stubs_io, stubs_errno, stubs_exit}

-----------------------------------------------------------------------------
Regs == 0 .. 6
Arg(t, i) == 0 - (16 * t + i)    \* told apart from each other and from the codes
Result(t) == 0 - 16 * t
HandlerArg(t, i) == Arg(t, 8 + i)
HandlerResult(t) == Result(t) - 8

ertl_mux_code(nr, op) == nr * 2^24 + (op % 2^16)
Creates == {"pthread_create", "pthread_create2", "pthread_create_idle"}
NoReturn == {"exit", "pthread_exit"}

ASSUME SyscallPathAssumption ==
    /\ Callers \subseteq Nat /\ Calls \in [Callers -> SUBSET Names]
    /\ HandlerCalls \in [Callers -> SUBSET (Names \ (Creates \cup NoReturn))]

(* One thread runs, the others were interrupted or do not exist yet.       *)
CInit ==
    /\ running \in {t \in Callers : Calls[t] # {}}
    /\ mode = [t \in Callers |-> IF Calls[t] = {} THEN "none" ELSE IF t = running THEN "user" ELSE "irq"]
    /\ vregs = [r \in Regs |-> 0]
    /\ uregs = [t \in Callers |-> vregs] /\ kregs = uregs /\ owed = uregs
    /\ sure = [t \in Callers |-> TRUE]
    /\ call = [t \in Callers |-> "none"] /\ did = [t \in Callers |-> <<>>]
    /\ hcall = call /\ hdid = did /\ frame = did /\ start = did

(* LOADARGS, LOADREGS, swi: the registers that carry no argument keep what *)
(* they had.                                                               *)
L4ERTL_DO_SYSCALL(name, args) ==
    LET n == Of(name, Stubs)
    IN  [r \in Regs |-> IF r = 0 THEN ertl_mux_code(n, nr_of(name))
                        ELSE IF r <= n THEN args[r] ELSE vregs[r]]

vcpu_to_ptregs(saved, t) == [saved EXCEPT ![t] = vregs']
ptregs_to_vcpu(saved, t) == saved[t]

(* The registers of the vCPU are saved for the thread that entered, and    *)
(* the way back loads them: entry_uregs for user mode, else entry_kregs.   *)
vcpu_to_pthread(t, user) ==
    IF user THEN uregs' = vcpu_to_ptregs(uregs, t) /\ UNCHANGED kregs
    ELSE kregs' = vcpu_to_ptregs(kregs, t) /\ UNCHANGED uregs
pthread_to_vcpu(t, user) == ptregs_to_vcpu(IF user THEN uregs ELSE kregs, t)

(* The function that is called, with nr of the saved registers.            *)
dispatch_syscalls(nr, op, regs) == <<syscall_table[op + 1], [i \in 1 .. nr |-> regs[i]]>>
Nr(regs) == regs[0] \div 2^24
Op(regs) == regs[0] % 2^16

Slot(t, v) == [mode EXCEPT ![t] = v]

(* The kernel is entered from user mode and dispatch_syscalls calls the    *)
(* function with the saved registers of the thread.                        *)
Entry(t) ==
    /\ running = t /\ mode[t] = "user"
    /\ \E name \in Calls[t] :
           /\ In(name, Stubs)
           /\ vregs' = L4ERTL_DO_SYSCALL(name, [i \in 1 .. 6 |-> Arg(t, i)])
           /\ call' = [call EXCEPT ![t] = name]
    /\ vcpu_to_pthread(t, TRUE)
    /\ did' = [did EXCEPT ![t] = dispatch_syscalls(Nr(vregs'), Op(vregs'), uregs'[t])]
    /\ owed' = [owed EXCEPT ![t] = [vregs' EXCEPT ![0] = Result(t)]]
    /\ mode' = Slot(t, "func") /\ UNCHANGED <<running, sure, hcall, hdid, frame, start>>

(* An interrupt in user mode.                                              *)
Interrupt(t) ==
    /\ running = t /\ mode[t] = "user"
    /\ vregs' = vregs /\ vcpu_to_pthread(t, TRUE)
    /\ owed' = [owed EXCEPT ![t] = vregs] /\ sure' = [sure EXCEPT ![t] = TRUE]
    /\ mode' = Slot(t, "irq") /\ UNCHANGED <<running, call, did, hcall, hdid, frame, start>>

-----------------------------------------------------------------------------
(* A new thread.  The stack, from its end up: ip, cpsr, lr, r12 .. r0, sp. *)
USER_MODE == 1
TOP == 99
Zeros(n) == [i \in 1 .. n |-> 0]
setup_stack(startup, start_routine, args) ==
    <<startup, USER_MODE, 0>> \o Zeros(11) \o <<args, start_routine, TOP>>
setup_stack2(start_routine, args) ==
    <<start_routine, USER_MODE, 0>> \o Zeros(12) \o <<args, TOP>>

(* The first dispatch takes them off in this order; a thread without a     *)
(* kernel stack is new.                                                    *)
context_switch_to(stack) ==
    [ip |-> stack[1], saved_state |-> stack[2], lr |-> stack[3],
     r |-> [n \in 0 .. 12 |-> stack[16 - n]], sp |-> stack[17]]

Made(t) ==
    LET a == did[t][2]
    IN  [of |-> did[t],
         stack |-> IF call[t] = "pthread_create" THEN setup_stack(a[3], a[4], a[5])
                   ELSE setup_stack2(a[3], a[4])]

(* pthread_create_sys and pthread_create2_sys, where they do not fail.     *)
Create(t, u) ==
    /\ running = t /\ mode[t] = "func" /\ mode[u] = "none"
    /\ call[t] \in {"pthread_create", "pthread_create2"}
    /\ frame' = [frame EXCEPT ![u] = Made(t)]
    /\ mode' = [mode EXCEPT ![t] = "made", ![u] = "new"]
    /\ UNCHANGED <<vregs, running, uregs, kregs, call, did, owed, sure, hcall, hdid, start>>

(* A new thread goes to user mode with the registers of its stack.         *)
Begins(u, stack) ==
    LET f == context_switch_to(stack)
    IN  /\ running' = u /\ vregs' = [r \in Regs |-> f.r[r]]
        /\ start' = [start EXCEPT ![u] = f]
        /\ owed' = [owed EXCEPT ![u] = vregs'] /\ sure' = [sure EXCEPT ![u] = TRUE]

(* pthread_create_idle_sys goes on in the new thread and ends the caller.  *)
pthread_create_idle_sys(t, u) ==
    /\ running = t /\ mode[t] = "func" /\ mode[u] = "none"
    /\ call[t] = "pthread_create_idle"
    /\ frame' = [frame EXCEPT ![u] = Made(t)] /\ Begins(u, Made(t).stack)
    /\ mode' = [mode EXCEPT ![t] = "gone", ![u] = "user"]
    /\ UNCHANGED <<uregs, kregs, call, did, hcall, hdid>>

-----------------------------------------------------------------------------
(* A function blocks, or an interrupt comes in the kernel: another thread  *)
(* goes on there (the registers of kernel code are not looked at), or it   *)
(* begins.                                                                 *)
InKernel(t) == mode[t] \in {"func", "made", "irq", "sig", "hfunc", "hsig"}
Left(t) == IF call[t] = "pthread_exit" /\ mode[t] = "func" THEN Slot(t, "gone") ELSE mode
Switch(t, u) ==
    /\ running = t /\ InKernel(t) /\ u # t
    /\ \/ InKernel(u) /\ running' = u /\ mode' = Left(t) /\ UNCHANGED <<vregs, owed, sure, start>>
       \/ mode[u] = "new" /\ Begins(u, frame[u].stack) /\ mode' = [Left(t) EXCEPT ![u] = "user"]
    /\ UNCHANGED <<uregs, kregs, call, did, hcall, hdid, frame>>

-----------------------------------------------------------------------------
(* The results of these two are dropped: their callers get the code back.  *)
Unreported == {"pthread_create", "pthread_create_idle"}
Reported(saved, t, name, result) ==
    IF name \in Unreported THEN saved ELSE [saved EXCEPT ![t][0] = result]

(* The function returns: its result goes to the saved registers of the     *)
(* thread that called, and the vCPU gets r0 as it was before.              *)
Returns(t) ==
    /\ running = t /\ mode[t] \in {"func", "made"} /\ call[t] \notin NoReturn
    /\ uregs' = Reported(uregs, t, call[t], Result(t))
    /\ vregs' = [ptregs_to_vcpu(uregs', t) EXCEPT ![0] = uregs[t][0]]
    /\ sure' = [sure EXCEPT ![t] = call[t] \notin Unreported]
    /\ mode' = Slot(t, "sig") /\ UNCHANGED <<running, kregs, call, did, owed, hcall, hdid, frame, start>>

(* do_irq returns.                                                         *)
IrqReturns(t) ==
    /\ running = t /\ mode[t] = "irq" /\ vregs' = pthread_to_vcpu(t, TRUE)
    /\ mode' = Slot(t, "sig")
    /\ UNCHANGED <<running, uregs, kregs, call, did, owed, sure, hcall, hdid, frame, start>>

(* A handler calls: from do_signals, or before the function of the thread  *)
(* is called, when hw_sti finds an interrupt pending.  The arguments are   *)
(* saved in entry_kregs and dispatch_syscalls is given entry_uregs.        *)
HandlerEntry(t) ==
    /\ running = t /\ mode[t] \in {"func", "sig"}
    /\ \E name \in HandlerCalls[t] :
           /\ In(name, Stubs)
           /\ vregs' = L4ERTL_DO_SYSCALL(name, [i \in 1 .. 6 |-> HandlerArg(t, i)])
           /\ hcall' = [hcall EXCEPT ![t] = name]
    /\ vcpu_to_pthread(t, FALSE)
    /\ hdid' = [hdid EXCEPT ![t] = dispatch_syscalls(Nr(vregs'), Op(vregs'), uregs[t])]
    /\ mode' = Slot(t, IF mode[t] = "func" THEN "hfunc" ELSE "hsig")
    /\ UNCHANGED <<running, call, did, owed, sure, frame, start>>

(* The result goes to entry_uregs as well, and the handler gets its        *)
(* registers back.                                                         *)
HandlerReturns(t) ==
    /\ running = t /\ mode[t] \in {"hfunc", "hsig"}
    /\ uregs' = Reported(uregs, t, hcall[t], HandlerResult(t))
    /\ vregs' = pthread_to_vcpu(t, FALSE)
    /\ sure' = [sure EXCEPT ![t] = FALSE]
    /\ mode' = Slot(t, IF mode[t] = "hfunc" THEN "func" ELSE "sig")
    /\ UNCHANGED <<running, kregs, call, did, owed, hcall, hdid, frame, start>>

(* Slip: the registers of the vCPU stay as dispatch_syscalls left them.    *)
Leave_Stale(t) ==
    /\ running = t /\ mode[t] = "sig" /\ mode' = Slot(t, "user")
    /\ UNCHANGED <<vregs, running, uregs, kregs, call, did, owed, sure, hcall, hdid, frame, start>>

(* The end of l4ertl_vcpu_entry_c.                                         *)
Leave(t) ==
    /\ running = t /\ mode[t] = "sig" /\ mode' = Slot(t, "user")
    /\ vregs' = pthread_to_vcpu(t, TRUE)
    /\ UNCHANGED <<running, uregs, kregs, call, did, owed, sure, hcall, hdid, frame, start>>

CNext == \E t \in Callers :
    \/ Entry(t) \/ Interrupt(t) \/ Returns(t) \/ IrqReturns(t) \/ Leave(t)
    \/ HandlerEntry(t) \/ HandlerReturns(t)
    \/ \E u \in Callers : Switch(t, u) \/ Create(t, u) \/ pthread_create_idle_sys(t, u)

CSpec == CInit /\ [][CNext]_cvars

-----------------------------------------------------------------------------
(* Every stub has the kernel call the function of its name with exactly    *)
(* the arguments it takes, whatever was left in the registers.  A thread   *)
(* that is back in user mode, from a call or an interrupt, finds the       *)
(* registers it had and the result of its own call, however calls,         *)
(* interrupts and handlers of several threads overlapped.  Of r0 this is   *)
(* said only if no handler of the thread made a call on the way out, as    *)
(* its result takes the same place, and the call was not pthread_create,   *)
(* which reports nothing.  A handler's call has the kernel call the        *)
(* function of its name too, but with the registers of the code it         *)
(* interrupts in the place of its arguments.  A new thread begins, in user *)
(* mode and at the top of its stack, with the function it was made for and *)
(* its argument.                                                           *)
CallsServed ==
    /\ \A t \in Callers : start[t] # <<>> =>
           LET a == frame[t].of[2]
               r == start[t].r
           IN  /\ start[t].sp = TOP /\ start[t].saved_state = USER_MODE /\ start[t].ip = a[3]
               /\ IF frame[t].of[1] = "pthread_create" THEN r[0] = a[4] /\ r[1] = a[5] ELSE r[0] = a[4]
    /\ \A t \in Callers :
        /\ call[t] # "none" => did[t] = <<call[t], [i \in 1 .. Params(call[t]) |-> Arg(t, i)]>>
        /\ running = t /\ mode[t] = "user" =>
               \A r \in Regs : r # 0 \/ sure[t] => vregs[r] = owed[t][r]
        /\ mode[t] \in {"hfunc", "hsig"} =>
               hdid[t] = <<hcall[t], [i \in 1 .. Params(hcall[t]) |-> owed[t][i]]>>
=============================================================================
