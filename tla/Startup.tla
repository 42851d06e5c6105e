------------------------------ MODULE Startup ------------------------------
(***************************************************************************)
(* How the system starts (core/vmain.c, elf-loader.c, port/setup.c and     *)
(* what it calls, ulibc/user_entry_point.c).  A function is the sequence   *)
(* of its steps; a step makes one part of the system and uses parts that   *)
(* have been made before.  main starts the vCPU thread and sleeps, the     *)
(* vCPU goes on to the application; time_irq_thread runs beside it from    *)
(* init_l4_timer on.  What the system does after a step has used a part    *)
(* that is not there (a null pointer, an invalid capability) is not        *)
(* followed.                                                               *)
(***************************************************************************)
EXTENDS Integers, Sequences

VARIABLES boot,     \* what the vCPU thread (before it, main) has still to do
          aside,    \* what time_irq_thread has still to do
          made,     \* the parts there are
          lost,     \* the parts that failed or were skipped, and it went on
          missing,  \* the parts that a step used before they were there
          halted    \* it was given up

svars == <<boot, aside, made, lost, missing, halted>>

-----------------------------------------------------------------------------
(* fail: Stop if the function then returns an error, which ends the start  *)
(* where the callers look at it; Debugger if the kernel debugger is        *)
(* entered; Ignored if nobody looks; Never if the step does not fail; how  *)
(* many of the following steps are skipped, where a caller ignores it.     *)
Stop == -1
Never == -2
Ignored == -3
Debugger == -4
Make(part, uses) == << [part |-> part, uses |-> uses, fail |-> Never] >>
Try(part, uses)  == << [part |-> part, uses |-> uses, fail |-> Stop] >>
Unseen(part, uses) == << [part |-> part, uses |-> uses, fail |-> Ignored] >>

(* A function whose failure its caller does not see: what is left of it is *)
(* skipped.                                                                *)
Skips(f) == [i \in DOMAIN f |-> IF f[i].fail = Stop THEN [f[i] EXCEPT !.fail = Len(f) - i] ELSE f[i]]
Halts(f) == [i \in DOMAIN f |-> IF f[i].fail = Stop THEN [f[i] EXCEPT !.fail = Debugger] ELSE f[i]]

(* The errors of L4 are negative; allocate_memory hands them on, and       *)
(* init_vcpu_memory looks for positive ones.                               *)
allocate_memory(ds, pages, what) == Try(ds, {}) \o Try(pages, {ds}) \o Try(what, {pages})
init_vcpu_memory ==
    Skips(allocate_memory("text dataspace", "text pages", "text")) \o Make("clean text", {"text"})
    \o Skips(allocate_memory("stack dataspace", "stack pages", "stack")) \o Make("clean stack", {"stack"})

(* An error is 1, which main takes for a size: only a program without a    *)
(* segment at its entry gives 0.                                           *)
elf_loader ==
    Skips(Try("rom", {}) \o Try("file", {"rom"}) \o Try("image", {"file"}) \o Try("magic", {"image"}))
    \o Try("program", {"magic", "clean text"})

main ==
    init_vcpu_memory \o elf_loader
    \o Try("task cap", {}) \o Unseen("task", {"task cap"})
    \o Try("vcpu cap", {}) \o Unseen("vcpu", {"vcpu cap"})
    \o Unseen("vcpu state", {}) \o Unseen("bound", {"vcpu", "vcpu state"})
    \o Unseen("vcpu running", {"bound"})

-----------------------------------------------------------------------------
(* init_l4_icu.                                                            *)
init_arch_irqs == Unseen("irq caps", {"vcpu"})
init_irqs_traps == Make("irq table", {}) \o init_arch_irqs
setup_cpu == init_irqs_traps

set_sysclk_freq == Unseen("sys clock", {})
init_l4_timer ==
    Try("time cap", {}) \o Unseen("time thread", {"time cap"}) \o Unseen("time utcb", {})
    \o Try("time bound", {"time thread", "time utcb"}) \o Try("time scheduled", {"time bound"})
    \o Try("time running", {"time scheduled"})
init_hwtimer_l4_timer ==
    Try("wkup registers", {}) \o Try("cm2 registers", {}) \o Try("timer2", {"cm2 registers"})
    \o Try("timer2 irq", {"irq caps"}) \o Make("timer2 handler", {"irq table"})
    \o Make("timer2 enabled", {"timer2", "timer2 irq"})

pitlink == set_sysclk_freq \o Halts(init_l4_timer \o init_hwtimer_l4_timer)

(* time_irq_thread; the registers are the last of gptimer10_init.          *)
gptimer10_init == Try("timer10 clock", {}) \o Try("timer10", {"timer10 clock"})
time_irq_thread ==
    Halts(Unseen("time irq cap", {}) \o Try("time irq", {"time irq cap"}) \o Try("time attached", {"time irq"})
          \o Try("time unmasked", {"time attached"}) \o gptimer10_init)

(* The result is the one of the last device.                               *)
init_devs == Unseen("devices", {}) \o Try("last device", {})
init_time == Make("clock handler", {"timer2"}) \o Make("timer heap", {})
create_idle == Try("idle", {"sysmem", "sched"}) \o Make("idle start time", {"idle", "timer10"})
               \o Unseen("idle stack", {"idle"})

(* Slip: the devices are linked before the interrupts are set up.          *)
setup_kernel_LinksFirst ==
    pitlink \o setup_cpu \o Try("sysmem", {}) \o Make("stacks", {})
    \o init_devs \o Make("sched", {}) \o Make("signals", {}) \o init_time
    \o Skips(create_idle) \o Make("interrupts on", {"timer2 handler", "clock handler", "idle"})
setup_kernel ==
    setup_cpu \o pitlink \o Try("sysmem", {}) \o Make("stacks", {})
    \o init_devs \o Make("sched", {}) \o Make("signals", {}) \o init_time
    \o Skips(create_idle) \o Make("interrupts on", {"timer2 handler", "clock handler", "idle"})

vcpu_thread ==
    Skips(setup_kernel)
    \o Unseen("text mapped", {"task", "text"}) \o Unseen("stack mapped", {"task", "stack"})
    \o Unseen("vmm mapped", {"task"})
    \o Make("user mode", {"vcpu running", "program", "text mapped", "stack mapped"})

(* The first thread of the application is the idle thread, which creates   *)
(* the one that runs its main function.  The results are not looked at,    *)
(* but nothing goes on without them: start_main only yields then.          *)
init_ulibc == Try("user memory", {"sysmem"}) \o Try("user heap", {"user memory"})
user_entry_point == init_ulibc \o Make("main", {"user heap", "vmm mapped"})
start_main == Try("main thread", {"sysmem", "sched"})
startapp == Try("idle runs", {"user mode", "idle", "idle stack"})

-----------------------------------------------------------------------------
Begun == main \o vcpu_thread \o startapp \o start_main \o user_entry_point
StartInit ==
    boot = Begun /\ aside = <<>> /\ made = {} /\ lost = {} /\ missing = {} /\ halted = FALSE

Parts(f) == {f[i].part : i \in DOMAIN f}

(* The first step of rest succeeds, or fails and skips others.             *)
Does(rest) ==
    LET s == Head(rest) IN
    made' = made \cup {s.part} /\ missing' = s.uses \ made /\ UNCHANGED <<lost, halted>>
Skipped(s) == IF s.fail > 0 THEN s.fail ELSE 0
Fails(rest) ==
    LET s == Head(rest) IN
    /\ s.fail # Never /\ halted' = (s.fail \in {Stop, Debugger})
    /\ lost' = IF halted' THEN lost ELSE lost \cup Parts(SubSeq(rest, 1, 1 + Skipped(s)))
    /\ UNCHANGED <<made, missing>>

GoesOn == missing = {} /\ ~halted
Boot ==
    /\ GoesOn /\ boot # <<>>
    /\ \/ Does(boot) /\ boot' = Tail(boot)
          /\ aside' = IF Head(boot).part = "time running" THEN time_irq_thread ELSE aside
       \/ Fails(boot) /\ boot' = SubSeq(boot, 2 + Skipped(Head(boot)), Len(boot)) /\ UNCHANGED aside

Aside ==
    /\ GoesOn /\ aside # <<>> /\ aside' = Tail(aside)
    /\ Does(aside) \/ Fails(aside)
    /\ UNCHANGED boot

StartNext == Boot \/ Aside

-----------------------------------------------------------------------------
Steps == Begun \o time_irq_thread
Unnoticed == {Steps[i].part : i \in {j \in DOMAIN Steps : Steps[j].fail = Ignored}}

(* A step finds a part missing only if that part failed or was skipped and *)
(* nobody stopped, or if time_irq_thread, which runs beside, has not come  *)
(* to it yet (create_idle reads its timer and waits for nothing): the      *)
(* order of the functions that start the system is right.  And when the    *)
(* application's main function runs, the only parts that are not there are *)
(* those whose own failure nobody looks at: what setup_kernel,             *)
(* allocate_memory, elf_loader and create_idle return an error for is      *)
(* never missed in silence, although their callers go on.                  *)
StartsWhole ==
    /\ missing \subseteq lost \cup Parts(aside)
    /\ "main" \in made /\ missing = {} => aside = <<>> /\ lost \subseteq Unnoticed
=============================================================================
