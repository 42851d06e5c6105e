----------------------------- MODULE SchedWindow -----------------------------
(***************************************************************************)
(* Sched with the critical sections of the system calls opened up where an *)
(* interrupt in the middle of one could matter.  hw_save_flags_and_cli     *)
(* masks interrupts in the headers of the other processors and in the      *)
(* version include/ertl_core/l4/processor.h keeps under #if 0; the version *)
(* it compiles only saves the flags.  CliMasks says which one is built.    *)
(***************************************************************************)
EXTENDS Sched

CONSTANT CliMasks

ASSUME CliAssumption == CliMasks \in BOOLEAN

VARIABLE half   \* the critical section a thread's system call is inside of

wvars == <<k, current, idle, ctx, resched, irq_on, nest, pend, half>>

(* "suspend": remove_ss is done, the state is still to be set;             *)
(* "activate": insert_ss of arg is done, its state is still to be set;     *)
(* "switch": get_head_ss chose arg, the switch is still to come.           *)
Halves == [op : {"none", "suspend", "activate", "switch"}, arg : Ptr]
Whole  == [op |-> "none", arg |-> NULL]

Busy == ctx[current] = "sys" /\ half[current] # Whole

Open(op, arg) == half' = [half EXCEPT ![current] = [op |-> op, arg |-> arg]]
Close == half' = [half EXCEPT ![current] = Whole]

InCall == InKernel /\ ctx[current] = "sys" /\ ~Busy

-----------------------------------------------------------------------------
SuspendFirst ==
    /\ InCall /\ Free /\ current # idle
    /\ KernelStep([k EXCEPT !.ss = remove_ss(k.ss, current)], TRUE)
    /\ Open("suspend", NULL)

(* The second halves of suspend_thread and activate_thread.                *)
Complete(kk) ==
    LET h == half[current]
    IN  IF ~Busy THEN kk
        ELSE CASE h.op = "suspend" -> [kk EXCEPT !.state[current] =
                                         IF @ = "FINISHED" THEN @ ELSE "SUSPENDED"]
               [] h.op = "activate" -> [kk EXCEPT !.state[h.arg] = "READY"]
               [] OTHER -> kk

ActivateFirst(t) ==
    /\ InCall
    /\ k.state[t] = "SUSPENDED"
    /\ \E b \in BOOLEAN :
         KernelStep([k EXCEPT !.ss = insert_ss(k.ss, t, k.prio[t])], b)
    /\ Open("activate", t)

SecondHalf ==
    /\ InKernel /\ Busy /\ half[current].op \in {"suspend", "activate"}
    /\ KernelStep(Complete(k), FALSE)
    /\ Close

(* scheduling(): the choice, then the switch to what was chosen.           *)
SchedulingChoose ==
    /\ InCall /\ Frame(current) \in resched
    /\ LET h == get_head_ss(k.ss) IN Open("switch", IF h = NULL THEN idle ELSE h)
    /\ UNCHANGED vars

SchedulingSwitch ==
    /\ InKernel /\ Busy /\ half[current].op = "switch"
    /\ LET new == half[current].arg
       IN  IF new = current
           THEN /\ resched' = resched \ {Frame(current)}
                /\ pend' = FALSE
                /\ UNCHANGED <<k, current, ctx, irq_on>>
           ELSE context_switch_to(new)
    /\ Close
    /\ UNCHANGED <<idle, nest>>

(* Slip: nothing keeps the interrupt out of a critical section.            *)
IrqEnterWindow_Unmasked == IrqEnter /\ UNCHANGED half

(* An interrupt comes in the middle of a critical section unless           *)
(* hw_save_flags_and_cli masked it.                                        *)
IrqEnterWindow ==
    /\ Busy => ~CliMasks
    /\ IrqEnter
    /\ UNCHANGED half

-----------------------------------------------------------------------------
(* What stays whole: the other calls, and all that runs in interrupt       *)
(* frames, which the vCPU enters with interrupts disabled.                 *)
WholeStep ==
    /\ ~Busy
    /\ \/ SyscallEnter \/ SyscallReturn \/ Finish \/ pthread_yield_sys
       \/ IrqExit \/ IrqReturn
       \/ ctx[current] # "sys" /\ (Suspend \/ CallScheduling)
       \/ \E t \in Threads :
            \/ CreateIdle(t) \/ Delete(t) \/ pthread_delete_np_sys(t) \/ IrqWake(t)
            \/ ctx[current] # "sys" /\ Activate(t)
            \/ \E p \in Params : Create(t, p) \/ SetPrio(t, p)
    /\ UNCHANGED half

WNext ==
    \/ WholeStep \/ IrqEnterWindow
    \/ SuspendFirst \/ SecondHalf \/ SchedulingChoose \/ SchedulingSwitch
    \/ \E t \in Threads : ActivateFirst(t)

WInit == Init /\ half = [t \in Threads |-> Whole]

WSpec == WInit /\ [][WNext]_wvars

(* No interrupt comes inside a critical section.                           *)
Uninterrupted == [][~(Busy /\ IrqEnterWindow)]_wvars

-----------------------------------------------------------------------------
Atomic == INSTANCE Sched WITH k <- Complete(k)

(* When hw_save_flags_and_cli masks interrupts, each critical section of   *)
(* the scheduler is as good as one step: the opened-up kernel implements   *)
(* Sched, so what is shown of Sched holds of it.                           *)
CriticalSectionsAtomic == Atomic!Spec
=============================================================================
