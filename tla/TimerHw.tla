------------------------------ MODULE TimerHw ------------------------------
(***************************************************************************)
(* The two timers of the OMAP4 at the level of their registers             *)
(* (common/arm_omap4_pit.c) with the interrupt control of common/l4_icu.c. *)
(* GPTIMER2 counts once to its overflow and interrupts the vCPU; GPTIMER10 *)
(* goes round and is the low word of the clock, and time_irq_thread, a     *)
(* thread of L4 beside the vCPU, counts its overflows in current_time_hi.  *)
(* One step is one access to a register or one call of L4: the counters go *)
(* on between any two of them.  The vCPU is not interrupted while it sets  *)
(* the timer or is in do_irq (for critical sections see SchedWindow).      *)
(* Timers sees both timers from above, as hw and ticks.                    *)
(***************************************************************************)
EXTENDS Integers, Sequences

CONSTANTS
    Wrap,       \* a counter goes from 0 to Wrap - 1 and round, 2^32 in the source
    Counts,     \* intervals that are asked for, in ticks
    LastTick    \* bound: how long the counters are followed

ASSUME TimerHwAssumption == Wrap \in Nat \ {0} /\ Counts \subseteq 0 .. Wrap - 2 /\ LastTick \in Nat

VARIABLES
    now,        \* ticks since the start, as GPTIMER2 counts them
    timer2,     \* registers: [tier, tisr, on, left]; left: ticks to the overflow
    attached,   \* the interrupt of GPTIMER2 goes to the vCPU (irq_bits)
    cpu,        \* what the vCPU has still to do to the timer
    count,      \* the interval set_hwtimer was called with
    due,        \* when the interrupt that was asked for has to be there, or Nothing
    total,      \* ticks since the start, as GPTIMER10 counts them
    timer10,    \* registers: [tier, tisr, tcrr]
    hi,         \* current_time_hi
    th,         \* what time_irq_thread has still to do
    rd          \* read_l4_timer: [todo, hi, lo, from, to, late]

twvars == <<now, timer2, attached, cpu, count, due>>
tcvars == <<total, timer10, hi, th, rd>>
Nothing == -1

-----------------------------------------------------------------------------
(* GPTIMER2: the steps of each function, in their order.                   *)

(* Slip: the interrupt is cleared when the counter is already loaded.      *)
set_hwtimer_ClearsLate == <<"load", "enable", "clear", "start", "attach", "set">>
set_hwtimer == <<"clear", "load", "enable", "start", "attach", "set">>
hwtimer_irq_handler == <<"disable", "clear", "user">>

(* The table that init_l4_icu fills: to acknowledge an interrupt is to     *)
(* disable it, and to end it is to enable it.                              *)
hw_ack_irq == <<"detach">>
hw_end_irq == <<"attach">>

(* init_hwtimer: interrupts off and cleared; the first set_hwtimer starts  *)
(* the counter.                                                            *)
init_hwtimer ==
    /\ timer2 = [tier |-> FALSE, tisr |-> FALSE, on |-> FALSE, left |-> Wrap]
    /\ attached = TRUE /\ cpu = <<>> /\ count = 0 /\ due = Nothing

Doing(step) == cpu # <<>> /\ Head(cpu) = step /\ cpu' = Tail(cpu) /\ UNCHANGED now
Register(r, v) == timer2' = [timer2 EXCEPT ![r] = v] /\ UNCHANGED <<attached, count, due>>

SetCalled(n) ==
    /\ cpu = <<>> /\ count' = n /\ cpu' = set_hwtimer
    /\ UNCHANGED <<now, timer2, attached, due>>

Clear   == Doing("clear") /\ Register("tisr", FALSE)
Load    == Doing("load") /\ Register("left", count + 1)     \* tcrr = 0xFFFFFFFF - counter
Enable  == Doing("enable") /\ Register("tier", TRUE)
Start   == Doing("start") /\ Register("on", TRUE)
Disable == Doing("disable") /\ Register("tier", FALSE)

enable_l4_irq ==
    Doing("attach") /\ attached' = TRUE /\ UNCHANGED <<timer2, count, due>>
disable_l4_irq ==
    Doing("detach") /\ attached' = FALSE /\ UNCHANGED <<timer2, count, due>>

(* set_hwtimer comes back: from here on count + 1 ticks at most.           *)
IsSet == Doing("set") /\ due' = now + count + 1 /\ UNCHANGED <<timer2, attached, count>>

(* do_irq, when the vCPU takes the interrupt.                              *)
do_irq ==
    /\ cpu = <<>> /\ attached /\ timer2.tier /\ timer2.tisr
    /\ cpu' = hw_ack_irq \o hwtimer_irq_handler \o hw_end_irq
    /\ due' = Nothing
    /\ UNCHANGED <<now, timer2, attached, count>>

(* clock_handler sets the timer again if there is still a kernel timer.    *)
UserHandler ==
    /\ cpu # <<>> /\ Head(cpu) = "user"
    /\ \/ cpu' = Tail(cpu) /\ UNCHANGED count
       \/ cpu' = set_hwtimer \o Tail(cpu) /\ count' \in Counts
    /\ UNCHANGED <<now, timer2, attached, due>>

(* The counter reloads with 0 and goes on behind its overflow (TCLR_AR).   *)
Counting2 ==
    /\ now < LastTick /\ now' = now + 1
    /\ timer2' = IF ~timer2.on THEN timer2
                 ELSE IF timer2.left > 1 THEN [timer2 EXCEPT !.left = @ - 1]
                 ELSE [timer2 EXCEPT !.left = Wrap, !.tisr = TRUE]
    /\ UNCHANGED <<attached, cpu, count, due>>

TwNext ==
    \/ Clear \/ Load \/ Enable \/ Start \/ Disable \/ enable_l4_irq \/ disable_l4_irq
    \/ IsSet \/ do_irq \/ UserHandler \/ Counting2
    \/ \E n \in Counts : SetCalled(n)

TwSpec == now = 0 /\ init_hwtimer /\ [][TwNext]_twvars

-----------------------------------------------------------------------------
(* GPTIMER10 and the clock.                                                *)

(* Slip: counts first, clears then.                                        *)
l4_timer_irq_handler_CountsFirst == <<"disable", "count", "clear", "enable">>
l4_timer_irq_handler == <<"disable", "clear", "count", "enable">>

timer10_started ==
    /\ timer10 = [tier |-> TRUE, tisr |-> FALSE, tcrr |-> 0]
    /\ hi = 0 /\ th = <<>>

(* Overflows that are not in current_time_hi yet.                          *)
Uncounted == (IF timer10.tisr THEN 1 ELSE 0) +
             (IF \E i \in DOMAIN th : th[i] = "count" /\ ~\E j \in 1 .. i : th[j] = "clear" THEN 1 ELSE 0)

NoRead == [todo |-> {}, hi |-> 0, lo |-> 0, from |-> 0, to |-> 0, late |-> 0]

(* The counter goes round.  time_irq_thread has cleared an overflow when   *)
(* the next one comes (bound: within Wrap ticks, 112 seconds), and nobody  *)
(* takes that long to read the clock.                                      *)
Counting10 ==
    LET full == timer10.tcrr = Wrap - 1
    IN  /\ total < LastTick /\ total' = total + 1
        /\ full => ~timer10.tisr
        /\ rd.todo # {} => total + 1 < rd.from + Wrap
        /\ timer10' = [timer10 EXCEPT !.tcrr = (@ + 1) % Wrap, !.tisr = @ \/ full]
        /\ UNCHANGED <<hi, th, rd>>

(* time_irq_thread: l4_irq_wait comes back when the interrupt is there.    *)
irq_wait ==
    /\ th = <<>> /\ timer10.tier /\ timer10.tisr
    /\ th' = l4_timer_irq_handler
    /\ UNCHANGED <<total, timer10, hi, rd>>

TimeStep ==
    /\ th # <<>> /\ th' = Tail(th)
    /\ hi' = IF Head(th) = "count" THEN hi + 1 ELSE hi
    /\ timer10' = CASE Head(th) = "disable" -> [timer10 EXCEPT !.tier = FALSE]
                    [] Head(th) = "clear" -> [timer10 EXCEPT !.tisr = FALSE]
                    [] Head(th) = "enable" -> [timer10 EXCEPT !.tier = TRUE]
                    [] OTHER -> timer10
    /\ UNCHANGED <<total, rd>>

(* read_l4_timer: C does not say which operand of | is read first.         *)
ReadBegins ==
    /\ rd.todo = {}
    /\ rd' = [NoRead EXCEPT !.todo = {"hi", "lo"}, !.from = total, !.late = Uncounted]
    /\ UNCHANGED <<total, timer10, hi, th>>
ReadHi ==
    /\ "hi" \in rd.todo /\ rd' = [rd EXCEPT !.todo = @ \ {"hi"}, !.hi = hi, !.to = total]
    /\ UNCHANGED <<total, timer10, hi, th>>
ReadLo ==
    /\ "lo" \in rd.todo /\ rd' = [rd EXCEPT !.todo = @ \ {"lo"}, !.lo = timer10.tcrr, !.to = total]
    /\ UNCHANGED <<total, timer10, hi, th>>

TcNext == Counting10 \/ irq_wait \/ TimeStep \/ ReadBegins \/ ReadHi \/ ReadLo

TcInit == total = 0 /\ timer10_started /\ rd = NoRead
TcSpec == TcInit /\ [][TcNext]_tcvars

ThInit == now = 0 /\ init_hwtimer /\ TcInit

-----------------------------------------------------------------------------
(* An interval that was asked for is not forgotten, however the counter    *)
(* runs on between the accesses to the registers: outside of set_hwtimer   *)
(* and do_irq the interrupt is there, or it comes in time and will be      *)
(* taken; and the vCPU is not interrupted again when nothing was asked for *)
(* (that an overflow of the interval before may interrupt early, between   *)
(* clear and load, is left to clock_handler).                              *)
TimerServed ==
    cpu = <<>> =>
        IF due = Nothing THEN ~(timer2.tier /\ timer2.tisr)
        ELSE /\ attached /\ timer2.tier /\ timer2.on
             /\ timer2.tisr \/ now + timer2.left <= due

ClockRead == rd.hi * Wrap + rd.lo

(* No overflow is lost between the counter and time_irq_thread, however    *)
(* long the thread takes to answer it, and the clock that is read is one   *)
(* of the times that passed while it was read, if no overflow was waiting  *)
(* to be counted and none came meanwhile.  Otherwise it is whole rounds    *)
(* away from it: one too late, or too early by the overflows waiting and   *)
(* one.                                                                    *)
ClockNear ==
    /\ total = (hi + Uncounted) * Wrap + timer10.tcrr
    /\ rd.todo = {} =>
           /\ \E t \in rd.from .. rd.to, off \in -1 .. rd.late + 1 : ClockRead = t - off * Wrap
           /\ rd.from \div Wrap = rd.to \div Wrap /\ rd.late = 0 =>
                  ClockRead \in rd.from .. rd.to
=============================================================================
