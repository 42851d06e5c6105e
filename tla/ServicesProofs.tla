--------------------------- MODULE ServicesProofs ---------------------------
(***************************************************************************)
(* Proofs about the services that keep no state in common with one         *)
(* another: the hardware timers, files, the system's memory, the way of    *)
(* the system calls, the calls that tell the time and the calendar.        *)
(***************************************************************************)
EXTENDS TimerHw, DevFs, SysMem, SyscallPath, TimeCalls, Calendar,
        SequenceTheorems, FiniteSetTheorems, TLAPS

(* A nonempty set of natural numbers has a least element.                  *)
LEMMA LeastNumber ==
    ASSUME NEW T \in SUBSET Nat, T # {}
    PROVE  \E n \in T : \A m \in T : n <= m
<1> DEFINE Less == {p \in Nat \X Nat : p[1] < p[2]}
<1>1. IsWellFoundedOn(Less, Nat)
  BY NatLessThanWellFounded DEF OpToRel
<1> HIDE DEF Less
<1>2. PICK n \in T : \A m \in T : ~(<<m, n>> \in Less)
  BY <1>1, WFMin
<1>3. \A m \in T : ~(m < n)
  BY <1>2 DEF Less
<1> QED
  BY <1>3

-----------------------------------------------------------------------------
(* The hardware timer: what the vCPU has still to do to it, by where it    *)
(* is.  In set_hwtimer, called from the kernel or from the handler of the  *)
(* interrupt, before each of its steps:                                    *)
ToSet     == {<<"set">>, <<"set", "attach">>}
ToAttach  == {<<"attach", "set">>, <<"attach", "set", "attach">>}
ToStart   == {<<"start", "attach", "set">>, <<"start", "attach", "set", "attach">>}
ToEnable  == {<<"enable", "start", "attach", "set">>, <<"enable", "start", "attach", "set", "attach">>}
ToLoad    == {<<"load", "enable", "start", "attach", "set">>,
              <<"load", "enable", "start", "attach", "set", "attach">>}
ToClear   == {<<"clear", "load", "enable", "start", "attach", "set">>,
              <<"clear", "load", "enable", "start", "attach", "set", "attach">>}

(* In do_irq before, and after, the timer's interrupt is disabled.         *)
IrqOn  == {<<"detach", "disable", "clear", "user", "attach">>, <<"disable", "clear", "user", "attach">>}
IrqOff == {<<"clear", "user", "attach">>, <<"user", "attach">>}

(* The timer as it is when nothing is to be done, but for attached.        *)
Running2 ==
    IF due = Nothing THEN ~timer2.tier
    ELSE timer2.tier /\ timer2.on /\ (timer2.tisr \/ now + timer2.left <= due)

Loaded == timer2.tisr \/ timer2.left <= count + 1

TwInv ==
    /\ now \in Nat /\ attached \in BOOLEAN /\ due \in Nat \cup {Nothing}
    /\ timer2 \in [tier : BOOLEAN, tisr : BOOLEAN, on : BOOLEAN, left : Nat \ {0}]
    /\ count \in Nat
    /\ \/ cpu = <<>> /\ attached /\ Running2
       \/ cpu = <<"attach">> /\ Running2
       \/ cpu \in ToSet /\ Loaded /\ timer2.tier /\ timer2.on /\ attached
       \/ cpu \in ToAttach /\ Loaded /\ timer2.tier /\ timer2.on
       \/ cpu \in ToStart /\ Loaded /\ timer2.tier
       \/ cpu \in ToEnable /\ Loaded
       \/ cpu \in ToLoad \cup ToClear
       \/ cpu \in IrqOn /\ due = Nothing
       \/ cpu \in IrqOff /\ due = Nothing /\ ~timer2.tier

LEMMA Joined ==
    ASSUME NEW S, NEW s \in Seq(S), NEW t \in Seq(S), NEW u \in Seq(S), Len(u) = Len(s) + Len(t),
           \A i \in 1 .. Len(u) : u[i] = IF i <= Len(s) THEN s[i] ELSE t[i - Len(s)]
    PROVE  s \o t = u
BY ConcatProperties, SeqEqual

Todo == {"detach", "disable", "clear", "user", "attach", "load", "enable", "start", "set"}

LEMMA IrqSteps ==
    hw_ack_irq \o hwtimer_irq_handler \o hw_end_irq = <<"detach", "disable", "clear", "user", "attach">>
<1> DEFINE r == <<"detach", "disable", "clear", "user">>
           u == <<"detach", "disable", "clear", "user", "attach">>
<1>1. /\ hw_ack_irq \in Seq(Todo) /\ hwtimer_irq_handler \in Seq(Todo) /\ hw_end_irq \in Seq(Todo)
      /\ r \in Seq(Todo) /\ u \in Seq(Todo)
  BY DEF Todo, hw_ack_irq, hwtimer_irq_handler, hw_end_irq
<1>2. /\ Len(r) = Len(hw_ack_irq) + Len(hwtimer_irq_handler)
      /\ \A i \in 1 .. Len(r) : r[i] = IF i <= Len(hw_ack_irq) THEN hw_ack_irq[i]
                                                     ELSE hwtimer_irq_handler[i - Len(hw_ack_irq)]
  BY DEF hw_ack_irq, hwtimer_irq_handler
<1>3. /\ Len(u) = Len(r) + Len(hw_end_irq)
      /\ \A i \in 1 .. Len(u) : u[i] = IF i <= Len(r) THEN r[i] ELSE hw_end_irq[i - Len(r)]
  BY DEF hw_end_irq
<1>4. hw_ack_irq \o hwtimer_irq_handler = r /\ r \o hw_end_irq = u
  <2> HIDE DEF r, u
  <2> QED
    BY <1>1, <1>2, <1>3, Joined, Zenon
<1> QED
  BY <1>4, Zenon

LEMMA SetSteps == set_hwtimer \o <<"attach">> = <<"clear", "load", "enable", "start", "attach", "set", "attach">>
<1> DEFINE t == <<"attach">>
           u == <<"clear", "load", "enable", "start", "attach", "set", "attach">>
<1>1. set_hwtimer \in Seq(Todo) /\ t \in Seq(Todo) /\ u \in Seq(Todo)
  BY DEF Todo, set_hwtimer
<1>2. /\ Len(u) = Len(set_hwtimer) + Len(t)
      /\ \A i \in 1 .. Len(u) : u[i] = IF i <= Len(set_hwtimer) THEN set_hwtimer[i] ELSE t[i - Len(set_hwtimer)]
  BY DEF set_hwtimer
<1>3. set_hwtimer \o t = u
  <2> HIDE DEF t, u
  <2> QED
    BY <1>1, <1>2, Joined, Zenon
<1> QED
  BY <1>3, Zenon

LEMMA NextPlaces ==
    /\ \A s \in ToClear : Tail(s) \in ToLoad
    /\ \A s \in ToLoad : Tail(s) \in ToEnable
    /\ \A s \in ToEnable : Tail(s) \in ToStart
    /\ \A s \in ToStart : Tail(s) \in ToAttach
    /\ \A s \in ToAttach : Tail(s) \in ToSet
    /\ \A s \in ToSet : Tail(s) \in {<<>>, <<"attach">>}
<1>1. \A s \in ToClear : Tail(s) \in ToLoad
  <2>1. Tail(<<"clear", "load", "enable", "start", "attach", "set">>) = <<"load", "enable", "start", "attach", "set">>
    OBVIOUS
  <2>2. Tail(<<"clear", "load", "enable", "start", "attach", "set", "attach">>) = <<"load", "enable", "start", "attach", "set", "attach">>
    OBVIOUS
  <2> QED
    BY <2>1, <2>2, Zenon DEF ToClear, ToLoad
<1>2. \A s \in ToLoad : Tail(s) \in ToEnable
  <2>1. Tail(<<"load", "enable", "start", "attach", "set">>) = <<"enable", "start", "attach", "set">>
    OBVIOUS
  <2>2. Tail(<<"load", "enable", "start", "attach", "set", "attach">>) = <<"enable", "start", "attach", "set", "attach">>
    OBVIOUS
  <2> QED
    BY <2>1, <2>2, Zenon DEF ToLoad, ToEnable
<1>3. \A s \in ToEnable : Tail(s) \in ToStart
  <2>1. Tail(<<"enable", "start", "attach", "set">>) = <<"start", "attach", "set">>
    OBVIOUS
  <2>2. Tail(<<"enable", "start", "attach", "set", "attach">>) = <<"start", "attach", "set", "attach">>
    OBVIOUS
  <2> QED
    BY <2>1, <2>2, Zenon DEF ToEnable, ToStart
<1>4. \A s \in ToStart : Tail(s) \in ToAttach
  <2>1. Tail(<<"start", "attach", "set">>) = <<"attach", "set">>
    OBVIOUS
  <2>2. Tail(<<"start", "attach", "set", "attach">>) = <<"attach", "set", "attach">>
    OBVIOUS
  <2> QED
    BY <2>1, <2>2, Zenon DEF ToStart, ToAttach
<1>5. \A s \in ToAttach : Tail(s) \in ToSet
  <2>1. Tail(<<"attach", "set">>) = <<"set">>
    OBVIOUS
  <2>2. Tail(<<"attach", "set", "attach">>) = <<"set", "attach">>
    OBVIOUS
  <2> QED
    BY <2>1, <2>2, Zenon DEF ToAttach, ToSet
<1>6. \A s \in ToSet : Tail(s) \in {<<>>, <<"attach">>}
  <2>1. Tail(<<"set">>) = <<>>
    OBVIOUS
  <2>2. Tail(<<"set", "attach">>) = <<"attach">>
    OBVIOUS
  <2> QED
    BY <2>1, <2>2, Zenon DEF ToSet
<1> QED
  BY <1>1, <1>2, <1>3, <1>4, <1>5, <1>6

LEMMA TwStep == TwInv /\ [TwNext]_twvars => TwInv'
<1> SUFFICES ASSUME TwInv, [TwNext]_twvars PROVE TwInv'
  OBVIOUS
<1> DEFINE Stays ==
        /\ now' \in Nat /\ attached' \in BOOLEAN /\ due' \in Nat \cup {Nothing} /\ count' \in Nat
        /\ timer2' \in [tier : BOOLEAN, tisr : BOOLEAN, on : BOOLEAN, left : Nat \ {0}]
<1>0. /\ now \in Nat /\ attached \in BOOLEAN /\ due \in Nat \cup {Nothing} /\ count \in Nat
      /\ timer2 \in [tier : BOOLEAN, tisr : BOOLEAN, on : BOOLEAN, left : Nat \ {0}]
      /\ Wrap \in Nat \ {0} /\ Counts \subseteq Nat
  BY TimerHwAssumption DEF TwInv
<1>1. CASE UNCHANGED twvars
  BY <1>1 DEF twvars, TwInv, Running2, Loaded
<1>2. CASE Clear
  <2>1. \/ cpu \in ToClear
        \/ cpu = <<"clear", "user", "attach">> /\ due = Nothing /\ ~timer2.tier
    BY <1>2 DEF TwInv, Clear, Doing, ToSet, ToAttach, ToStart, ToEnable, ToLoad, ToClear, IrqOn, IrqOff
  <2>2. cpu' = Tail(cpu) /\ Stays /\ due' = due /\ attached' = attached /\ timer2'.tier = timer2.tier
    BY <1>0, <1>2 DEF Clear, Doing, Register
  <2>3. CASE cpu \in ToClear
    BY <2>2, <2>3, NextPlaces DEF TwInv
  <2>4. CASE cpu = <<"clear", "user", "attach">> /\ due = Nothing /\ ~timer2.tier
    <3>1. cpu' \in IrqOff
      BY <2>2, <2>4 DEF IrqOff
    <3> QED
      BY <2>2, <2>4, <3>1 DEF TwInv
  <2> QED
    BY <2>1, <2>3, <2>4
<1>3. CASE Load
  <2>1. cpu \in ToLoad
    BY <1>3 DEF TwInv, Load, Doing, ToSet, ToAttach, ToStart, ToEnable, ToLoad, ToClear, IrqOn, IrqOff
  <2>2. cpu' \in ToEnable
    BY <1>3, <2>1, NextPlaces DEF Load, Doing
  <2>3. Stays /\ Loaded'
    BY <1>0, <1>3 DEF Load, Doing, Register, Loaded
  <2> QED
    BY <2>2, <2>3 DEF TwInv
<1>4. CASE Enable
  <2>1. cpu \in ToEnable /\ Loaded
    BY <1>4 DEF TwInv, Enable, Doing, ToSet, ToAttach, ToStart, ToEnable, ToLoad, ToClear, IrqOn, IrqOff
  <2>2. cpu' \in ToStart
    BY <1>4, <2>1, NextPlaces DEF Enable, Doing
  <2>3. Stays /\ Loaded' /\ timer2'.tier
    BY <1>0, <1>4, <2>1 DEF Enable, Doing, Register, Loaded
  <2> QED
    BY <2>2, <2>3 DEF TwInv
<1>5. CASE Start
  <2>1. cpu \in ToStart /\ Loaded /\ timer2.tier
    BY <1>5 DEF TwInv, Start, Doing, ToSet, ToAttach, ToStart, ToEnable, ToLoad, ToClear, IrqOn, IrqOff
  <2>2. cpu' \in ToAttach
    BY <1>5, <2>1, NextPlaces DEF Start, Doing
  <2>3. Stays /\ Loaded' /\ timer2'.tier /\ timer2'.on
    BY <1>0, <1>5, <2>1 DEF Start, Doing, Register, Loaded
  <2> QED
    BY <2>2, <2>3 DEF TwInv
<1>6. CASE Disable
  <2>1. cpu = <<"disable", "clear", "user", "attach">> /\ due = Nothing
    BY <1>6 DEF TwInv, Disable, Doing, ToSet, ToAttach, ToStart, ToEnable, ToLoad, ToClear, IrqOn, IrqOff
  <2>2. cpu' \in IrqOff
    BY <1>6, <2>1 DEF Disable, Doing, IrqOff
  <2>3. Stays /\ due' = Nothing /\ ~timer2'.tier
    BY <1>0, <1>6, <2>1 DEF Disable, Doing, Register
  <2> QED
    BY <2>2, <2>3 DEF TwInv, Nothing
<1>7. CASE enable_l4_irq
  <2>1. \/ cpu = <<"attach">> /\ Running2
        \/ cpu \in ToAttach /\ Loaded /\ timer2.tier /\ timer2.on
    BY <1>7 DEF TwInv, enable_l4_irq, Doing, ToSet, ToAttach, ToStart, ToEnable, ToLoad, ToClear, IrqOn, IrqOff
  <2>2. /\ Stays /\ attached' = TRUE /\ cpu' = Tail(cpu) /\ Running2' = Running2 /\ Loaded' = Loaded
        /\ timer2' = timer2
    BY <1>0, <1>7 DEF enable_l4_irq, Doing, Running2, Loaded
  <2>3. CASE cpu = <<"attach">> /\ Running2
    <3>1. cpu' = <<>>
      BY <2>2, <2>3
    <3> QED
      BY <2>2, <2>3, <3>1 DEF TwInv
  <2>4. CASE cpu \in ToAttach /\ Loaded /\ timer2.tier /\ timer2.on
    <3>1. cpu' \in ToSet
      BY <2>2, <2>4, NextPlaces
    <3> QED
      BY <2>2, <2>4, <3>1 DEF TwInv
  <2> QED
    BY <2>1, <2>3, <2>4
<1>8. CASE disable_l4_irq
  <2>1. cpu = <<"detach", "disable", "clear", "user", "attach">> /\ due = Nothing
    BY <1>8 DEF TwInv, disable_l4_irq, Doing, ToSet, ToAttach, ToStart, ToEnable, ToLoad, ToClear, IrqOn, IrqOff
  <2>2. cpu' \in IrqOn
    BY <1>8, <2>1 DEF disable_l4_irq, Doing, IrqOn
  <2>3. Stays /\ due' = Nothing
    BY <1>0, <1>8, <2>1 DEF disable_l4_irq, Doing
  <2> QED
    BY <2>2, <2>3 DEF TwInv
<1>9. CASE IsSet
  <2>1. cpu \in ToSet /\ Loaded /\ timer2.tier /\ timer2.on /\ attached
    BY <1>9 DEF TwInv, IsSet, Doing, ToSet, ToAttach, ToStart, ToEnable, ToLoad, ToClear, IrqOn, IrqOff
  <2>2. cpu' \in {<<>>, <<"attach">>}
    BY <1>9, <2>1, NextPlaces DEF IsSet, Doing
  <2>3. Stays /\ attached' /\ Running2'
    BY <1>0, <1>9, <2>1 DEF IsSet, Doing, Running2, Loaded, Nothing
  <2> QED
    BY <2>2, <2>3 DEF TwInv
<1>10. CASE do_irq
  <2>1. cpu' \in IrqOn
    BY <1>10, IrqSteps DEF do_irq, IrqOn
  <2>2. Stays /\ due' = Nothing
    BY <1>0, <1>10 DEF do_irq
  <2> QED
    BY <2>1, <2>2 DEF TwInv
<1>11. CASE UserHandler
  <2>1. cpu = <<"user", "attach">> /\ due = Nothing /\ ~timer2.tier
    BY <1>11 DEF TwInv, UserHandler, ToSet, ToAttach, ToStart, ToEnable, ToLoad, ToClear, IrqOn, IrqOff
  <2>2. Tail(cpu) = <<"attach">>
    BY <2>1
  <2>3. set_hwtimer \o Tail(cpu) \in ToClear
    BY <2>2, SetSteps DEF ToClear
  <2>4. Stays /\ timer2' = timer2 /\ due' = due
    BY <1>0, <1>11 DEF UserHandler
  <2>5. cpu' = <<"attach">> \/ cpu' \in ToClear
    BY <1>11, <2>2, <2>3 DEF UserHandler
  <2> QED
    BY <2>1, <2>4, <2>5 DEF TwInv, Running2
<1>12. CASE Counting2
  <2>1. now' = now + 1 /\ UNCHANGED <<attached, cpu, count, due>>
    BY <1>12 DEF Counting2
  <2>2. /\ timer2' \in [tier : BOOLEAN, tisr : BOOLEAN, on : BOOLEAN, left : Nat \ {0}]
        /\ timer2'.tier = timer2.tier /\ timer2'.on = timer2.on
        /\ timer2'.tisr \/ timer2'.left = (IF timer2.on THEN timer2.left - 1 ELSE timer2.left)
        /\ timer2.tisr => timer2'.tisr
    <3>1. CASE ~timer2.on
      BY <1>0, <1>12, <3>1 DEF Counting2
    <3>2. CASE timer2.on /\ timer2.left > 1
      <4>1. timer2' = [timer2 EXCEPT !.left = timer2.left - 1]
        BY <1>12, <3>2 DEF Counting2
      <4>2. timer2.left - 1 \in Nat \ {0}
        BY <1>0, <3>2
      <4>3. timer2' \in [tier : BOOLEAN, tisr : BOOLEAN, on : BOOLEAN, left : Nat \ {0}]
        BY <1>0, <4>1, <4>2
      <4>4. timer2'.tier = timer2.tier /\ timer2'.on = timer2.on /\ timer2'.tisr = timer2.tisr
        BY <1>0, <4>1
      <4>5. timer2'.left = timer2.left - 1
        BY <1>0, <4>1
      <4> QED
        BY <3>2, <4>3, <4>4, <4>5
    <3>3. CASE timer2.on /\ ~(timer2.left > 1)
      <4>1. timer2' = [timer2 EXCEPT !.left = Wrap, !.tisr = TRUE]
        BY <1>12, <3>3 DEF Counting2
      <4> QED
        BY <1>0, <3>3, <4>1
    <3> QED
      BY <3>1, <3>2, <3>3
  <2>3. Stays
    BY <1>0, <2>1, <2>2
  <2>4. Running2 => Running2'
    BY <1>0, <2>1, <2>2 DEF Running2, Nothing
  <2>5. Loaded => Loaded'
    BY <1>0, <2>1, <2>2 DEF Loaded
  <2> QED
    BY <2>1, <2>2, <2>3, <2>4, <2>5 DEF TwInv
<1>13. ASSUME NEW n \in Counts, SetCalled(n) PROVE TwInv'
  <2>1. cpu' \in ToClear
    BY <1>13 DEF SetCalled, set_hwtimer, ToClear
  <2>2. Stays
    BY <1>0, <1>13 DEF SetCalled
  <2> QED
    BY <2>1, <2>2 DEF TwInv
<1> QED
  BY <1>1, <1>2, <1>3, <1>4, <1>5, <1>6, <1>7, <1>8, <1>9, <1>10, <1>11, <1>12, <1>13 DEF TwNext

(* An interval given to set_hwtimer is answered in time, and only once,    *)
(* for every length of the counter and however it runs on between the      *)
(* accesses to its registers.                                              *)
THEOREM TimerServedHolds == TwSpec => []TimerServed
<1>1. now = 0 /\ init_hwtimer => TwInv
  BY TimerHwAssumption DEF init_hwtimer, TwInv, Running2, Nothing
<1>2. TwInv => TimerServed
  BY DEF TwInv, TimerServed, Running2, ToSet, ToAttach, ToStart, ToEnable, ToLoad, ToClear, IrqOn, IrqOff
<1> QED
  BY <1>1, <1>2, TwStep, PTL DEF TwSpec

-----------------------------------------------------------------------------
(* The clock.  Whole rounds of the counter, in ticks:                      *)
LEMMA RoundsOrdered ==
    ASSUME NEW a \in Int, NEW b \in Int, NEW W \in Nat \ {0}, a * W < b * W + W
    PROVE  a <= b
OBVIOUS

LEMMA RoundsAre ==
    ASSUME NEW f \in Nat, NEW n \in Nat, NEW W \in Nat \ {0}, f * W <= n, n < f * W + W
    PROVE  n \div W = f
OBVIOUS

LEMMA RoundsAdd ==
    ASSUME NEW f \in Int, NEW g \in Int, NEW W \in Nat
    PROVE  (f + g) * W = f * W + g * W /\ (f - g) * W = f * W - g * W /\ f * W \in Int /\ 1 * W = W
OBVIOUS

LEMMA CounterNext ==
    ASSUME NEW c \in Nat, NEW W \in Nat \ {0}, c < W
    PROVE  (c + 1) % W = IF c = W - 1 THEN 0 ELSE c + 1
OBVIOUS

(* What time_irq_thread has still to do, before each of its steps.         *)
ThDisable == <<"disable", "clear", "count", "enable">>
ThClear   == <<"clear", "count", "enable">>
ThCount   == <<"count", "enable">>
ThEnable  == <<"enable">>

One(b) == IF b THEN 1 ELSE 0

TcType ==
    /\ total \in Nat /\ hi \in Nat
    /\ timer10 \in [tier : BOOLEAN, tisr : BOOLEAN, tcrr : 0 .. Wrap - 1]
    /\ th \in {<<>>, ThDisable, ThClear, ThCount, ThEnable}
    /\ th \in {ThDisable, ThClear} => timer10.tisr
    /\ rd \in [todo : SUBSET {"hi", "lo"}, hi : Nat, lo : 0 .. Wrap - 1, from : Nat, to : Nat, late : Nat]

Whole == total = (hi + Uncounted) * Wrap + timer10.tcrr

(* The read of the clock, begun in round f: what has been read of it, and  *)
(* what it will read.                                                      *)
ReadInRound(f) ==
    /\ f * Wrap <= rd.from /\ rd.from < f * Wrap + Wrap
    /\ rd.todo # {} => rd.from <= total /\ total < rd.from + Wrap /\ hi + rd.late >= f
    /\ rd.todo # {"hi", "lo"} =>
           rd.from <= rd.to /\ rd.to < rd.from + Wrap /\ (rd.todo # {} => rd.to <= total)
    /\ "hi" \notin rd.todo => rd.hi + rd.late >= f /\ rd.hi * Wrap <= rd.to
    /\ "lo" \notin rd.todo => \E g \in Nat : rd.from <= g * Wrap + rd.lo /\ g * Wrap + rd.lo <= rd.to

TcInv == TcType /\ Whole /\ \E f \in Nat : ReadInRound(f)

LEMMA CountWaits ==
    ASSUME NEW s \in {<<>>, ThDisable, ThClear, ThCount, ThEnable}
    PROVE  (\E i \in DOMAIN s : s[i] = "count" /\ ~\E j \in 1 .. i : s[j] = "clear") <=> s = ThCount
<1> DEFINE Waits == \E i \in DOMAIN s : s[i] = "count" /\ ~\E j \in 1 .. i : s[j] = "clear"
<1>2. CASE s = <<>>
  BY <1>2 DEF ThCount
<1>3. CASE s = ThDisable
  <2>1. ~Waits
    <3> SUFFICES ASSUME NEW i \in DOMAIN s, s[i] = "count" PROVE \E j \in 1 .. i : s[j] = "clear"
      OBVIOUS
    <3>1. i = 3 /\ s[2] = "clear" /\ 2 \in 1 .. i
      BY <1>3 DEF ThDisable
    <3> QED
      BY <3>1
  <2>2. s # ThCount
    BY <1>3 DEF ThDisable, ThCount
  <2> QED
    BY <2>1, <2>2
<1>4. CASE s = ThClear
  <2>1. ~Waits
    <3> SUFFICES ASSUME NEW i \in DOMAIN s, s[i] = "count" PROVE \E j \in 1 .. i : s[j] = "clear"
      OBVIOUS
    <3>1. i = 2 /\ s[1] = "clear" /\ 1 \in 1 .. i
      BY <1>4 DEF ThClear
    <3> QED
      BY <3>1
  <2>2. s # ThCount
    BY <1>4 DEF ThClear, ThCount
  <2> QED
    BY <2>1, <2>2
<1>5. CASE s = ThCount
  <2>1. 1 \in DOMAIN s /\ s[1] = "count" /\ \A j \in 1 .. 1 : s[j] # "clear"
    BY <1>5 DEF ThCount
  <2>2. Waits
    BY <2>1
  <2> QED
    BY <1>5, <2>2
<1>6. CASE s = ThEnable
  <2>1. ~Waits
    BY <1>6 DEF ThEnable
  <2>2. s # ThCount
    BY <1>6 DEF ThEnable, ThCount
  <2> QED
    BY <2>1, <2>2
<1> QED
  BY <1>2, <1>3, <1>4, <1>5, <1>6

(* What the counter and time_irq_thread do to the clock; both leave the    *)
(* read alone.                                                             *)
LEMMA ClockStep ==
    ASSUME TcType, Whole, Counting10 \/ irq_wait \/ TimeStep
    PROVE  TcType' /\ Whole' /\ hi' >= hi /\ total' >= total /\ rd' = rd
           /\ (rd.todo # {} /\ total' # total => total' < rd.from + Wrap)
<1>0. /\ Wrap \in Nat \ {0} /\ total \in Nat /\ hi \in Nat
      /\ timer10 \in [tier : BOOLEAN, tisr : BOOLEAN, tcrr : 0 .. Wrap - 1]
      /\ th \in {<<>>, ThDisable, ThClear, ThCount, ThEnable}
      /\ th \in {ThDisable, ThClear} => timer10.tisr
  BY TimerHwAssumption DEF TcType
<1>1. Uncounted = One(timer10.tisr) + One(th = ThCount) /\ Uncounted \in Nat
  BY <1>0, CountWaits DEF Uncounted, One
<1>2. th' \in {<<>>, ThDisable, ThClear, ThCount, ThEnable} =>
          Uncounted' = One(timer10'.tisr) + One(th' = ThCount)
  BY CountWaits DEF Uncounted, One
<1>3. CASE Counting10
  <2> DEFINE full == timer10.tcrr = Wrap - 1
  <2>1. /\ total' = total + 1 /\ (full => ~timer10.tisr) /\ UNCHANGED <<hi, th, rd>>
        /\ timer10' = [timer10 EXCEPT !.tcrr = (timer10.tcrr + 1) % Wrap, !.tisr = timer10.tisr \/ full]
        /\ (rd.todo # {} => total + 1 < rd.from + Wrap)
    BY <1>3 DEF Counting10
  <2>2. (timer10.tcrr + 1) % Wrap = IF full THEN 0 ELSE timer10.tcrr + 1
    BY <1>0, CounterNext
  <2>3. /\ timer10'.tcrr = (IF full THEN 0 ELSE timer10.tcrr + 1)
        /\ timer10'.tisr = (timer10.tisr \/ full)
        /\ timer10' \in [tier : BOOLEAN, tisr : BOOLEAN, tcrr : 0 .. Wrap - 1]
    <3>1. (timer10.tcrr + 1) % Wrap \in 0 .. Wrap - 1
      BY <1>0, <2>2
    <3>2. (timer10.tisr \/ full) \in BOOLEAN
      BY <1>0
    <3> HIDE DEF full
    <3> QED
      BY <1>0, <2>1, <2>2, <3>1, <3>2
  <2>4. Uncounted' = Uncounted + One(full)
    <3>1. Uncounted' = One(timer10'.tisr) + One(th = ThCount)
      BY <1>0, <1>2, <2>1
    <3>2. One(timer10'.tisr) = One(timer10.tisr) + One(full)
      <4>1. CASE full
        <5>1. ~timer10.tisr /\ timer10'.tisr
          BY <2>1, <2>3, <4>1, Zenon
        <5> QED
          BY <4>1, <5>1 DEF One
      <4>2. CASE ~full
        BY <1>0, <2>3, <4>2 DEF One
      <4> QED
        BY <4>1, <4>2
    <3> QED
      BY <1>1, <3>1, <3>2 DEF One
  <2>5. Whole'
    <3>1. CASE full
      <4>1. Uncounted' = Uncounted + 1 /\ timer10'.tcrr = 0 /\ timer10.tcrr = Wrap - 1
        BY <2>3, <2>4, <3>1 DEF One
      <4>2. (hi + Uncounted + 1) * Wrap = (hi + Uncounted) * Wrap + Wrap /\ (hi + Uncounted) * Wrap \in Int
        BY <1>0, <1>1, RoundsAdd
      <4>3. hi' + Uncounted' = hi + Uncounted + 1
        BY <1>0, <1>1, <2>1, <4>1
      <4> QED
        BY <1>0, <2>1, <4>1, <4>2, <4>3 DEF Whole
    <3>2. CASE ~full
      <4>1. Uncounted' = Uncounted /\ timer10'.tcrr = timer10.tcrr + 1 /\ hi' = hi
        BY <1>1, <2>1, <2>3, <2>4, <3>2 DEF One
      <4>2. (hi + Uncounted) * Wrap \in Int
        BY <1>0, <1>1, RoundsAdd
      <4> QED
        BY <1>0, <2>1, <4>1, <4>2 DEF Whole
    <3> QED
      BY <3>1, <3>2
  <2>6. timer10.tisr => timer10'.tisr
    BY <1>0, <2>3
  <2>7. TcType'
    BY <1>0, <2>1, <2>3, <2>6 DEF TcType
  <2> QED
    BY <1>0, <2>1, <2>5, <2>7
<1>4. CASE irq_wait
  <2>1. th = <<>> /\ th' = ThDisable /\ timer10.tisr /\ UNCHANGED <<total, timer10, hi, rd>>
    BY <1>4 DEF irq_wait, l4_timer_irq_handler, ThDisable
  <2>2. th # ThCount /\ th' # ThCount
    BY <2>1 DEF ThDisable, ThCount
  <2>3. Uncounted' = Uncounted
    BY <1>1, <1>2, <2>1, <2>2 DEF One
  <2> QED
    BY <1>0, <2>1, <2>3 DEF TcType, Whole
<1>5. CASE TimeStep
  <2>0. UNCHANGED <<total, rd>> /\ th # <<>> /\ th' = Tail(th)
    BY <1>5 DEF TimeStep
  <2>1. CASE th = ThDisable
    <3>1. th' = ThClear /\ hi' = hi /\ timer10' = [timer10 EXCEPT !.tier = FALSE]
      BY <1>5, <2>1 DEF TimeStep, ThDisable, ThClear
    <3>2. /\ timer10' \in [tier : BOOLEAN, tisr : BOOLEAN, tcrr : 0 .. Wrap - 1]
          /\ timer10'.tisr = timer10.tisr /\ timer10'.tcrr = timer10.tcrr
      BY <1>0, <3>1
    <3>3. th # ThCount /\ th' # ThCount
      BY <2>1, <3>1 DEF ThDisable, ThClear, ThCount
    <3>4. Uncounted' = Uncounted
      BY <1>1, <1>2, <3>1, <3>2, <3>3 DEF One
    <3> QED
      BY <1>0, <2>0, <2>1, <3>1, <3>2, <3>4 DEF TcType, Whole
  <2>2. CASE th = ThClear
    <3>1. th' = ThCount /\ hi' = hi /\ timer10' = [timer10 EXCEPT !.tisr = FALSE]
      BY <1>5, <2>2 DEF TimeStep, ThClear, ThCount
    <3>2. /\ timer10' \in [tier : BOOLEAN, tisr : BOOLEAN, tcrr : 0 .. Wrap - 1]
          /\ timer10'.tisr = FALSE /\ timer10'.tcrr = timer10.tcrr
      BY <1>0, <3>1
    <3>3. th # ThCount /\ ThCount \notin {ThDisable, ThClear}
      BY <2>2 DEF ThDisable, ThClear, ThCount
    <3>4. Uncounted' = Uncounted
      BY <1>0, <1>1, <1>2, <2>2, <3>1, <3>2, <3>3 DEF One
    <3>5. TcType'
      BY <1>0, <2>0, <3>1, <3>2, <3>3 DEF TcType
    <3> QED
      BY <1>0, <2>0, <3>1, <3>2, <3>4, <3>5 DEF Whole
  <2>3. CASE th = ThCount
    <3>1. th' = ThEnable /\ hi' = hi + 1 /\ timer10' = timer10
      BY <1>5, <2>3 DEF TimeStep, ThEnable, ThCount
    <3>2. ThEnable \notin {ThDisable, ThClear, ThCount}
      BY DEF ThDisable, ThClear, ThCount, ThEnable
    <3>3. Uncounted' = Uncounted - 1
      BY <1>0, <1>1, <1>2, <2>3, <3>1, <3>2 DEF One
    <3>4. hi' + Uncounted' = hi + Uncounted
      BY <1>0, <1>1, <3>1, <3>3
    <3>5. Whole'
      BY <2>0, <3>1, <3>4 DEF Whole
    <3>6. TcType'
      <4>1. hi' \in Nat /\ total' \in Nat
        BY <1>0, <2>0, <3>1
      <4>2. th' \in {<<>>, ThDisable, ThClear, ThCount, ThEnable} /\ th' \notin {ThDisable, ThClear}
        BY <3>1, <3>2
      <4> QED
        BY <1>0, <2>0, <3>1, <4>1, <4>2 DEF TcType
    <3> QED
      BY <1>0, <2>0, <3>1, <3>5, <3>6
  <2>4. CASE th = ThEnable
    <3>1. th' = <<>> /\ hi' = hi /\ timer10' = [timer10 EXCEPT !.tier = TRUE]
      BY <1>5, <2>4 DEF TimeStep, ThEnable
    <3>2. /\ timer10' \in [tier : BOOLEAN, tisr : BOOLEAN, tcrr : 0 .. Wrap - 1]
          /\ timer10'.tisr = timer10.tisr /\ timer10'.tcrr = timer10.tcrr
      BY <1>0, <3>1
    <3>3. th # ThCount /\ th' \notin {ThDisable, ThClear, ThCount}
      BY <2>4, <3>1 DEF ThDisable, ThClear, ThCount, ThEnable
    <3>4. Uncounted' = Uncounted
      BY <1>1, <1>2, <3>1, <3>2, <3>3 DEF One
    <3> QED
      BY <1>0, <2>0, <3>1, <3>2, <3>3, <3>4 DEF TcType, Whole
  <2> QED
    BY <1>0, <2>0, <2>1, <2>2, <2>3, <2>4
<1> QED
  BY <1>3, <1>4, <1>5

(* A read goes on in the round that it began in.                           *)
LEMMA ReadStep ==
    ASSUME TcType, Whole, NEW f \in Nat, ReadInRound(f), TcNext
    PROVE  TcType' /\ Whole' /\ \E e \in Nat : ReadInRound(e)'
<1>0. /\ Wrap \in Nat \ {0} /\ total \in Nat /\ hi \in Nat /\ timer10.tcrr \in 0 .. Wrap - 1
      /\ rd \in [todo : SUBSET {"hi", "lo"}, hi : Nat, lo : 0 .. Wrap - 1, from : Nat, to : Nat, late : Nat]
      /\ f * Wrap \in Int
  BY TimerHwAssumption DEF TcType
<1>1. Uncounted \in Nat
  BY DEF Uncounted
<1>2. PICK q \in Nat : q = hi + Uncounted
  BY <1>0, <1>1
<1>3. total = q * Wrap + timer10.tcrr /\ q * Wrap \in Int /\ hi * Wrap \in Int /\ hi * Wrap <= q * Wrap
  <2>1. total = q * Wrap + timer10.tcrr
    BY <1>2 DEF Whole
  <2>2. q * Wrap = hi * Wrap + Uncounted * Wrap /\ hi * Wrap \in Int /\ Uncounted * Wrap \in Int
    BY <1>0, <1>1, <1>2, RoundsAdd
  <2>3. Uncounted * Wrap >= 0
    BY <1>0, <1>1
  <2> QED
    BY <2>1, <2>2, <2>3
<1>4. /\ f * Wrap <= rd.from /\ rd.from < f * Wrap + Wrap
      /\ rd.todo # {} => rd.from <= total /\ total < rd.from + Wrap /\ hi + rd.late >= f
      /\ rd.todo # {"hi", "lo"} =>
             rd.from <= rd.to /\ rd.to < rd.from + Wrap /\ (rd.todo # {} => rd.to <= total)
      /\ "hi" \notin rd.todo => rd.hi + rd.late >= f /\ rd.hi * Wrap <= rd.to
      /\ "lo" \notin rd.todo => \E g \in Nat : rd.from <= g * Wrap + rd.lo /\ g * Wrap + rd.lo <= rd.to
  BY DEF ReadInRound
<1>5. CASE Counting10 \/ irq_wait \/ TimeStep
  <2>1. TcType' /\ Whole' /\ hi' >= hi /\ total' >= total /\ rd' = rd
        /\ (rd.todo # {} /\ total' # total => total' < rd.from + Wrap)
    BY <1>5, ClockStep
  <2>2. hi' \in Nat /\ total' \in Nat
    BY <2>1 DEF TcType
  <2>3. ReadInRound(f)'
    BY <1>0, <1>4, <2>1, <2>2 DEF ReadInRound
  <2> QED
    BY <2>1, <2>3
<1>6. CASE ReadBegins
  <2>1. /\ UNCHANGED <<total, timer10, hi, th>>
        /\ rd' = [todo |-> {"hi", "lo"}, hi |-> 0, lo |-> 0, from |-> total, to |-> 0, late |-> Uncounted]
    BY <1>6 DEF ReadBegins, NoRead
  <2>2. TcType' /\ Whole'
    BY <1>0, <1>1, <2>1 DEF TcType, Whole, Uncounted
  <2>3. ReadInRound(q)'
    BY <1>0, <1>1, <1>2, <1>3, <2>1 DEF ReadInRound
  <2> QED
    BY <2>2, <2>3
<1>7. CASE ReadHi
  <2>1. /\ UNCHANGED <<total, timer10, hi, th>> /\ "hi" \in rd.todo
        /\ rd' = [rd EXCEPT !.todo = rd.todo \ {"hi"}, !.hi = hi, !.to = total]
    BY <1>7 DEF ReadHi
  <2>2. /\ rd'.todo = rd.todo \ {"hi"} /\ rd'.hi = hi /\ rd'.to = total
        /\ rd'.lo = rd.lo /\ rd'.from = rd.from /\ rd'.late = rd.late
    BY <1>0, <2>1
  <2>3. rd' \in [todo : SUBSET {"hi", "lo"}, hi : Nat, lo : 0 .. Wrap - 1, from : Nat, to : Nat, late : Nat]
    BY <1>0, <2>1
  <2>4. TcType' /\ Whole'
    BY <2>1, <2>3 DEF TcType, Whole, Uncounted
  <2>5. "lo" \notin rd.todo => \E g \in Nat : rd.from <= g * Wrap + rd.lo /\ g * Wrap + rd.lo <= total
    <3> SUFFICES ASSUME "lo" \notin rd.todo
                 PROVE  \E g \in Nat : rd.from <= g * Wrap + rd.lo /\ g * Wrap + rd.lo <= total
      OBVIOUS
    <3>1. PICK g \in Nat : rd.from <= g * Wrap + rd.lo /\ g * Wrap + rd.lo <= rd.to
      BY <1>4
    <3>2. rd.todo # {"hi", "lo"} /\ rd.todo # {}
      BY <2>1
    <3>3. rd.to <= total /\ g * Wrap + rd.lo \in Int /\ rd.to \in Int
      BY <1>0, <1>4, <3>2
    <3>4. g * Wrap + rd.lo <= total
      <4> DEFINE x == g * Wrap + rd.lo
      <4>1. x \in Int /\ x <= rd.to /\ rd.to \in Int /\ rd.to <= total /\ total \in Int
        BY <1>0, <3>1, <3>3
      <4> HIDE DEF x
      <4>2. x <= total
        BY <4>1
      <4> QED
        BY <4>2 DEF x
    <3> QED
      BY <3>1, <3>4
  <2>6. ReadInRound(f)'
    <3>1. hi * Wrap <= total
      BY <1>0, <1>3
    <3>2. rd.todo # {}
      BY <2>1
    <3>3. "lo" \notin rd'.todo => "lo" \notin rd.todo
      BY <2>2
    <3> QED
      BY <1>0, <1>4, <2>1, <2>2, <2>5, <3>1, <3>2, <3>3 DEF ReadInRound
  <2> QED
    BY <2>4, <2>6
<1>8. CASE ReadLo
  <2>1. /\ UNCHANGED <<total, timer10, hi, th>> /\ "lo" \in rd.todo
        /\ rd' = [rd EXCEPT !.todo = rd.todo \ {"lo"}, !.lo = timer10.tcrr, !.to = total]
    BY <1>8 DEF ReadLo
  <2>2. /\ rd'.todo = rd.todo \ {"lo"} /\ rd'.lo = timer10.tcrr /\ rd'.to = total
        /\ rd'.hi = rd.hi /\ rd'.from = rd.from /\ rd'.late = rd.late
    BY <1>0, <2>1
  <2>3. rd' \in [todo : SUBSET {"hi", "lo"}, hi : Nat, lo : 0 .. Wrap - 1, from : Nat, to : Nat, late : Nat]
    BY <1>0, <2>1
  <2>4. TcType' /\ Whole'
    BY <2>1, <2>3 DEF TcType, Whole, Uncounted
  <2>5. \E g \in Nat : rd'.from <= g * Wrap + rd'.lo /\ g * Wrap + rd'.lo <= rd'.to
    BY <1>0, <1>3, <1>4, <2>1, <2>2
  <2>6. "hi" \notin rd.todo => rd.hi + rd.late >= f /\ rd.hi * Wrap <= total
    <3>1. "hi" \notin rd.todo => rd.todo # {"hi", "lo"} /\ rd.todo # {}
      BY <2>1
    <3>2. rd.hi * Wrap \in Int
      BY <1>0
    <3> QED
      BY <1>0, <1>4, <3>1, <3>2
  <2>7. ReadInRound(f)'
    <3>1. rd.todo # {}
      BY <2>1
    <3> QED
      BY <1>0, <1>4, <2>1, <2>2, <2>5, <2>6, <3>1 DEF ReadInRound
  <2> QED
    BY <2>4, <2>7
<1> QED
  BY <1>5, <1>6, <1>7, <1>8 DEF TcNext

(* What a complete read tells.                                             *)
LEMMA ReadTells ==
    ASSUME TcType, NEW f \in Nat, ReadInRound(f), rd.todo = {}
    PROVE  /\ \E t \in rd.from .. rd.to, off \in -1 .. rd.late + 1 : ClockRead = t - off * Wrap
           /\ rd.from \div Wrap = rd.to \div Wrap /\ rd.late = 0 => ClockRead \in rd.from .. rd.to
<1>0. /\ Wrap \in Nat \ {0} /\ rd.hi \in Nat /\ rd.lo \in 0 .. Wrap - 1 /\ rd.from \in Nat /\ rd.to \in Nat
      /\ rd.late \in Nat /\ f * Wrap \in Int /\ rd.hi * Wrap \in Int
  BY TimerHwAssumption DEF TcType
<1>1. /\ f * Wrap <= rd.from /\ rd.from < f * Wrap + Wrap /\ rd.from <= rd.to /\ rd.to < rd.from + Wrap
      /\ rd.hi + rd.late >= f /\ rd.hi * Wrap <= rd.to
  BY DEF ReadInRound
<1>2. PICK g \in Nat : rd.from <= g * Wrap + rd.lo /\ g * Wrap + rd.lo <= rd.to
  BY DEF ReadInRound
<1>3. /\ g * Wrap \in Int /\ (f + 1) * Wrap = f * Wrap + Wrap /\ (f + 1) * Wrap \in Int
      /\ (g - rd.hi) * Wrap = g * Wrap - rd.hi * Wrap
  <2>1. PICK W \in Nat, h \in Nat : W = Wrap /\ h = rd.hi
    BY <1>0
  <2>2. (f + 1) * W = f * W + 1 * W /\ 1 * W = W /\ f * W \in Int
    BY RoundsAdd
  <2>3. (g - h) * W = g * W - h * W /\ g * W \in Int
    BY RoundsAdd
  <2> QED
    BY <1>0, <2>1, <2>2, <2>3
<1>4. f <= g /\ g <= f + 1 /\ rd.hi <= f + 1
  <2>1. f * Wrap < g * Wrap + Wrap
    BY <1>0, <1>1, <1>2, <1>3
  <2>2. g * Wrap < (f + 1) * Wrap + Wrap /\ rd.hi * Wrap < (f + 1) * Wrap + Wrap
    BY <1>0, <1>1, <1>2, <1>3
  <2>3. f <= g
    BY <1>0, <2>1, RoundsOrdered
  <2>4. g <= f + 1 /\ rd.hi <= f + 1
    BY <1>0, <2>2, RoundsOrdered
  <2> QED
    BY <2>3, <2>4
<1>5. ClockRead = (g * Wrap + rd.lo) - (g - rd.hi) * Wrap
  BY <1>0, <1>3 DEF ClockRead
<1>6. g * Wrap + rd.lo \in rd.from .. rd.to /\ g - rd.hi \in -1 .. rd.late + 1
  BY <1>0, <1>1, <1>2, <1>3, <1>4
<1>7. ASSUME rd.from \div Wrap = rd.to \div Wrap, rd.late = 0 PROVE ClockRead \in rd.from .. rd.to
  <2>1. rd.from \div Wrap = f
    BY <1>0, <1>1, RoundsAre
  <2>2. rd.to < f * Wrap + Wrap
    <3> SUFFICES ASSUME rd.to >= f * Wrap + Wrap PROVE FALSE
      BY <1>0
    <3>1. (f + 1) * Wrap <= rd.to /\ rd.to < (f + 1) * Wrap + Wrap
      BY <1>0, <1>1, <1>3
    <3>2. f + 1 \in Nat /\ f # f + 1
      OBVIOUS
    <3>3. rd.to \div Wrap = f + 1
      BY <1>0, <3>1, <3>2, RoundsAre
    <3> QED
      BY <1>7, <2>1, <3>2, <3>3
  <2>3. g * Wrap < f * Wrap + Wrap /\ rd.hi * Wrap < f * Wrap + Wrap
    BY <1>0, <1>1, <1>2, <1>3, <2>2
  <2>4. g <= f /\ rd.hi <= f
    BY <1>0, <2>3, RoundsOrdered
  <2>5. g = rd.hi
    <3>1. rd.hi >= f
      BY <1>0, <1>1, <1>7
    <3> QED
      BY <1>0, <1>4, <2>4, <3>1
  <2> QED
    BY <1>6, <2>5 DEF ClockRead
<1> QED
  BY <1>5, <1>6, <1>7

(* No overflow of the counter is lost, and a read of the clock differs     *)
(* from a time at which it was read by whole rounds only, by none if no    *)
(* overflow was waiting or came: for every width of the counter and every  *)
(* interleaving of the counter, time_irq_thread and the reader, as long as *)
(* time_irq_thread and the reader are not overtaken by a whole round.      *)
THEOREM ClockNearHolds == TcSpec => []ClockNear
<1>1. TcInit => TcInv
  <2> SUFFICES ASSUME TcInit PROVE TcInv
    OBVIOUS
  <2>1. /\ total = 0 /\ timer10 = [tier |-> TRUE, tisr |-> FALSE, tcrr |-> 0] /\ hi = 0 /\ th = <<>>
        /\ rd = [todo |-> {}, hi |-> 0, lo |-> 0, from |-> 0, to |-> 0, late |-> 0]
        /\ Wrap \in Nat \ {0}
    BY TimerHwAssumption DEF TcInit, timer10_started, NoRead
  <2>2. TcType
    BY <2>1 DEF TcType, ThDisable, ThClear
  <2>3. Uncounted = 0
    BY <2>1 DEF Uncounted
  <2>4. Whole
    BY <2>1, <2>3 DEF Whole
  <2>5. 0 * Wrap = 0
    BY <2>1
  <2>6. ReadInRound(0)
    BY <2>1, <2>5 DEF ReadInRound
  <2> QED
    BY <2>2, <2>4, <2>6 DEF TcInv
<1>2. TcInv /\ [TcNext]_tcvars => TcInv'
  <2> SUFFICES ASSUME TcInv, [TcNext]_tcvars PROVE TcInv'
    OBVIOUS
  <2>1. PICK f \in Nat : ReadInRound(f)
    BY DEF TcInv
  <2>2. CASE TcNext
    BY <2>1, <2>2, ReadStep DEF TcInv
  <2>3. CASE UNCHANGED tcvars
    BY <2>1, <2>3 DEF tcvars, TcInv, TcType, Whole, Uncounted, ReadInRound
  <2> QED
    BY <2>2, <2>3
<1>3. TcInv => ClockNear
  <2> SUFFICES ASSUME TcInv PROVE ClockNear
    OBVIOUS
  <2>1. PICK f \in Nat : ReadInRound(f)
    BY DEF TcInv
  <2> QED
    BY <2>1, ReadTells DEF TcInv, Whole, ClockNear
<1> QED
  BY <1>1, <1>2, <1>3, PTL DEF TcSpec

-----------------------------------------------------------------------------
(* Files.  Every entry of the table is a record.                           *)
Shape(f) ==
    f = [fd \in 0 .. MAX_FILES |-> [type |-> f[fd].type, qid |-> f[fd].qid, pos |-> f[fd].pos]]

(* What holds for every use.                                               *)
FsType ==
    /\ use \in Uses /\ Shape(files) /\ at = [t \in Clients |-> at[t]]
    /\ held = [fd \in DOMAIN held |-> held[fd]] /\ DOMAIN held \subseteq FDs
    /\ delivered \in [FDs -> Seq(Nat)]
    /\ \A fd \in FDs : files[fd].type \in Devs \cup {Nodev} /\ files[fd].pos \in Nat
    /\ \A t \in Clients :
           /\ FAt(t, "fill") => at[t].fd \in FDs /\ at[t].type \in Devs
           /\ FAt(t, "close") => at[t].fd \in FDs
           /\ FAt(t, "read") => at[t].fd \in FDs /\ at[t].n \in Nat

(* With one thread that opens files: an entry to be filled is free, an     *)
(* entry to be freed is nobody's, and only one thread is about to free it. *)
Filling(t) ==
    /\ t \in use.open /\ at[t].fd \notin DOMAIN held /\ files[at[t].fd].type = Nodev
    /\ <<at[t].type, at[t].qid>> = open_sys(at[t].name) /\ at[t].type # "test"
Closing(t) == at[t].fd \notin DOMAIN held /\ files[at[t].fd].type # Nodev

FdInv ==
    /\ \A t \in Clients : /\ FAt(t, "fill") => Filling(t)
                          /\ FAt(t, "close") => Closing(t)
                          /\ FAt(t, "read") => at[t].fd \in DOMAIN held
    /\ \A t, u \in Clients : FAt(t, "close") /\ FAt(u, "close") /\ at[t].fd = at[u].fd => t = u
    /\ \A fd \in DOMAIN held :
           <<files[fd].type, files[fd].qid>> = open_sys(held[fd]) /\ files[fd].type \notin {Nodev, "test"}
    /\ \A fd \in FDs \ DOMAIN held :
           files[fd].type = Nodev \/ \E t \in Clients : FAt(t, "close") /\ at[t].fd = fd

(* g is the table f with entry fd replaced by r.                           *)
IsEntry(r) == r = [type |-> r.type, qid |-> r.qid, pos |-> r.pos]
Replaces(f, g, fd, r) == Shape(g) /\ g[fd] = r /\ \A e \in 0 .. MAX_FILES : e # fd => g[e] = f[e]

LEMMA Put ==
    ASSUME NEW f, Shape(f), NEW fd \in 0 .. MAX_FILES, NEW r, IsEntry(r)
    PROVE  Replaces(f, [f EXCEPT ![fd] = r], fd, r)
<1> DEFINE g == [f EXCEPT ![fd] = r]
<1>1. DOMAIN f = 0 .. MAX_FILES
  BY DEF Shape
<1>2. /\ \A e \in 0 .. MAX_FILES : g[e] = IF e = fd THEN r ELSE f[e]
      /\ g = [e \in 0 .. MAX_FILES |-> g[e]]
  BY <1>1
<1>3. \A e \in 0 .. MAX_FILES : f[e] = [type |-> f[e].type, qid |-> f[e].qid, pos |-> f[e].pos]
  BY DEF Shape
<1>4. \A e \in 0 .. MAX_FILES : g[e] = [type |-> g[e].type, qid |-> g[e].qid, pos |-> g[e].pos]
  BY <1>2, <1>3 DEF IsEntry
<1> HIDE DEF g
<1>5. Shape(g)
  BY <1>2, <1>4 DEF Shape
<1>6. Replaces(f, g, fd, r)
  BY <1>2, <1>5 DEF Replaces
<1> QED
  BY <1>6 DEF g

LEMMA EntryIs ==
    ASSUME NEW a, NEW b, NEW c, NEW r, r = [type |-> a, qid |-> b, pos |-> c]
    PROVE  IsEntry(r) /\ r.type = a /\ r.qid = b /\ r.pos = c
BY DEF IsEntry

LEMMA OpenSound ==
    ASSUME NEW name, open_sys(name)[1] # "none"
    PROVE  /\ open_sys(name) = <<open_sys(name)[1], open_sys(name)[2]>>
           /\ open_sys(name)[1] \in Devs /\ open_sys(name)[1] # Nodev
<1>0. ASSUME NEW o, NEW a, NEW b, o = <<a, b>> PROVE o[1] = a /\ o = <<o[1], o[2]>>
  BY <1>0
<1>1. Devs \subseteq Devices /\ "root" \in Devs /\ Nodev \notin Devices
  BY DevFsAssumption DEF Devices, Nodev
<1>2. CASE Head(name) # "dev" \/ Len(name) = 1
  <2>1. \/ open_sys(name) = <<"none", "">>
        \/ open_sys(name) = <<"root", roottab[rootwalk(name)].name>>
    BY <1>2, Zenon DEF open_sys
  <2>2. open_sys(name)[1] = "root" /\ open_sys(name) = <<open_sys(name)[1], open_sys(name)[2]>>
    BY <1>0, <2>1
  <2> QED
    BY <1>1, <2>2
<1>3. CASE ~(Head(name) # "dev" \/ Len(name) = 1)
  <2> DEFINE d == name[2]
  <2>1. \/ open_sys(name) = <<"none", "">>
        \/ /\ d \in Devs /\ d # "root"
           /\ open_sys(name) \in {<<d, name[3]>>, <<d, "trace">>, <<d, "0">>, <<"none", "">>}
    BY <1>1, <1>3 DEF open_sys, Devices
  <2>2. d \in Devs /\ \E b : open_sys(name) = <<d, b>>
    BY <1>0, <2>1
  <2>3. open_sys(name)[1] = d /\ open_sys(name) = <<open_sys(name)[1], open_sys(name)[2]>>
    BY <1>0, <2>2
  <2> QED
    BY <1>1, <2>2, <2>3
<1> QED
  BY <1>2, <1>3

LEMMA NewFd ==
    ASSUME newfd # MAX_FILES PROVE newfd \in FDs /\ files[newfd].type = Nodev
<1> DEFINE free == {fd \in FDs : files[fd].type = Nodev}
<1>1. free # {} /\ newfd = CHOOSE fd \in free : \A g \in free : fd <= g
  BY DEF newfd
<1>2. free \in SUBSET Nat
  BY DevFsAssumption DEF FDs
<1>3. \E fd \in free : \A g \in free : fd <= g
  BY <1>1, <1>2, LeastNumber
<1>4. newfd \in free
  BY <1>1, <1>3
<1> QED
  BY <1>4

LEMMA Moves ==
    ASSUME at = [t \in Clients |-> at[t]], NEW t \in Clients, NEW p, at' = [at EXCEPT ![t] = p]
    PROVE  at' = [u \in Clients |-> at'[u]] /\ at'[t] = p /\ \A u \in Clients : u # t => at'[u] = at[u]
OBVIOUS

LEMMA Opener ==
    ASSUME use \in Uses, Alone
    PROVE  /\ \A t, u \in use.open : t = u
           /\ \A name \in use.paths : open_sys(name)[1] # "test"
<1>1. IsFiniteSet(use.open)
  BY DevFsAssumption, FS_Subset
<1>2. \E x : use.open = {x}
  BY <1>1, FS_Singleton DEF Alone
<1> QED
  BY <1>2 DEF Alone

(* The reads of an open file: what was delivered is its text from the      *)
(* start, up to the position or to where the one reader is about to move   *)
(* it.                                                                     *)
Upto(n) == [i \in 1 .. n |-> i - 1]
Reads(t, fd) == FAt(t, "read") /\ at[t].fd = fd

ReadInv ==
    /\ \A fd \in DOMAIN held :
           /\ delivered[fd] = Upto(Len(delivered[fd]))
           /\ files[fd].qid \in Texts => Len(delivered[fd]) <= Length[files[fd].qid]
           /\ (\A t \in Clients : ~Reads(t, fd)) => files[fd].pos = Len(delivered[fd])
           /\ \A t \in Clients : Reads(t, fd) => files[fd].pos + at[t].n = Len(delivered[fd])
    /\ \A t, u \in Clients : FAt(t, "read") /\ FAt(u, "read") /\ at[t].fd = at[u].fd => t = u

FsKept ==
    /\ FsType'
    /\ Alone /\ FdInv => FdInv'
    /\ Alone /\ FdInv /\ ReadInv => ReadInv'

LEMMA OpenLooksStep ==
    ASSUME FsType, NEW t \in Clients, OpenLooks(t) PROVE FsKept
<1>1. PICK name \in use.paths :
          LET o == open_sys(name)
          IN  /\ o[1] # "none"
              /\ IF newfd = MAX_FILES
                 THEN /\ IF o[1] \in {"console", "trace"} THEN freefd(newfd) ELSE UNCHANGED files
                      /\ UNCHANGED at
                 ELSE /\ Go(t, [what |-> "fill", fd |-> newfd, type |-> o[1], qid |-> o[2], name |-> name])
                      /\ UNCHANGED files
  BY DEF OpenLooks
<1>2. UNCHANGED <<use, held, delivered>> /\ FAt(t, "idle") /\ t \in use.open
  BY DEF OpenLooks
<1>3. MAX_FILES \in Nat /\ \A fd \in FDs : fd \in 0 .. MAX_FILES /\ fd # MAX_FILES
  BY DevFsAssumption DEF FDs
<1>4. CASE newfd = MAX_FILES
  <2>1. at' = at /\ (files' = files \/ files' = [files EXCEPT ![MAX_FILES] = Free])
    BY <1>1, <1>4 DEF freefd
  <2>2. Shape(files') /\ \A fd \in FDs : files'[fd] = files[fd]
    <3>1. CASE files' = files
      BY <3>1 DEF FsType
    <3>2. CASE files' = [files EXCEPT ![MAX_FILES] = Free]
      <4>1. MAX_FILES \in 0 .. MAX_FILES /\ Shape(files) /\ IsEntry(Free)
        BY <1>3, EntryIs DEF FsType, Free
      <4>2. Replaces(files, files', MAX_FILES, Free)
        BY <3>2, <4>1, Put
      <4> QED
        BY <1>3, <4>2 DEF Replaces
    <3> QED
      BY <2>1, <3>1, <3>2
  <2>3. FsType'
    BY <1>2, <2>1, <2>2 DEF FsType, FAt
  <2>4. Alone /\ FdInv => FdInv'
    BY <1>2, <2>1, <2>2 DEF FdInv, FsType, FAt, Filling, Closing
  <2>5. ReadInv => ReadInv'
    BY <1>2, <2>1, <2>2 DEF ReadInv, FsType, FAt, Reads
  <2> QED
    BY <2>3, <2>4, <2>5 DEF FsKept
<1>5. CASE newfd # MAX_FILES
  <2> DEFINE o == open_sys(name)
             p == [what |-> "fill", fd |-> newfd, type |-> o[1], qid |-> o[2], name |-> name]
  <2>1. at' = [at EXCEPT ![t] = p] /\ files' = files /\ o[1] # "none"
    BY <1>1, <1>5, Zenon DEF Go
  <2>2. /\ at' = [u \in Clients |-> at'[u]] /\ at'[t] = p
        /\ \A u \in Clients : u # t => at'[u] = at[u]
    BY <2>1, Moves DEF FsType
  <2>3. newfd \in FDs /\ files[newfd].type = Nodev
    BY <1>5, NewFd
  <2>4. o = <<o[1], o[2]>> /\ o[1] \in Devs
    BY <2>1, OpenSound
  <2>5. /\ at'[t].what = "fill" /\ at'[t].fd = newfd /\ at'[t].type = o[1] /\ at'[t].qid = o[2]
        /\ at'[t].name = name
    BY <2>2
  <2>6. FsType'
    BY <1>2, <2>1, <2>2, <2>3, <2>4, <2>5 DEF FsType, FAt
  <2>7. ASSUME Alone, FdInv PROVE FdInv'
    <3>1. newfd \notin DOMAIN held
      BY <2>3, <2>7 DEF FdInv
    <3>2. o[1] # "test" /\ <<at'[t].type, at'[t].qid>> = open_sys(at'[t].name)
      BY <2>4, <2>5, <2>7, Opener DEF FsType
    <3>3. Filling(t)'
      BY <1>2, <2>1, <2>3, <2>5, <3>1, <3>2 DEF Filling
    <3>4. \A u \in Clients : u # t => (Filling(u) => Filling(u)') /\ (Closing(u) => Closing(u)')
      BY <1>2, <2>1, <2>2 DEF Filling, Closing
    <3> HIDE DEF o, p
    <3> QED
      BY <1>2, <2>1, <2>2, <2>5, <2>7, <3>3, <3>4 DEF FdInv, FAt
  <2>8. ReadInv => ReadInv'
    BY <1>2, <2>1, <2>2, <2>5 DEF ReadInv, FAt, Reads
  <2> QED
    BY <2>6, <2>7, <2>8 DEF FsKept
<1> QED
  BY <1>4, <1>5

LEMMA OpenFillsStep ==
    ASSUME FsType, NEW t \in Clients, OpenFills(t) PROVE FsKept
<1>0. PICK fd \in FDs : fd = at[t].fd
  BY DEF OpenFills, FsType
<1>1. /\ FAt(t, "fill") /\ use' = use /\ at[t].type \in Devs /\ fd \in 0 .. MAX_FILES
      /\ \A e \in FDs : e \in 0 .. MAX_FILES
  BY <1>0, DevFsAssumption DEF OpenFills, FsType, FDs
<1>2. /\ held' = [g \in DOMAIN held \cup {fd} |-> IF g = fd THEN at[t].name ELSE held[g]]
      /\ delivered' = [delivered EXCEPT ![fd] = <<>>]
      /\ at' = [at EXCEPT ![t] = [what |-> "idle"]]
  BY <1>0 DEF OpenFills, Rest, Go
<1>3. \E q, n : /\ files' = [files EXCEPT ![fd] = [type |-> at[t].type, qid |-> q, pos |-> n]]
                /\ n = (IF at[t].type = "test" THEN files[fd].pos ELSE 0)
                /\ at[t].type # "test" => q = at[t].qid
  <2>1. CASE at[t].type = "test"
    <3>1. files' = [files EXCEPT ![fd] = [files[fd] EXCEPT !.type = "test"]]
      BY <1>0, <2>1 DEF OpenFills
    <3>2. [files[fd] EXCEPT !.type = "test"] = [type |-> "test", qid |-> files[fd].qid, pos |-> files[fd].pos]
      <4>1. files[fd] = [type |-> files[fd].type, qid |-> files[fd].qid, pos |-> files[fd].pos]
        BY <1>1 DEF FsType, Shape
      <4>2. ASSUME NEW r, NEW a, NEW b, NEW c, r = [type |-> a, qid |-> b, pos |-> c]
            PROVE  [r EXCEPT !.type = "test"] = [type |-> "test", qid |-> b, pos |-> c]
        BY <4>2
      <4> QED
        BY <4>1, <4>2
    <3> QED
      BY <2>1, <3>1, <3>2
  <2>2. CASE at[t].type # "test"
    BY <1>0, <2>2 DEF OpenFills
  <2> QED
    BY <2>1, <2>2
<1>4. PICK q, n : /\ files' = [files EXCEPT ![fd] = [type |-> at[t].type, qid |-> q, pos |-> n]]
                  /\ n = (IF at[t].type = "test" THEN files[fd].pos ELSE 0)
                  /\ at[t].type # "test" => q = at[t].qid
  BY <1>3
<1>5. /\ Shape(files') /\ files'[fd].type = at[t].type /\ files'[fd].qid = q /\ files'[fd].pos = n
      /\ \A e \in FDs : e # fd => files'[e] = files[e]
  <2>1. Shape(files)
    BY DEF FsType
  <2>2. PICK r : r = [type |-> at[t].type, qid |-> q, pos |-> n]
    OBVIOUS
  <2>3. IsEntry(r) /\ r.type = at[t].type /\ r.qid = q /\ r.pos = n
    BY <2>2, EntryIs
  <2>4. files' = [files EXCEPT ![fd] = r]
    BY <1>4, <2>2
  <2>5. Replaces(files, files', fd, r)
    BY <1>1, <2>1, <2>3, <2>4, Put
  <2> QED
    BY <1>1, <2>3, <2>5 DEF Replaces
<1>6. /\ at' = [u \in Clients |-> at'[u]] /\ at'[t].what = "idle"
      /\ \A u \in Clients : u # t => at'[u] = at[u]
  BY <1>2, Moves DEF FsType
<1>7. /\ DOMAIN held' = DOMAIN held \cup {fd} /\ held'[fd] = at[t].name
      /\ held' = [g \in DOMAIN held' |-> held'[g]]
      /\ \A g \in DOMAIN held : g # fd => held'[g] = held[g]
  BY <1>2
<1>8. /\ delivered' \in [FDs -> Seq(Nat)] /\ delivered'[fd] = <<>>
      /\ \A g \in FDs : g # fd => delivered'[g] = delivered[g]
  <2>1. <<>> \in Seq(Nat)
    OBVIOUS
  <2> QED
    BY <1>2, <2>1 DEF FsType
<1>9. FsType'
  <2>1. n \in Nat
    BY <1>4 DEF FsType
  <2> QED
    BY <1>1, <1>5, <1>6, <1>7, <1>8, <2>1 DEF FsType, FAt
<1>10. ASSUME Alone, FdInv PROVE FdInv'
  <2>1. Filling(t)
    BY <1>1, <1>10 DEF FdInv
  <2>2. \A u \in Clients : u # t => ~FAt(u, "fill")
    BY <1>10, <2>1, Opener DEF FsType, FdInv, Filling
  <2>3. \A u \in Clients : FAt(u, "close") => at[u].fd # fd /\ at[u].fd \in FDs
    BY <1>0, <1>10, <2>1 DEF FsType, FdInv, Filling, Closing
  <2>4. <<files'[fd].type, files'[fd].qid>> = open_sys(held'[fd]) /\ files'[fd].type \notin {Nodev, "test"}
    <3>1. at[t].type # "test" /\ at[t].type # Nodev
      BY <1>1, <2>1, DevFsAssumption DEF Filling, Devices, Nodev
    <3> QED
      BY <1>4, <1>5, <1>7, <2>1, <3>1 DEF Filling
  <2>5. DOMAIN held \subseteq FDs
    BY DEF FsType
  <2>6. \A u \in Clients : /\ FAt(u, "fill")' => Filling(u)'
                           /\ FAt(u, "close")' => Closing(u)'
                           /\ FAt(u, "read")' => at'[u].fd \in DOMAIN held'
    BY <1>5, <1>6, <1>7, <1>10, <2>2, <2>3 DEF FdInv, FAt, Closing
  <2>7. \A u, v \in Clients : FAt(u, "close")' /\ FAt(v, "close")' /\ at'[u].fd = at'[v].fd => u = v
    BY <1>6, <1>10 DEF FdInv, FAt
  <2>8. \A g \in DOMAIN held' :
            <<files'[g].type, files'[g].qid>> = open_sys(held'[g]) /\ files'[g].type \notin {Nodev, "test"}
    BY <1>5, <1>7, <1>10, <2>4, <2>5 DEF FdInv
  <2>9. \A g \in FDs \ DOMAIN held' :
            files'[g].type = Nodev \/ \E u \in Clients : FAt(u, "close")' /\ at'[u].fd = g
    <3> SUFFICES ASSUME NEW g \in FDs \ DOMAIN held', files'[g].type # Nodev
                 PROVE  \E u \in Clients : FAt(u, "close")' /\ at'[u].fd = g
      OBVIOUS
    <3>1. g \notin DOMAIN held /\ g # fd /\ files[g].type # Nodev
      BY <1>5, <1>7
    <3>2. PICK u \in Clients : FAt(u, "close") /\ at[u].fd = g
      BY <1>10, <3>1 DEF FdInv
    <3>3. u # t
      BY <1>1, <3>2 DEF FAt
    <3> QED
      BY <1>6, <3>2, <3>3 DEF FAt
  <2> QED
    BY <2>6, <2>7, <2>8, <2>9 DEF FdInv
<1>11. ASSUME Alone, FdInv, ReadInv PROVE ReadInv'
  <2>1. Filling(t) /\ at[t].type # "test" /\ n = 0
    BY <1>1, <1>4, <1>11 DEF FdInv, Filling
  <2>2. \A u \in Clients : FAt(u, "read") => at[u].fd # fd
    BY <1>0, <1>11, <2>1 DEF FdInv, Filling
  <2>3. \A u \in Clients : \A g : Reads(u, g)' <=> Reads(u, g) /\ u # t
    BY <1>1, <1>6 DEF FAt, Reads
  <2>4. \A u \in Clients : \A g : Reads(u, g) => u # t /\ at'[u] = at[u]
    BY <1>1, <1>6 DEF FAt, Reads
  <2>5. DOMAIN held \subseteq FDs /\ Length \in [Texts -> Nat]
    BY DevFsAssumption DEF FsType
  <2>6. <<>> = Upto(0) /\ Len(<<>>) = 0
    BY DEF Upto
  <2>7. \A u \in Clients : ~Reads(u, fd)
    BY <2>2 DEF Reads
  <2>8. \A g \in DOMAIN held' :
            /\ delivered'[g] = Upto(Len(delivered'[g]))
            /\ files'[g].qid \in Texts => Len(delivered'[g]) <= Length[files'[g].qid]
            /\ (\A u \in Clients : ~Reads(u, g)') => files'[g].pos = Len(delivered'[g])
            /\ \A u \in Clients : Reads(u, g)' => files'[g].pos + at'[u].n = Len(delivered'[g])
    <3> SUFFICES ASSUME NEW g \in DOMAIN held'
                 PROVE  /\ delivered'[g] = Upto(Len(delivered'[g]))
                        /\ files'[g].qid \in Texts => Len(delivered'[g]) <= Length[files'[g].qid]
                        /\ (\A u \in Clients : ~Reads(u, g)') => files'[g].pos = Len(delivered'[g])
                        /\ \A u \in Clients : Reads(u, g)' => files'[g].pos + at'[u].n = Len(delivered'[g])
      OBVIOUS
    <3>1. CASE g = fd
      BY <1>5, <1>8, <2>1, <2>3, <2>5, <2>6, <2>7, <3>1
    <3>2. CASE g # fd
      <4>1. g \in DOMAIN held /\ g \in FDs /\ files'[g] = files[g] /\ delivered'[g] = delivered[g]
        BY <1>5, <1>7, <1>8, <2>5, <3>2
      <4> QED
        BY <1>11, <2>3, <2>4, <4>1 DEF ReadInv
    <3> QED
      BY <3>1, <3>2
  <2>9. \A u, v \in Clients : FAt(u, "read")' /\ FAt(v, "read")' /\ at'[u].fd = at'[v].fd => u = v
    BY <1>6, <1>11 DEF ReadInv, FAt
  <2> QED
    BY <2>8, <2>9 DEF ReadInv
<1> QED
  BY <1>9, <1>10, <1>11 DEF FsKept

(* To free an entry of the table.                                          *)
LEMMA FreeSound ==
    ASSUME FsType, NEW fd \in FDs, files' = [files EXCEPT ![fd] = Free]
    PROVE  /\ Shape(files') /\ files'[fd].type = Nodev /\ files'[fd].pos = 0
           /\ \A e \in FDs : e # fd => files'[e] = files[e]
<1>1. fd \in 0 .. MAX_FILES /\ \A e \in FDs : e \in 0 .. MAX_FILES
  BY DevFsAssumption DEF FDs
<1>2. IsEntry(Free) /\ Free.type = Nodev /\ Free.pos = 0
  BY EntryIs DEF Free
<1>3. Shape(files)
  BY DEF FsType
<1>4. Replaces(files, files', fd, Free)
  BY <1>1, <1>2, <1>3, Put
<1> QED
  BY <1>1, <1>2, <1>4 DEF Replaces

LEMMA CloseStep ==
    ASSUME FsType, NEW t \in Clients, close_sys(t) PROVE FsKept
<1>0. PICK fd \in DOMAIN held :
          /\ files[fd].type # Nodev
          /\ \A u \in Clients : at[u].what = "read" => at[u].fd # fd
          /\ held' = [g \in DOMAIN held \ {fd} |-> held[g]]
          /\ IF files[fd].type = "test" THEN freefd(fd) ELSE UNCHANGED files
          /\ Go(t, [what |-> "close", fd |-> fd])
  BY DEF close_sys
<1>1. FAt(t, "idle") /\ use' = use /\ delivered' = delivered /\ fd \in FDs /\ DOMAIN held \subseteq FDs
  BY DEF close_sys, FsType
<1>2. at' = [at EXCEPT ![t] = [what |-> "close", fd |-> fd]]
  BY <1>0 DEF Go
<1>3. /\ at' = [u \in Clients |-> at'[u]] /\ at'[t].what = "close" /\ at'[t].fd = fd
      /\ \A u \in Clients : u # t => at'[u] = at[u]
  BY <1>2, Moves DEF FsType
<1>4. /\ DOMAIN held' = DOMAIN held \ {fd} /\ held' = [g \in DOMAIN held' |-> held'[g]]
      /\ \A g \in DOMAIN held' : held'[g] = held[g]
  BY <1>0
<1>5. /\ Shape(files') /\ \A e \in FDs : e # fd => files'[e] = files[e]
      /\ files[fd].type # "test" => files' = files
      /\ files'[fd].type \in Devs \cup {Nodev} /\ files'[fd].pos \in Nat
  <2>1. CASE files[fd].type = "test"
    <3>1. files' = [files EXCEPT ![fd] = Free]
      BY <1>0, <2>1 DEF freefd
    <3>2. /\ Shape(files') /\ files'[fd].type = Nodev /\ files'[fd].pos = 0
          /\ \A e \in FDs : e # fd => files'[e] = files[e]
      BY <1>1, <3>1, FreeSound
    <3> QED
      BY <2>1, <3>2
  <2>2. CASE files[fd].type # "test"
    BY <1>0, <1>1, <2>2 DEF FsType
  <2> QED
    BY <2>1, <2>2
<1>6. FsType'
  BY <1>1, <1>3, <1>4, <1>5 DEF FsType, FAt
<1>7. ASSUME Alone, FdInv PROVE FdInv'
  <2>1. files[fd].type \notin {Nodev, "test"} /\ files' = files
    BY <1>5, <1>7 DEF FdInv
  <2>2. \A u \in Clients : FAt(u, "close") => at[u].fd # fd
    BY <1>7 DEF FdInv, Closing
  <2>3. \A u \in Clients : /\ FAt(u, "fill")' => Filling(u)'
                           /\ FAt(u, "close")' => Closing(u)'
                           /\ FAt(u, "read")' => at'[u].fd \in DOMAIN held'
    <3> SUFFICES ASSUME NEW u \in Clients
                 PROVE  /\ FAt(u, "fill")' => Filling(u)'
                        /\ FAt(u, "close")' => Closing(u)'
                        /\ FAt(u, "read")' => at'[u].fd \in DOMAIN held'
      OBVIOUS
    <3>1. CASE u = t
      BY <1>1, <1>3, <1>4, <2>1, <3>1 DEF FAt, Closing
    <3>2. CASE u # t
      BY <1>0, <1>1, <1>3, <1>4, <1>7, <2>1, <3>2 DEF FdInv, FAt, Filling, Closing
    <3> QED
      BY <3>1, <3>2
  <2>4. \A u, v \in Clients : FAt(u, "close")' /\ FAt(v, "close")' /\ at'[u].fd = at'[v].fd => u = v
    BY <1>3, <1>7, <2>2 DEF FdInv, FAt
  <2>5. \A g \in FDs \ DOMAIN held' :
            files'[g].type = Nodev \/ \E u \in Clients : FAt(u, "close")' /\ at'[u].fd = g
    <3> SUFFICES ASSUME NEW g \in FDs \ DOMAIN held', files'[g].type # Nodev
                 PROVE  \E u \in Clients : FAt(u, "close")' /\ at'[u].fd = g
      OBVIOUS
    <3>1. CASE g = fd
      BY <1>3, <3>1 DEF FAt
    <3>2. CASE g # fd
      <4>1. PICK u \in Clients : FAt(u, "close") /\ at[u].fd = g
        BY <1>4, <1>7, <2>1, <3>2 DEF FdInv
      <4>2. u # t
        BY <1>1, <4>1 DEF FAt
      <4> QED
        BY <1>3, <4>1, <4>2 DEF FAt
    <3> QED
      BY <3>1, <3>2
  <2> QED
    BY <1>4, <1>7, <2>1, <2>3, <2>4, <2>5 DEF FdInv
<1>8. ASSUME Alone, FdInv, ReadInv PROVE ReadInv'
  <2>1. files' = files
    BY <1>5, <1>8 DEF FdInv
  <2>2. \A u \in Clients : \A g : Reads(u, g)' <=> Reads(u, g) /\ u # t
    BY <1>1, <1>3 DEF FAt, Reads
  <2>3. \A u \in Clients : \A g : Reads(u, g) => u # t /\ at'[u] = at[u]
    BY <1>1, <1>3 DEF FAt, Reads
  <2>4. \A u, v \in Clients : FAt(u, "read")' /\ FAt(v, "read")' /\ at'[u].fd = at'[v].fd => u = v
    BY <1>3, <1>8 DEF ReadInv, FAt
  <2> QED
    BY <1>1, <1>4, <1>8, <2>1, <2>2, <2>3, <2>4 DEF ReadInv
<1> QED
  BY <1>6, <1>7, <1>8 DEF FsKept

LEMMA CloseFreesStep ==
    ASSUME FsType, NEW t \in Clients, CloseFrees(t) PROVE FsKept
<1>0. PICK fd \in FDs : fd = at[t].fd
  BY DEF CloseFrees, FsType
<1>1. /\ FAt(t, "close") /\ use' = use /\ held' = held /\ DOMAIN held \subseteq FDs
      /\ files' = [files EXCEPT ![fd] = Free] /\ at' = [at EXCEPT ![t] = [what |-> "idle"]]
      /\ delivered' = [delivered EXCEPT ![fd] = <<>>]
  BY <1>0 DEF CloseFrees, freefd, Rest, Go, FsType
<1>2. /\ Shape(files') /\ files'[fd].type = Nodev /\ files'[fd].pos = 0
      /\ \A e \in FDs : e # fd => files'[e] = files[e]
  BY <1>1, FreeSound
<1>3. /\ at' = [u \in Clients |-> at'[u]] /\ at'[t].what = "idle"
      /\ \A u \in Clients : u # t => at'[u] = at[u]
  BY <1>1, Moves DEF FsType
<1>4. delivered' \in [FDs -> Seq(Nat)] /\ \A g \in FDs : g # fd => delivered'[g] = delivered[g]
  <2>1. <<>> \in Seq(Nat)
    OBVIOUS
  <2> QED
    BY <1>1, <2>1 DEF FsType
<1>5. FsType'
  BY <1>1, <1>2, <1>3, <1>4 DEF FsType, FAt
<1>6. ASSUME Alone, FdInv PROVE FdInv'
  <2>1. Closing(t)
    BY <1>1, <1>6 DEF FdInv
  <2>2. \A u \in Clients : u # t /\ FAt(u, "close") => at[u].fd # fd
    BY <1>0, <1>1, <1>6 DEF FdInv
  <2>3. \A u \in Clients : /\ FAt(u, "fill")' => Filling(u)'
                           /\ FAt(u, "close")' => Closing(u)'
                           /\ FAt(u, "read")' => at'[u].fd \in DOMAIN held'
    <3> SUFFICES ASSUME NEW u \in Clients, u # t
                 PROVE  /\ FAt(u, "fill")' => Filling(u)'
                        /\ FAt(u, "close")' => Closing(u)'
                        /\ FAt(u, "read")' => at'[u].fd \in DOMAIN held'
      BY <1>3 DEF FAt
    <3>1. at'[u] = at[u]
      BY <1>3
    <3>2. FAt(u, "fill") => at[u].fd \in FDs
      BY DEF FsType
    <3>3. FAt(u, "close") => at[u].fd \in FDs
      BY DEF FsType
    <3>4. FAt(u, "fill") => Filling(u)
      BY <1>6 DEF FdInv
    <3>5. FAt(u, "close") => Closing(u)
      BY <1>6 DEF FdInv
    <3>6. FAt(u, "fill") => Filling(u)'
      BY <1>1, <1>2, <3>1, <3>2, <3>4 DEF Filling
    <3>7. FAt(u, "close") => Closing(u)'
      BY <1>1, <1>2, <2>2, <3>1, <3>3, <3>5 DEF Closing
    <3> QED
      BY <1>1, <1>6, <3>1, <3>6, <3>7 DEF FdInv, FAt
  <2>4. \A u, v \in Clients : FAt(u, "close")' /\ FAt(v, "close")' /\ at'[u].fd = at'[v].fd => u = v
    BY <1>3, <1>6 DEF FdInv, FAt
  <2>5. fd \notin DOMAIN held
    BY <1>0, <2>1 DEF Closing
  <2>6. \A g \in FDs \ DOMAIN held :
            files'[g].type = Nodev \/ \E u \in Clients : FAt(u, "close")' /\ at'[u].fd = g
    <3> SUFFICES ASSUME NEW g \in FDs \ DOMAIN held, files'[g].type # Nodev
                 PROVE  \E u \in Clients : FAt(u, "close")' /\ at'[u].fd = g
      OBVIOUS
    <3>1. g # fd /\ files[g].type # Nodev
      BY <1>2
    <3>2. PICK u \in Clients : FAt(u, "close") /\ at[u].fd = g
      BY <1>6, <3>1 DEF FdInv
    <3>3. u # t
      BY <1>0, <3>1, <3>2
    <3> QED
      BY <1>3, <3>2, <3>3 DEF FAt
  <2>7. \A g \in DOMAIN held :
            <<files'[g].type, files'[g].qid>> = open_sys(held'[g]) /\ files'[g].type \notin {Nodev, "test"}
    BY <1>1, <1>2, <1>6, <2>5 DEF FdInv
  <2> QED
    BY <1>1, <2>3, <2>4, <2>6, <2>7 DEF FdInv
<1>7. ASSUME Alone, FdInv, ReadInv PROVE ReadInv'
  <2>1. fd \notin DOMAIN held
    BY <1>0, <1>1, <1>7 DEF FdInv, Closing
  <2>2. \A u \in Clients : \A g : Reads(u, g)' <=> Reads(u, g) /\ u # t
    BY <1>1, <1>3 DEF FAt, Reads
  <2>3. \A u \in Clients : \A g : Reads(u, g) => u # t /\ at'[u] = at[u]
    BY <1>1, <1>3 DEF FAt, Reads
  <2>4. \A u, v \in Clients : FAt(u, "read")' /\ FAt(v, "read")' /\ at'[u].fd = at'[v].fd => u = v
    BY <1>3, <1>7 DEF ReadInv, FAt
  <2>5. \A g \in DOMAIN held : files'[g] = files[g] /\ delivered'[g] = delivered[g]
    BY <1>1, <1>2, <1>4, <2>1
  <2> QED
    BY <1>1, <1>7, <2>2, <2>3, <2>4, <2>5 DEF ReadInv
<1> QED
  BY <1>5, <1>6, <1>7 DEF FsKept

(* A read never returns more than it was asked for, nor runs past the end. *)
LEMMA ReadCountSound ==
    ASSUME NEW len \in Nat, NEW n \in Nat, NEW offset \in Nat
    PROVE  /\ ReadCount(len, n, offset) \in Nat /\ ReadCount(len, n, offset) <= n
           /\ offset <= len => offset + ReadCount(len, n, offset) <= len
BY DEF ReadCount, Smaller

(* What was delivered goes on with what is read at its end.                *)
LEMMA UptoGrows ==
    ASSUME NEW n \in Nat, NEW c \in Nat, NEW s \in Seq(Nat), s = Upto(n)
    PROVE  s \o [i \in 1 .. c |-> n + i - 1] = Upto(n + c) /\ Len(Upto(n + c)) = n + c
<1> DEFINE r == [i \in 1 .. c |-> n + i - 1]
           u == Upto(n + c)
<1>1. r \in Seq(Nat) /\ Len(r) = c /\ \A i \in 1 .. c : r[i] = n + i - 1
  <2>1. r \in [1 .. c -> Nat]
    OBVIOUS
  <2> QED
    BY <2>1, SeqDef
<1>2. u \in Seq(Nat) /\ Len(u) = n + c /\ \A i \in 1 .. n + c : u[i] = i - 1
  <2>1. u \in [1 .. n + c -> Nat]
    BY DEF Upto
  <2> QED
    BY <2>1, SeqDef DEF Upto
<1>3. Len(s) = n /\ \A i \in 1 .. n : s[i] = i - 1
  <2>1. DOMAIN s = 1 .. n
    BY DEF Upto
  <2> QED
    BY <2>1 DEF Upto
<1> HIDE DEF r, u
<1>4. Len(u) = Len(s) + Len(r) /\ \A i \in 1 .. Len(u) : u[i] = IF i <= Len(s) THEN s[i] ELSE r[i - Len(s)]
  BY <1>1, <1>2, <1>3
<1>5. s \o r = u
  BY <1>1, <1>2, <1>4, Joined
<1> QED
  BY <1>2, <1>5 DEF r, u

LEMMA ReadSysStep ==
    ASSUME FsType, NEW t \in Clients, read_sys(t) PROVE FsKept /\ ~overrun'
<1>0. PICK fd \in DOMAIN held, n \in Chunks :
           /\ files[fd].qid \in Texts
           /\ \A u \in Clients : at[u].what = "read" => at[u].fd # fd
           /\ LET c == ReadCount(Length[files[fd].qid], n, files[fd].pos)
              IN  /\ Go(t, [what |-> "read", fd |-> fd, n |-> c])
                  /\ overrun' = (c > n)
                  /\ delivered' = [delivered EXCEPT ![fd] =
                                      delivered[fd] \o [i \in 1 .. c |-> files[fd].pos + i - 1]]
  BY DEF read_sys
<1>1. /\ FAt(t, "idle") /\ use' = use /\ files' = files /\ held' = held /\ fd \in FDs
      /\ DOMAIN held \subseteq FDs /\ files[fd].pos \in Nat /\ n \in Nat
      /\ Length[files[fd].qid] \in Nat /\ delivered \in [FDs -> Seq(Nat)]
  BY <1>0, DevFsAssumption DEF read_sys, FsType
<1>2. PICK c \in Nat : /\ c = ReadCount(Length[files[fd].qid], n, files[fd].pos) /\ c <= n
                       /\ files[fd].pos <= Length[files[fd].qid] =>
                              files[fd].pos + c <= Length[files[fd].qid]
  <2>1. PICK len \in Nat, off \in Nat : len = Length[files[fd].qid] /\ off = files[fd].pos
    BY <1>1
  <2>2. /\ ReadCount(len, n, off) \in Nat /\ ReadCount(len, n, off) <= n
        /\ off <= len => off + ReadCount(len, n, off) <= len
    BY <1>1, ReadCountSound
  <2> QED
    BY <2>1, <2>2
<1>3. /\ at' = [at EXCEPT ![t] = [what |-> "read", fd |-> fd, n |-> c]]
      /\ delivered' = [delivered EXCEPT ![fd] = delivered[fd] \o [i \in 1 .. c |-> files[fd].pos + i - 1]]
  BY <1>0, <1>2 DEF Go
<1>4. ~overrun'
  <2>1. overrun' = (c > n)
    BY <1>0, <1>2
  <2>2. ~(c > n)
    BY <1>1, <1>2
  <2> QED
    BY <2>1, <2>2, Zenon
<1>5. /\ at' = [u \in Clients |-> at'[u]] /\ at'[t].what = "read" /\ at'[t].fd = fd /\ at'[t].n = c
      /\ \A u \in Clients : u # t => at'[u] = at[u]
  BY <1>3, Moves DEF FsType
<1>6. /\ delivered' \in [FDs -> Seq(Nat)]
      /\ delivered'[fd] = delivered[fd] \o [i \in 1 .. c |-> files[fd].pos + i - 1]
      /\ \A g \in FDs : g # fd => delivered'[g] = delivered[g]
  <2>1. [i \in 1 .. c |-> files[fd].pos + i - 1] \in Seq(Nat)
    <3>1. [i \in 1 .. c |-> files[fd].pos + i - 1] \in [1 .. c -> Nat]
      BY <1>1
    <3> DEFINE b == [i \in 1 .. c |-> files[fd].pos + i - 1]
    <3>2. b \in [1 .. c -> Nat] /\ [1 .. c -> Nat] \in {[1 .. m -> Nat] : m \in Nat}
      BY <3>1
    <3> HIDE DEF b
    <3>3. b \in UNION {[1 .. m -> Nat] : m \in Nat}
      BY <3>2, Zenon
    <3>4. b \in Seq(Nat)
      BY <3>3, SeqDef, Zenon
    <3> QED
      BY <3>4 DEF b
  <2>2. delivered[fd] \o [i \in 1 .. c |-> files[fd].pos + i - 1] \in Seq(Nat)
    BY <1>1, <2>1, ConcatProperties
  <2> QED
    BY <1>1, <1>3, <2>2
<1>7. FsType'
  BY <1>1, <1>5, <1>6 DEF FsType, FAt
<1>8. ASSUME FdInv PROVE FdInv'
  <2>1. \A u \in Clients : /\ FAt(u, "fill")' => Filling(u)'
                           /\ FAt(u, "close")' => Closing(u)'
                           /\ FAt(u, "read")' => at'[u].fd \in DOMAIN held'
    <3> SUFFICES ASSUME NEW u \in Clients
                 PROVE  /\ FAt(u, "fill")' => Filling(u)'
                        /\ FAt(u, "close")' => Closing(u)'
                        /\ FAt(u, "read")' => at'[u].fd \in DOMAIN held'
      OBVIOUS
    <3>1. CASE u = t
      BY <1>0, <1>1, <1>5, <3>1 DEF FAt
    <3>2. CASE u # t
      <4>1. at'[u] = at[u]
        BY <1>5, <3>2
      <4> QED
        BY <1>1, <1>8, <4>1 DEF FdInv, FAt, Filling, Closing
    <3> QED
      BY <3>1, <3>2
  <2>2. \A u, v \in Clients : FAt(u, "close")' /\ FAt(v, "close")' /\ at'[u].fd = at'[v].fd => u = v
    BY <1>5, <1>8 DEF FdInv, FAt
  <2>3. \A g \in FDs \ DOMAIN held' :
            files'[g].type = Nodev \/ \E u \in Clients : FAt(u, "close")' /\ at'[u].fd = g
    BY <1>1, <1>5, <1>8 DEF FdInv, FAt
  <2> QED
    BY <1>1, <1>8, <2>1, <2>2, <2>3 DEF FdInv
<1>9. ASSUME ReadInv PROVE ReadInv'
  <2>1. PICK m \in Nat : m = Len(delivered[fd])
    BY <1>1, LenProperties
  <2>2. delivered[fd] = Upto(m) /\ m <= Length[files[fd].qid] /\ files[fd].pos = m
    BY <1>0, <1>9, <2>1 DEF ReadInv, Reads, FAt
  <2>3. delivered'[fd] = Upto(m + c) /\ Len(delivered'[fd]) = m + c
    <3>1. delivered[fd] \in Seq(Nat) /\ delivered[fd] = Upto(m)
      BY <1>1, <2>2
    <3>2. delivered[fd] \o [i \in 1 .. c |-> m + i - 1] = Upto(m + c) /\ Len(Upto(m + c)) = m + c
      BY <3>1, UptoGrows
    <3> QED
      BY <1>6, <2>2, <3>2
  <2>4. \A u \in Clients : \A g : u # t => (Reads(u, g)' <=> Reads(u, g))
    BY <1>5 DEF FAt, Reads
  <2>5. \A g : Reads(t, g)' <=> g = fd
    BY <1>5 DEF FAt, Reads
  <2>6. \A g : ~Reads(t, g) /\ \A u \in Clients : ~Reads(u, fd)
    BY <1>0, <1>1 DEF FAt, Reads
  <2>7. \A g \in DOMAIN held :
            /\ delivered'[g] = Upto(Len(delivered'[g]))
            /\ files'[g].qid \in Texts => Len(delivered'[g]) <= Length[files'[g].qid]
            /\ (\A u \in Clients : ~Reads(u, g)') => files'[g].pos = Len(delivered'[g])
            /\ \A u \in Clients : Reads(u, g)' => files'[g].pos + at'[u].n = Len(delivered'[g])
    <3> SUFFICES ASSUME NEW g \in DOMAIN held
                 PROVE  /\ delivered'[g] = Upto(Len(delivered'[g]))
                        /\ files'[g].qid \in Texts => Len(delivered'[g]) <= Length[files'[g].qid]
                        /\ (\A u \in Clients : ~Reads(u, g)') => files'[g].pos = Len(delivered'[g])
                        /\ \A u \in Clients : Reads(u, g)' => files'[g].pos + at'[u].n = Len(delivered'[g])
      OBVIOUS
    <3>1. CASE g = fd
      <4>1. m + c <= Length[files[fd].qid]
        BY <1>2, <2>2
      <4>2. \A u \in Clients : Reads(u, fd)' => u = t
        BY <2>4, <2>6
      <4> QED
        BY <1>1, <1>5, <2>2, <2>3, <2>5, <3>1, <4>1, <4>2
    <3>2. CASE g # fd
      <4>1. g \in FDs /\ delivered'[g] = delivered[g]
        BY <1>1, <1>6, <3>2
      <4>2. \A u \in Clients : (Reads(u, g)' <=> Reads(u, g)) /\ (Reads(u, g) => at'[u] = at[u])
        BY <1>5, <2>4, <2>5, <2>6, <3>2
      <4> QED
        BY <1>1, <1>9, <4>1, <4>2 DEF ReadInv
    <3> QED
      BY <3>1, <3>2
  <2>8. \A u, v \in Clients : FAt(u, "read")' /\ FAt(v, "read")' /\ at'[u].fd = at'[v].fd => u = v
    BY <1>0, <1>5, <1>9 DEF ReadInv, FAt
  <2> QED
    BY <1>1, <2>7, <2>8 DEF ReadInv
<1> QED
  BY <1>4, <1>7, <1>8, <1>9 DEF FsKept

LEMMA ReadMovesStep ==
    ASSUME FsType, NEW t \in Clients, ReadMoves(t) PROVE FsKept
<1>0. PICK fd \in FDs, c \in Nat : fd = at[t].fd /\ c = at[t].n
  BY DEF ReadMoves, FsType
<1>1. /\ FAt(t, "read") /\ use' = use /\ held' = held /\ delivered' = delivered
      /\ DOMAIN held \subseteq FDs /\ fd \in 0 .. MAX_FILES /\ \A e \in FDs : e \in 0 .. MAX_FILES
      /\ files[fd].pos \in Nat /\ Shape(files)
  BY DevFsAssumption DEF ReadMoves, FsType, FDs
<1>2. /\ files' = [files EXCEPT ![fd] = [files[fd] EXCEPT !.pos = files[fd].pos + c]]
      /\ at' = [at EXCEPT ![t] = [what |-> "idle"]]
  BY <1>0 DEF ReadMoves, Rest, Go
<1>3. /\ Shape(files') /\ files'[fd].type = files[fd].type /\ files'[fd].qid = files[fd].qid
      /\ files'[fd].pos = files[fd].pos + c /\ \A e \in FDs : e # fd => files'[e] = files[e]
  <2>1. PICK r : r = [files[fd] EXCEPT !.pos = files[fd].pos + c]
    OBVIOUS
  <2>2. IsEntry(files[fd])
    BY <1>1 DEF Shape, IsEntry
  <2>3. IsEntry(r) /\ r.type = files[fd].type /\ r.qid = files[fd].qid /\ r.pos = files[fd].pos + c
    <3>1. ASSUME NEW o, NEW v, IsEntry(o), r = [o EXCEPT !.pos = v]
          PROVE  IsEntry(r) /\ r.type = o.type /\ r.qid = o.qid /\ r.pos = v
      BY <3>1 DEF IsEntry
    <3> QED
      BY <2>1, <2>2, <3>1
  <2>4. Replaces(files, files', fd, r)
    BY <1>1, <1>2, <2>1, <2>3, Put
  <2> QED
    BY <1>1, <2>3, <2>4 DEF Replaces
<1>4. /\ at' = [u \in Clients |-> at'[u]] /\ at'[t].what = "idle"
      /\ \A u \in Clients : u # t => at'[u] = at[u]
  BY <1>2, Moves DEF FsType
<1>5. FsType'
  <2>1. \A e \in FDs : files'[e].type = files[e].type
    BY <1>3
  <2>2. \A e \in FDs : files'[e].pos \in Nat
    <3> SUFFICES ASSUME NEW e \in FDs PROVE files'[e].pos \in Nat
      OBVIOUS
    <3>1. CASE e = fd
      BY <1>1, <1>3, <3>1
    <3>2. CASE e # fd
      BY <1>3, <3>2 DEF FsType
    <3> QED
      BY <3>1, <3>2
  <2> QED
    BY <1>1, <1>3, <1>4, <2>1, <2>2 DEF FsType, FAt
<1>6. ASSUME FdInv PROVE FdInv'
  <2>1. \A e \in FDs : files'[e].type = files[e].type /\ files'[e].qid = files[e].qid
    BY <1>3
  <2>2. \A u \in Clients : /\ FAt(u, "fill")' => Filling(u)'
                           /\ FAt(u, "close")' => Closing(u)'
                           /\ FAt(u, "read")' => at'[u].fd \in DOMAIN held'
    <3> SUFFICES ASSUME NEW u \in Clients, u # t
                 PROVE  /\ FAt(u, "fill")' => Filling(u)'
                        /\ FAt(u, "close")' => Closing(u)'
                        /\ FAt(u, "read")' => at'[u].fd \in DOMAIN held'
      BY <1>4 DEF FAt
    <3>1. at'[u] = at[u]
      BY <1>4
    <3>2. /\ FAt(u, "fill") => at[u].fd \in FDs /\ Filling(u)
          /\ FAt(u, "close") => at[u].fd \in FDs /\ Closing(u)
      BY <1>6 DEF FsType, FdInv
    <3>3. FAt(u, "fill") => Filling(u)'
      BY <1>1, <2>1, <3>1, <3>2 DEF Filling
    <3>4. FAt(u, "close") => Closing(u)'
      BY <1>1, <2>1, <3>1, <3>2 DEF Closing
    <3> QED
      BY <1>1, <1>6, <3>1, <3>3, <3>4 DEF FdInv, FAt
  <2>3. \A u, v \in Clients : FAt(u, "close")' /\ FAt(v, "close")' /\ at'[u].fd = at'[v].fd => u = v
    BY <1>4, <1>6 DEF FdInv, FAt
  <2>4. \A g \in FDs \ DOMAIN held' :
            files'[g].type = Nodev \/ \E u \in Clients : FAt(u, "close")' /\ at'[u].fd = g
    BY <1>1, <1>4, <1>6, <2>1 DEF FdInv, FAt
  <2>5. \A g \in DOMAIN held' :
            <<files'[g].type, files'[g].qid>> = open_sys(held'[g]) /\ files'[g].type \notin {Nodev, "test"}
    BY <1>1, <1>6, <2>1 DEF FdInv
  <2> QED
    BY <2>2, <2>3, <2>4, <2>5 DEF FdInv
<1>7. ASSUME FdInv, ReadInv PROVE ReadInv'
  <2>1. fd \in DOMAIN held /\ Reads(t, fd)
    BY <1>0, <1>1, <1>7 DEF FdInv, Reads
  <2>2. files[fd].pos + c = Len(delivered[fd])
    BY <1>0, <1>7, <2>1 DEF ReadInv
  <2>3. \A u \in Clients : u # t => ~Reads(u, fd)
    BY <1>0, <1>1, <1>7 DEF ReadInv, Reads
  <2>4. \A u \in Clients : \A g : Reads(u, g)' <=> Reads(u, g) /\ u # t
    BY <1>4 DEF FAt, Reads
  <2>5. \A u \in Clients : u # t => at'[u] = at[u]
    BY <1>4
  <2>6. \A g \in DOMAIN held :
            /\ delivered'[g] = Upto(Len(delivered'[g]))
            /\ files'[g].qid \in Texts => Len(delivered'[g]) <= Length[files'[g].qid]
            /\ (\A u \in Clients : ~Reads(u, g)') => files'[g].pos = Len(delivered'[g])
            /\ \A u \in Clients : Reads(u, g)' => files'[g].pos + at'[u].n = Len(delivered'[g])
    <3> SUFFICES ASSUME NEW g \in DOMAIN held
                 PROVE  /\ delivered'[g] = Upto(Len(delivered'[g]))
                        /\ files'[g].qid \in Texts => Len(delivered'[g]) <= Length[files'[g].qid]
                        /\ (\A u \in Clients : ~Reads(u, g)') => files'[g].pos = Len(delivered'[g])
                        /\ \A u \in Clients : Reads(u, g)' => files'[g].pos + at'[u].n = Len(delivered'[g])
      OBVIOUS
    <3>1. CASE g = fd
      BY <1>1, <1>3, <1>7, <2>1, <2>2, <2>3, <2>4, <3>1 DEF ReadInv
    <3>2. CASE g # fd
      <4>1. files'[g] = files[g] /\ delivered'[g] = delivered[g]
        BY <1>1, <1>3, <3>2
      <4>2. \A u \in Clients : Reads(u, g)' <=> Reads(u, g)
        BY <1>0, <2>4, <3>2 DEF Reads
      <4> QED
        BY <1>7, <2>4, <2>5, <4>1, <4>2 DEF ReadInv
    <3> QED
      BY <3>1, <3>2
  <2>7. \A u, v \in Clients : FAt(u, "read")' /\ FAt(v, "read")' /\ at'[u].fd = at'[v].fd => u = v
    BY <1>4, <1>7 DEF ReadInv, FAt
  <2> QED
    BY <1>1, <2>6, <2>7 DEF ReadInv
<1> QED
  BY <1>5, <1>6, <1>7 DEF FsKept

(* The devices without a trace device answer with no more than the count.  *)
LEMMA OthersStep ==
    ASSUME FsType, NEW t \in Clients, OtherRead(t) \/ write_sys(t)
    PROVE  FsKept /\ (0 \notin Chunks /\ "trace" \notin Devs => ~overrun')
<1>1. UNCHANGED <<use, files, held, at, delivered>>
  BY DEF OtherRead, write_sys
<1>2. FsKept
  BY <1>1 DEF FsKept, FsType, FdInv, ReadInv, FAt, Filling, Closing, Reads
<1>3. ASSUME NEW n \in Nat \ {0}, NEW q
      PROVE  /\ ~(n < Negated(consread(q))) /\ ~(n < Negated(uartread(q, n))) /\ ~(n < Negated(0))
             /\ ~(n < Negated(rootwrite)) /\ ~(n < Negated(conswrite(q, n))) /\ ~(n < Negated(uartwrite(q, n)))
  BY <1>3 DEF Negated, consread, uartread, rootwrite, conswrite, uartwrite
<1>4. ASSUME OtherRead(t), 0 \notin Chunks, "trace" \notin Devs PROVE ~overrun'
  <2>1. PICK fd \in DOMAIN held, n \in Chunks :
            overrun' = (n < Negated(
                CASE files[fd].type = "console" -> consread(files[fd].qid)
                  [] files[fd].type = "uart" -> uartread(files[fd].qid, n)
                  [] files[fd].type = "trace" -> traceread [] OTHER -> 0))
    BY <1>4 DEF OtherRead
  <2>2. n \in Nat \ {0} /\ files[fd].type # "trace"
    BY <1>4, DevFsAssumption DEF FsType, Nodev
  <2>3. \/ overrun' = (n < Negated(consread(files[fd].qid)))
        \/ overrun' = (n < Negated(uartread(files[fd].qid, n))) \/ overrun' = (n < Negated(0))
    BY <2>1, <2>2, Zenon
  <2> QED
    BY <1>3, <2>2, <2>3, Zenon
<1>5. ASSUME write_sys(t), 0 \notin Chunks, "trace" \notin Devs PROVE ~overrun'
  <2>1. PICK fd \in DOMAIN held, n \in Chunks, on \in BOOLEAN :
            overrun' = (n < Negated(
                CASE files[fd].type = "root" -> rootwrite
                  [] files[fd].type = "console" -> conswrite(files[fd].qid, n)
                  [] files[fd].type = "uart" -> uartwrite(files[fd].qid, n)
                  [] files[fd].type = "trace" -> IF on THEN 6 ELSE 7 [] OTHER -> 0))
    BY <1>5 DEF write_sys
  <2>2. n \in Nat \ {0} /\ files[fd].type # "trace"
    BY <1>5, DevFsAssumption DEF FsType, Nodev
  <2>3. \/ overrun' = (n < Negated(rootwrite)) \/ overrun' = (n < Negated(conswrite(files[fd].qid, n)))
        \/ overrun' = (n < Negated(uartwrite(files[fd].qid, n))) \/ overrun' = (n < Negated(0))
    BY <2>1, <2>2, Zenon
  <2> QED
    BY <1>3, <2>2, <2>3, Zenon
<1> QED
  BY <1>2, <1>4, <1>5

Quiet == 0 \notin Chunks /\ "trace" \notin Devs => ~overrun
FilesInv == FsType /\ (Alone => FdInv /\ ReadInv) /\ Quiet

LEMMA FilesInit == FInit => FilesInv
<1> SUFFICES ASSUME FInit PROVE FilesInv
  OBVIOUS
<1> DEFINE cons == <<"dev", "console", "cons">>
<1>1. /\ MAX_FILES \in Nat /\ MAX_FILES >= 3 /\ {"console", "root"} \subseteq Devs /\ Length \in [Texts -> Nat]
      /\ FDs = 0 .. MAX_FILES - 1
  BY DevFsAssumption DEF FDs
<1>2. /\ files = [fd \in 0 .. MAX_FILES |->
                     IF fd < 3 THEN [type |-> "console", qid |-> "cons", pos |-> 0]
                     ELSE IF fd = MAX_FILES THEN [type |-> "other data", qid |-> "0", pos |-> 0] ELSE Free]
      /\ use \in Uses /\ held = [fd \in 0 .. 2 |-> cons]
      /\ at = [t \in Clients |-> [what |-> "idle"]] /\ delivered = [fd \in FDs |-> <<>>] /\ overrun = FALSE
  BY DEF FInit, consinit
<1>3. \A fd \in 0 .. MAX_FILES : IsEntry(files[fd])
  BY <1>1, <1>2, EntryIs DEF Free, IsEntry
<1>4. Shape(files)
  BY <1>2, <1>3 DEF Shape, IsEntry
<1>5. \A fd \in 0 .. 2 : fd \in FDs /\ files[fd].type = "console" /\ files[fd].qid = "cons" /\ files[fd].pos = 0
  <2> SUFFICES ASSUME NEW fd \in 0 .. 2
               PROVE  fd \in FDs /\ files[fd].type = "console" /\ files[fd].qid = "cons" /\ files[fd].pos = 0
    OBVIOUS
  <2>1. fd \in FDs /\ fd \in 0 .. MAX_FILES /\ fd < 3
    BY <1>1
  <2>2. files[fd] = [type |-> "console", qid |-> "cons", pos |-> 0]
    BY <1>2, <2>1
  <2> QED
    BY <2>1, <2>2
<1>6. \A fd \in FDs \ (0 .. 2) : files[fd].type = Nodev /\ files[fd].pos = 0
  <2> SUFFICES ASSUME NEW fd \in FDs \ (0 .. 2) PROVE files[fd].type = Nodev /\ files[fd].pos = 0
    OBVIOUS
  <2>1. fd \in 0 .. MAX_FILES /\ ~(fd < 3) /\ fd # MAX_FILES
    BY <1>1
  <2>2. files[fd] = Free
    BY <1>2, <2>1
  <2> QED
    BY <2>2 DEF Free
<1>7. \A t \in Clients : at[t].what = "idle"
  BY <1>2
<1>8. open_sys(cons) = <<"console", "cons">>
  BY <1>1 DEF open_sys, contab
<1>9. /\ delivered \in [FDs -> Seq(Nat)] /\ \A fd \in FDs : delivered[fd] = <<>>
      /\ <<>> = Upto(0) /\ Len(<<>>) = 0
  <2>1. <<>> \in Seq(Nat)
    OBVIOUS
  <2>2. <<>> = Upto(0) /\ Len(<<>>) = 0
    BY DEF Upto
  <2> QED
    BY <1>2, <2>1, <2>2
<1>10. held = [fd \in DOMAIN held |-> held[fd]] /\ DOMAIN held = 0 .. 2 /\ \A fd \in 0 .. 2 : held[fd] = cons
  BY <1>2
<1> HIDE DEF cons
<1>11. FsType
  <2>1. at = [t \in Clients |-> at[t]]
    BY <1>2
  <2>2. \A fd \in FDs : files[fd].type \in Devs \cup {Nodev} /\ files[fd].pos \in Nat
    BY <1>1, <1>5, <1>6
  <2>3. DOMAIN held \subseteq FDs
    BY <1>5, <1>10
  <2> QED
    BY <1>2, <1>4, <1>7, <1>9, <1>10, <2>1, <2>2, <2>3 DEF FsType, FAt
<1>12. FdInv
  BY <1>5, <1>6, <1>7, <1>8, <1>10 DEF FdInv, FAt, Nodev
<1>13. ReadInv
  <2>1. \A fd \in DOMAIN held : files[fd].qid \notin Texts
    BY <1>5, <1>10 DEF Texts
  <2> QED
    BY <1>5, <1>7, <1>9, <1>10, <2>1 DEF ReadInv, Reads, FAt
<1> QED
  BY <1>2, <1>11, <1>12, <1>13 DEF FilesInv, Quiet

LEMMA FilesStep == FilesInv /\ [FNext]_fvars => FilesInv'
<1> SUFFICES ASSUME FilesInv, [FNext]_fvars PROVE FilesInv'
  OBVIOUS
<1>1. CASE UNCHANGED fvars
  BY <1>1 DEF fvars, FilesInv, FsType, Alone, FdInv, ReadInv, Quiet, FAt, Filling, Closing, Reads
<1>2. ASSUME NEW t \in Clients,
             \/ OpenLooks(t) \/ OpenFills(t) \/ close_sys(t) \/ CloseFrees(t)
             \/ read_sys(t) \/ ReadMoves(t) \/ OtherRead(t) \/ write_sys(t)
      PROVE  FilesInv'
  <2>1. FsKept
    BY <1>2, OpenLooksStep, OpenFillsStep, CloseStep, CloseFreesStep, ReadSysStep, ReadMovesStep,
       OthersStep DEF FilesInv
  <2>2. use' = use
    BY <1>2 DEF OpenLooks, OpenFills, close_sys, CloseFrees, read_sys, ReadMoves, OtherRead, write_sys
  <2>3. Alone' => Alone
    BY <2>2 DEF Alone
  <2>4. CASE read_sys(t) \/ OtherRead(t) \/ write_sys(t)
    <3>1. Quiet'
      BY <2>4, ReadSysStep, OthersStep DEF FilesInv, Quiet
    <3> QED
      BY <2>1, <2>3, <3>1 DEF FilesInv, FsKept
  <2>5. CASE OpenLooks(t) \/ OpenFills(t) \/ close_sys(t) \/ CloseFrees(t) \/ ReadMoves(t)
    <3>1. overrun' = overrun
      BY <2>5 DEF OpenLooks, OpenFills, close_sys, CloseFrees, ReadMoves
    <3> QED
      BY <2>1, <2>3, <3>1 DEF FilesInv, FsKept, Quiet
  <2> QED
    BY <1>2, <2>4, <2>5
<1> QED
  BY <1>1, <1>2 DEF FNext

LEMMA FilesAlways == FSpec => []FilesInv
BY FilesInit, FilesStep, PTL DEF FSpec

(* With one thread that opens files, however many others close them, the   *)
(* table and the application agree: no descriptor is given out twice,      *)
(* though open and close are not critical sections, and none is lost.      *)
THEOREM FdsExclusiveHolds == FSpec => []FdsExclusive
<1>1. FilesInv => FdsExclusive
  BY DEF FilesInv, FdInv, FdsExclusive, FAt
<1> QED
  BY <1>1, FilesAlways, PTL

(* Reads of a text, of any length and with any counts but zero, deliver it *)
(* in order and without gaps or repetitions, and no call reports more than *)
(* it was asked for.                                                       *)
THEOREM ReadsInOrderHolds == 0 \notin Chunks => (FSpec => []ReadsInOrder)
<1> SUFFICES ASSUME 0 \notin Chunks PROVE FSpec => []ReadsInOrder
  OBVIOUS
<1>1. FilesInv => ReadsInOrder
  <2> SUFFICES ASSUME FilesInv PROVE ReadsInOrder
    OBVIOUS
  <2>1. "trace" \notin Devs => ~overrun
    BY DEF FilesInv, Quiet
  <2>2. ASSUME Alone, NEW fd \in DOMAIN held, files[fd].qid \in Texts
        PROVE  /\ delivered[fd] = [i \in 1 .. Len(delivered[fd]) |-> i - 1]
               /\ Len(delivered[fd]) <= Length[files[fd].qid]
               /\ files[fd].pos < Len(delivered[fd]) =>
                      \E t \in Clients : at[t].what = "read" /\ at[t].fd = fd
    <3>1. ReadInv /\ fd \in FDs /\ files[fd].pos \in Nat
      BY <2>2 DEF FilesInv, FsType
    <3>2. (\A t \in Clients : ~Reads(t, fd)) => ~(files[fd].pos < Len(delivered[fd]))
      BY <3>1 DEF ReadInv
    <3> QED
      BY <2>2, <3>1, <3>2 DEF ReadInv, Reads, FAt, Upto
  <2> QED
    BY <2>1, <2>2 DEF ReadsInOrder
<1> QED
  BY <1>1, FilesAlways, PTL

-----------------------------------------------------------------------------
(* System memory.  Nothing is given back, so the free list has one block   *)
(* at most: it begins where the last region ended and reaches to the end.  *)
LEMMA Division ==
    ASSUME NEW a \in Nat, NEW P \in Nat, P >= 12
    PROVE  \E d \in Nat, c \in Nat : c = a % P /\ c < P /\ a = d * P + c
<1>1. /\ a \div P \in Nat /\ a % P \in 0 .. P - 1 /\ a = P * (a \div P) + (a % P)
  BY Z3
<1>2. PICK d \in Nat : d = a \div P
  BY <1>1
<1>3. PICK c \in Nat : c = a % P /\ c < P
  BY <1>1
<1>4. a = d * P + c
  BY <1>1, <1>2, <1>3, Z3
<1> QED
  BY <1>3, <1>4

LEMMA PageSizes ==
    /\ L4_PAGESIZE \in Nat /\ L4_PAGESIZE >= 12
    /\ \A n \in {SYSTEM_MEMORY_SIZE, CONFIG_KDYNAMIC_MEMORY, UserSize} :
           n \in Nat /\ n >= 12 /\ \E d \in Nat : n = d * L4_PAGESIZE
<1>1. L4_PAGESIZE \in Nat /\ L4_PAGESIZE >= 12
  BY SysMemAssumption DEF HEADER_SIZE
<1>2. ASSUME NEW n \in {SYSTEM_MEMORY_SIZE, CONFIG_KDYNAMIC_MEMORY, UserSize}
      PROVE  n \in Nat /\ n >= 12 /\ \E d \in Nat : n = d * L4_PAGESIZE
  <2>1. n \in Nat /\ n # 0 /\ n % L4_PAGESIZE = 0
    BY SysMemAssumption
  <2>2. PICK d \in Nat : n = d * L4_PAGESIZE
    BY <1>1, <2>1, Division
  <2>3. PICK P \in Nat : P = L4_PAGESIZE
    BY <1>1
  <2>4. d # 0
    BY <2>1, <2>2, <2>3, Z3
  <2>5. d * P >= P
    BY <2>4, Z3
  <2> QED
    BY <1>1, <2>1, <2>2, <2>3, <2>5
<1> QED
  BY <1>1, <1>2

(* l4_trunc_page gives the last page that begins at the address or below.  *)
LEMMA TruncPage ==
    ASSUME NEW a \in Nat
    PROVE  /\ l4_trunc_page(a) \in Nat /\ l4_trunc_page(a) <= a
           /\ \E m \in Nat : l4_trunc_page(a) = m * L4_PAGESIZE
           /\ \A m \in Nat : m * L4_PAGESIZE <= a => m * L4_PAGESIZE <= l4_trunc_page(a)
<1>1. PICK P \in Nat : P = L4_PAGESIZE /\ P >= 12
  BY PageSizes
<1>3. PICK d \in Nat, c \in Nat : c = a % P /\ c < P /\ a = d * P + c
  BY <1>1, Division
<1>4. l4_trunc_page(a) = a - c
  BY <1>1, <1>3 DEF l4_trunc_page
<1>5. a - c = d * P /\ d * P \in Nat
  BY <1>3, Z3
<1>6. ASSUME NEW m \in Nat, m * P <= a PROVE m * P <= d * P
  <2> SUFFICES ASSUME m > d PROVE FALSE
    BY <1>1, Z3
  <2>1. m * P >= (d + 1) * P
    BY <1>1, Z3
  <2>2. (d + 1) * P = d * P + P
    BY <1>1, Z3
  <2> QED
    BY <1>1, <1>3, <1>5, <1>6, <2>1, <2>2, Z3
<1>7. l4_trunc_page(a) = d * P
  BY <1>4, <1>5
<1>8. d * P \in Nat /\ d * P <= a
  BY <1>3, <1>5
<1>9. \A m \in Nat : m * L4_PAGESIZE <= a => m * L4_PAGESIZE <= l4_trunc_page(a)
  BY <1>1, <1>5, <1>6, <1>7
<1> QED
  BY <1>1, <1>7, <1>8, <1>9

(* The search ends at once: at the block, or behind it.                    *)
LEMMA FirstFitHead ==
    ASSUME NEW bs, IsFiniteSet(DOMAIN bs), NEW h, h = NIL \/ (h \in DOMAIN bs /\ bs[h].free = NIL),
           NEW size
    PROVE  FirstFit(bs, h, size) = IF h = NIL \/ bs[h].size >= size THEN h ELSE NIL
<1> DEFINE N == Cardinality(DOMAIN bs)
           Step(g) == [i \in 0 .. N |->
                          IF i = 0 THEN h
                          ELSE IF g[i - 1] = NIL \/ bs[g[i - 1]].size >= size THEN g[i - 1]
                          ELSE bs[g[i - 1]].free]
           node == CHOOSE g : g = Step(g)
           x == IF h = NIL \/ bs[h].size >= size THEN h ELSE NIL
           v == [i \in 0 .. N |-> IF i = 0 THEN h ELSE x]
<1>1. FirstFit(bs, h, size) = node[N]
  BY DEF FirstFit
<1>2. N \in Nat /\ (h # NIL => N >= 1)
  <2>1. N \in Nat /\ (DOMAIN bs # {} => N # 0)
    BY FS_CardinalityType, FS_EmptySet
  <2> QED
    BY <2>1
<1> HIDE DEF N
<1>3. \A i \in 0 .. N : v[i] = Step(v)[i]
  BY <1>2
<1>4. v = Step(v)
  BY <1>3
<1>5. node = Step(node)
  <2> HIDE DEF Step, v
  <2> QED
    BY <1>4
<1>6. \A i \in 0 .. N : node[i] = v[i]
  <2> DEFINE T == {i \in Nat : i \in 0 .. N => node[i] = v[i]}
  <2> HIDE DEF node, v
  <2>1. 0 \in T
    BY <1>2, <1>4, <1>5
  <2>2. ASSUME NEW i \in Nat, i \in T PROVE i + 1 \in T
    <3> SUFFICES ASSUME i + 1 \in 0 .. N PROVE node[i + 1] = v[i + 1]
      OBVIOUS
    <3>1. i \in 0 .. N /\ node[i] = v[i]
      BY <1>2, <2>2
    <3> QED
      BY <1>2, <1>4, <1>5, <3>1
  <2>3. T = Nat
    <3> HIDE DEF T
    <3>1. T \in SUBSET Nat
      BY DEF T
    <3>2. \A n \in Nat : n \in T => n + 1 \in T
      BY <2>2
    <3>3. SUFFICES ASSUME Nat \ T # {} PROVE FALSE
      BY <3>1
    <3>4. PICK n \in Nat \ T : \A m \in Nat \ T : n <= m
      BY <3>3, LeastNumber
    <3>5. n - 1 \in Nat /\ n - 1 \in T
      BY <2>1, <3>4
    <3> QED
      BY <3>2, <3>4, <3>5
  <2> QED
    BY <1>2, <2>3
<1> QED
  <2> HIDE DEF node
  <2> QED
    BY <1>1, <1>2, <1>6
(* The free list holds the last block, or nothing.                         *)
OneFree(bs, h) ==
    /\ IsFiniteSet(DOMAIN bs)
    /\ h # NIL => /\ h \in DOMAIN bs /\ h \in Nat /\ bs[h].free = NIL
                  /\ bs[h].size = SYSTEM_MEMORY_SIZE - h - HEADER_SIZE
                  /\ \A a \in DOMAIN bs : a \in Nat /\ a <= h

(* A region is cut off the free block, which ends or becomes shorter.      *)
CutOff(r, bs, h, asked) ==
    /\ r.ptr = h + HEADER_SIZE /\ r.ptr + asked <= SYSTEM_MEMORY_SIZE
    /\ \/ r.head = NIL /\ DOMAIN r.blocks = DOMAIN bs
       \/ /\ r.head = r.ptr + asked /\ DOMAIN r.blocks = DOMAIN bs \cup {r.head}
          /\ r.blocks[r.head].free = NIL
          /\ r.blocks[r.head].size = SYSTEM_MEMORY_SIZE - r.head - HEADER_SIZE

LEMMA AllocCuts ==
    ASSUME NEW bs, NEW h, OneFree(bs, h), NEW asked \in Nat, asked >= 12
    PROVE  /\ h # NIL /\ bs[h].size >= asked =>
                  CutOff(alloc_region(bs, h, asked), bs, h, asked)
           /\ alloc_region(bs, h, asked).ptr # NIL => h # NIL /\ bs[h].size >= asked
<1>1. SYSTEM_MEMORY_SIZE \in Nat
  BY PageSizes
<1>2. FirstFit(bs, h, asked) = IF h = NIL \/ bs[h].size >= asked THEN h ELSE NIL
  BY FirstFitHead DEF OneFree
<1>3. (IF asked < MIN_SIZE THEN MIN_SIZE ELSE asked) = asked
  BY DEF MIN_SIZE
<1>4. ASSUME alloc_region(bs, h, asked).ptr # NIL PROVE h # NIL /\ bs[h].size >= asked
  <2>1. alloc_region(bs, h, asked).ptr =
            IF FirstFit(bs, h, asked) = NIL THEN NIL ELSE FirstFit(bs, h, asked) + HEADER_SIZE
    BY <1>3 DEF alloc_region
  <2> QED
    BY <1>2, <1>4, <2>1
<1>5. ASSUME h # NIL, bs[h].size >= asked
      PROVE  CutOff(alloc_region(bs, h, asked), bs, h, asked)
  <2> DEFINE r == alloc_region(bs, h, asked)
             rest == bs[h].size - asked - HEADER_SIZE
             new == h + HEADER_SIZE + asked
  <2>1. FirstFit(bs, h, asked) = h
    BY <1>2, <1>5
  <2>2. /\ r.ptr = h + HEADER_SIZE
        /\ r.head = IF rest >= MIN_SIZE THEN new ELSE bs[h].free
        /\ rest < MIN_SIZE => DOMAIN r.blocks = DOMAIN bs
        /\ ~(rest < MIN_SIZE) => /\ DOMAIN r.blocks = DOMAIN bs \cup {new}
                                 /\ r.blocks[new].free = bs[h].free
                                 /\ r.blocks[new].size = rest
    <3>1. r.ptr = h + HEADER_SIZE /\ r.head = IF rest >= MIN_SIZE THEN new ELSE bs[h].free
      BY <1>3, <1>5, <2>1 DEF alloc_region
    <3>2. ASSUME rest < MIN_SIZE PROVE DOMAIN r.blocks = DOMAIN bs
      BY <1>3, <1>5, <2>1, <3>2 DEF alloc_region, Unlink
    <3>3. ASSUME ~(rest < MIN_SIZE) PROVE DOMAIN r.blocks = DOMAIN bs \cup {new}
      BY <1>3, <1>5, <2>1, <3>3 DEF alloc_region
    <3>4. ASSUME ~(rest < MIN_SIZE) PROVE r.blocks[new].free = bs[h].free
      BY <1>3, <1>5, <2>1, <3>4 DEF alloc_region
    <3>5. ASSUME ~(rest < MIN_SIZE) PROVE r.blocks[new].size = rest
      BY <1>3, <1>5, <2>1, <3>5 DEF alloc_region
    <3> QED
      BY <3>1, <3>2, <3>3, <3>4, <3>5
  <2>3. /\ h \in DOMAIN bs /\ h \in Nat /\ bs[h].free = NIL
        /\ bs[h].size = SYSTEM_MEMORY_SIZE - h - HEADER_SIZE
    BY <1>5 DEF OneFree
  <2>4. rest \in Int /\ new \in Nat /\ r.ptr + asked = new
    BY <1>1, <2>2, <2>3 DEF HEADER_SIZE
  <2>5. new <= SYSTEM_MEMORY_SIZE
    BY <1>1, <1>5, <2>3 DEF HEADER_SIZE
  <2>6. CASE rest < MIN_SIZE
    <3>1. r.head = NIL /\ DOMAIN r.blocks = DOMAIN bs
      BY <2>2, <2>3, <2>4, <2>6 DEF MIN_SIZE
    <3> QED
      BY <2>2, <2>4, <2>5, <3>1 DEF CutOff
  <2>7. CASE ~(rest < MIN_SIZE)
    <3>1. r.head = new /\ DOMAIN r.blocks = DOMAIN bs \cup {new}
      BY <2>2, <2>4, <2>7 DEF MIN_SIZE
    <3>3. r.blocks[new].free = NIL /\ r.blocks[new].size = rest
      BY <2>2, <2>3, <2>7
    <3>4. rest = SYSTEM_MEMORY_SIZE - new - HEADER_SIZE
      BY <1>1, <2>3 DEF HEADER_SIZE
    <3> QED
      BY <2>2, <2>4, <2>5, <3>1, <3>3, <3>4 DEF CutOff
  <2> QED
    BY <2>6, <2>7
<1> QED
  BY <1>4, <1>5

SysMemInv ==
    /\ OneFree(blocks, head)
    /\ memory_pool = HEADER_SIZE
    /\ head # NIL => head >= CONFIG_KDYNAMIC_MEMORY
    /\ regions \subseteq Nat /\ IsFiniteSet(regions)
    /\ \A r \in regions : \E m \in Nat : r = m * L4_PAGESIZE
    /\ RegionsDisjoint

LEMMA SysMemInit == YInit => SysMemInv
<1> SUFFICES ASSUME YInit PROVE SysMemInv
  OBVIOUS
<1> DEFINE r == alloc_region(init_vmm, 0, CONFIG_KDYNAMIC_MEMORY)
<1>1. /\ blocks = r.blocks /\ head = r.head /\ memory_pool = r.ptr /\ regions = {}
  BY DEF YInit
<1>2. /\ SYSTEM_MEMORY_SIZE \in Nat /\ CONFIG_KDYNAMIC_MEMORY \in Nat
      /\ CONFIG_KDYNAMIC_MEMORY >= 12 /\ CONFIG_KDYNAMIC_MEMORY + 12 < SYSTEM_MEMORY_SIZE
  BY PageSizes, SysMemAssumption DEF HEADER_SIZE
<1>3. /\ DOMAIN init_vmm = {0} /\ init_vmm[0].free = NIL
      /\ init_vmm[0].size = SYSTEM_MEMORY_SIZE - HEADER_SIZE
  <2>1. DOMAIN init_vmm = {0} /\ init_vmm[0] = NewBlock(SYSTEM_MEMORY_SIZE - HEADER_SIZE)
    BY DEF init_vmm
  <2> QED
    BY <2>1 DEF NewBlock
<1>4. OneFree(init_vmm, 0)
  <2>1. IsFiniteSet(DOMAIN init_vmm)
    BY <1>3, FS_Singleton
  <2>2. init_vmm[0].size = SYSTEM_MEMORY_SIZE - 0 - HEADER_SIZE
    BY <1>2, <1>3 DEF HEADER_SIZE
  <2> QED
    BY <1>3, <2>1, <2>2 DEF OneFree
<1>5. 0 # NIL /\ init_vmm[0].size >= CONFIG_KDYNAMIC_MEMORY
  BY <1>2, <1>3 DEF NIL, HEADER_SIZE
<1>6. CutOff(r, init_vmm, 0, CONFIG_KDYNAMIC_MEMORY)
  BY <1>2, <1>4, <1>5, AllocCuts
<1> HIDE DEF r
<1>7. memory_pool = HEADER_SIZE /\ (head # NIL => head >= CONFIG_KDYNAMIC_MEMORY)
  BY <1>1, <1>2, <1>6 DEF CutOff, HEADER_SIZE
<1>8. CASE head = NIL /\ DOMAIN blocks = {0}
  <2>1. IsFiniteSet(DOMAIN blocks) /\ Cardinality(DOMAIN blocks) = 1
    BY <1>8, FS_Singleton
  <2>2. IsFiniteSet(regions) /\ Cardinality(regions) = 0
    BY <1>1, FS_EmptySet
  <2> QED
    BY <1>1, <1>7, <1>8, <2>1, <2>2 DEF SysMemInv, OneFree, RegionsDisjoint
<1>9. CASE /\ head = CONFIG_KDYNAMIC_MEMORY + 12 /\ DOMAIN blocks = {0, head}
           /\ blocks[head].free = NIL /\ blocks[head].size = SYSTEM_MEMORY_SIZE - head - HEADER_SIZE
  <2>1. IsFiniteSet(DOMAIN blocks) /\ Cardinality(DOMAIN blocks) = 2
    <3>1. IsFiniteSet({0}) /\ Cardinality({0}) = 1
      BY FS_Singleton
    <3>2. head \notin {0} /\ DOMAIN blocks = {0} \cup {head}
      BY <1>2, <1>9
    <3> QED
      BY <3>1, <3>2, FS_AddElement
  <2>2. IsFiniteSet(regions) /\ Cardinality(regions) = 0
    BY <1>1, FS_EmptySet
  <2>3. head # NIL /\ OneFree(blocks, head)
    BY <1>2, <1>9, <2>1 DEF OneFree, NIL
  <2> QED
    BY <1>1, <1>7, <2>1, <2>2, <2>3 DEF SysMemInv, RegionsDisjoint
<1> QED
  BY <1>1, <1>2, <1>3, <1>6, <1>8, <1>9 DEF CutOff, HEADER_SIZE

LEMMA SysMemNext == SysMemInv /\ [ualloc_sys]_yvars => SysMemInv'
<1> SUFFICES ASSUME SysMemInv, ualloc_sys, ~UNCHANGED <<blocks, head, memory_pool, regions>>
             PROVE  SysMemInv'
  <2>1. SysMemInv /\ UNCHANGED <<blocks, head, memory_pool, regions>> => SysMemInv'
    BY DEF SysMemInv, OneFree, RegionsDisjoint
  <2>2. UNCHANGED yvars => UNCHANGED <<blocks, head, memory_pool, regions>>
    BY DEF yvars
  <2> QED
    BY <2>1, <2>2
<1> DEFINE r == alloc_region(blocks, head, UserSize)
           base == l4_trunc_page(r.ptr)
<1>1. /\ r.ptr # NIL /\ blocks' = Cleared(r.blocks, base, UserSize) /\ head' = r.head
      /\ regions' = regions \cup {base} /\ memory_pool' = memory_pool
  BY DEF ualloc_sys
<1>2. /\ UserSize \in Nat /\ UserSize >= 12
      /\ SYSTEM_MEMORY_SIZE \in Nat /\ CONFIG_KDYNAMIC_MEMORY \in Nat
      /\ L4_PAGESIZE \in Nat
  BY PageSizes
<1>3. CutOff(r, blocks, head, UserSize) /\ head # NIL
  BY <1>1, <1>2, AllocCuts DEF SysMemInv
<1> HIDE DEF r
<1>4. /\ head \in Nat /\ head \in DOMAIN blocks /\ IsFiniteSet(DOMAIN blocks)
      /\ \A a \in DOMAIN blocks : a \in Nat /\ a <= head
      /\ head >= CONFIG_KDYNAMIC_MEMORY /\ memory_pool = 12
  BY <1>3 DEF SysMemInv, OneFree, HEADER_SIZE
<1>5. r.ptr = head + 12 /\ r.ptr \in Nat /\ r.ptr + UserSize <= SYSTEM_MEMORY_SIZE
  BY <1>3, <1>4 DEF CutOff, HEADER_SIZE
<1>6. base \in Nat /\ base <= r.ptr /\ \E m \in Nat : base = m * L4_PAGESIZE
  BY <1>5, TruncPage
<1>7. ASSUME NEW m \in Nat, m * L4_PAGESIZE <= r.ptr PROVE m * L4_PAGESIZE <= base
  BY <1>5, <1>7, TruncPage
<1>8. CONFIG_KDYNAMIC_MEMORY <= base
  <2>1. PICK m \in Nat : CONFIG_KDYNAMIC_MEMORY = m * L4_PAGESIZE
    BY PageSizes
  <2>2. m * L4_PAGESIZE <= r.ptr
    BY <1>2, <1>4, <1>5, <2>1
  <2> QED
    BY <1>7, <2>1, <2>2
<1>9. ASSUME NEW s \in regions PROVE s \in Nat /\ s + UserSize <= base
  <2>1. PICK m \in Nat : s = m * L4_PAGESIZE
    BY DEF SysMemInv
  <2>2. PICK u \in Nat : UserSize = u * L4_PAGESIZE
    BY PageSizes
  <2>3. PICK P \in Nat : P = L4_PAGESIZE
    BY <1>2
  <2>4. m * P + u * P = (m + u) * P /\ m + u \in Nat
    BY Z3
  <2>5. s + UserSize = (m + u) * L4_PAGESIZE
    BY <2>1, <2>2, <2>3, <2>4
  <2>6. s \in Nat /\ head >= s + UserSize
    BY <1>3 DEF SysMemInv, RegionsDisjoint
  <2>7. s + UserSize <= r.ptr
    BY <1>2, <1>4, <1>5, <2>6
  <2> QED
    BY <1>7, <2>4, <2>5, <2>6, <2>7
<1> HIDE DEF base
<1>10. /\ base \notin regions /\ IsFiniteSet(regions) /\ regions \subseteq Nat
  BY <1>2, <1>6, <1>9 DEF SysMemInv
<1>11. IsFiniteSet(regions') /\ Cardinality(regions') = Cardinality(regions) + 1
  BY <1>1, <1>10, FS_AddElement
<1>12. /\ DOMAIN blocks' = DOMAIN r.blocks
       /\ \A a \in DOMAIN r.blocks : ~(a < base + UserSize) => blocks'[a] = r.blocks[a]
  BY <1>1 DEF Cleared
<1>13. Cardinality(DOMAIN blocks) = Cardinality(regions) + 2 /\ Cardinality(regions) \in Nat
  BY <1>3, <1>10, FS_CardinalityType DEF SysMemInv, RegionsDisjoint
<1>14. /\ \A s \in regions' : /\ s \in Nat /\ s + UserSize <= SYSTEM_MEMORY_SIZE
                              /\ s + UserSize <= r.ptr + UserSize
                              /\ s >= CONFIG_KDYNAMIC_MEMORY
                              /\ \E m \in Nat : s = m * L4_PAGESIZE
       /\ \A s, q \in regions' : s < q => s + UserSize <= q
  <2>1. ASSUME NEW s \in regions
        PROVE  /\ s >= CONFIG_KDYNAMIC_MEMORY /\ \E m \in Nat : s = m * L4_PAGESIZE
    <3>1. s \in Nat /\ s >= memory_pool + CONFIG_KDYNAMIC_MEMORY - HEADER_SIZE
      BY <1>10 DEF SysMemInv, RegionsDisjoint
    <3>2. \E m \in Nat : s = m * L4_PAGESIZE
      BY DEF SysMemInv
    <3> QED
      BY <1>2, <1>4, <3>1, <3>2 DEF HEADER_SIZE
  <2>2. \A s, q \in regions : s < q => s + UserSize <= q
    BY DEF SysMemInv, RegionsDisjoint
  <2>3. ASSUME NEW s \in regions
        PROVE  /\ s \in Nat /\ s + UserSize <= SYSTEM_MEMORY_SIZE /\ s + UserSize <= r.ptr + UserSize
               /\ s < base /\ ~(base < s)
    BY <1>2, <1>5, <1>6, <1>9
  <2>4. /\ base + UserSize <= SYSTEM_MEMORY_SIZE /\ base + UserSize <= r.ptr + UserSize
        /\ ~(base < base)
    BY <1>2, <1>5, <1>6
  <2>5. \A s, q \in regions' : s < q => s + UserSize <= q
    BY <1>1, <1>9, <2>2, <2>3, <2>4
  <2> QED
    BY <1>1, <1>6, <1>8, <2>1, <2>3, <2>4, <2>5
<1>15. CASE r.head = NIL /\ DOMAIN r.blocks = DOMAIN blocks
  <2>1. head' = NIL /\ Cardinality(DOMAIN blocks') = Cardinality(regions') + 1
    BY <1>1, <1>11, <1>12, <1>13, <1>15
  <2>2. RegionsDisjoint'
    BY <1>1, <1>2, <1>4, <1>14, <2>1 DEF RegionsDisjoint, HEADER_SIZE
  <2>3. OneFree(blocks', head')
    BY <1>4, <1>12, <1>15, <2>1 DEF OneFree
  <2> QED
    BY <1>1, <1>4, <1>11, <1>14, <2>1, <2>2, <2>3 DEF SysMemInv, HEADER_SIZE
<1>16. CASE /\ r.head = r.ptr + UserSize /\ DOMAIN r.blocks = DOMAIN blocks \cup {r.head}
            /\ r.blocks[r.head].free = NIL
            /\ r.blocks[r.head].size = SYSTEM_MEMORY_SIZE - r.head - HEADER_SIZE
  <2>1. head' = r.ptr + UserSize /\ head' \in Nat /\ head' > head /\ head' # NIL
    BY <1>1, <1>2, <1>4, <1>5, <1>16 DEF NIL
  <2>2. head' \notin DOMAIN blocks /\ DOMAIN blocks' = DOMAIN blocks \cup {head'}
    BY <1>1, <1>4, <1>12, <1>16, <2>1
  <2>3. /\ IsFiniteSet(DOMAIN blocks')
        /\ Cardinality(DOMAIN blocks') = Cardinality(DOMAIN blocks) + 1
    BY <1>4, <2>2, FS_AddElement
  <2>4. Cardinality(DOMAIN blocks') = Cardinality(regions') + 2
    BY <1>11, <1>13, <2>3
  <2>5. blocks'[head'] = r.blocks[r.head]
    BY <1>1, <1>2, <1>5, <1>6, <1>12, <1>16, <2>1
  <2>6. OneFree(blocks', head')
    BY <1>1, <1>4, <1>16, <2>1, <2>2, <2>3, <2>5 DEF OneFree
  <2>7. RegionsDisjoint'
    BY <1>1, <1>2, <1>4, <1>14, <2>1, <2>4 DEF RegionsDisjoint, HEADER_SIZE
  <2>8. head' >= CONFIG_KDYNAMIC_MEMORY
    BY <1>2, <1>4, <2>1
  <2> QED
    BY <1>1, <1>4, <1>11, <1>14, <2>6, <2>7, <2>8 DEF SysMemInv, HEADER_SIZE
<1> QED
  BY <1>3, <1>15, <1>16 DEF CutOff

(* For any page size and any sizes of the memory, the kernel's pool and    *)
(* the regions, in whole pages: what ualloc_sys hands out is disjoint and  *)
(* inside the memory, although it is not what alloc_region reserved but    *)
(* the page that begins below it, and the header of the free block is      *)
(* never cleared.                                                          *)
THEOREM RegionsDisjointHolds == YSpec => []RegionsDisjoint
<1>1. SysMemInv => RegionsDisjoint
  BY DEF SysMemInv
<1> QED
  BY <1>1, SysMemInit, SysMemNext, PTL DEF YSpec

-----------------------------------------------------------------------------
(* System calls.  A stub is right if the kernel has a function of its name *)
(* that takes as many arguments as the stub passes.                        *)
RightStub(e) == e[1] \in Names /\ e[1] # "none" /\ e[2] = Params(e[1]) /\ e[2] \in 0 .. 6

LEMMA NameSet == Names = {
    "exit", "open", "close", "read", "write", "lseek", "ioctl", "mmap",
    "munmap", "pthread_exit", "pthread_create", "pthread_join",
    "pthread_detach", "pthread_cleanup_pop", "pthread_cleanup_push",
    "pthread_once", "pthread_cancel", "pthread_setcancelstate",
    "pthread_setcanceltype", "pthread_self", "pthread_getschedparam",
    "pthread_setschedparam", "pthread_mutex_init", "pthread_mutex_destroy",
    "pthread_mutex_lock", "pthread_mutex_timedlock", "pthread_mutex_trylock",
    "pthread_mutex_unlock", "pthread_cond_init", "pthread_cond_destroy",
    "pthread_cond_signal", "pthread_cond_broadcast", "pthread_cond_wait",
    "pthread_cond_timedwait", "pthread_key_create", "pthread_setspecific",
    "pthread_getspecific", "pthread_key_delete", "pthread_yield", "time",
    "gettimeofday", "usleep", "nanosleep", "clock_settime", "clock_gettime",
    "clock_getres", "sigaction", "sigsuspend", "sigwait", "sigpending",
    "pthread_kill", "pthread_sigmask", "_get_errno", "_set_errno",
    "install_irq_handler", "install_trap_handler", "hw_disable_irq",
    "hw_enable_irq", "hw_ack_irq", "hw_end_irq", "hw_cli", "hw_sti",
    "hw_restore_flags", "hw_save_flags", "hw_save_flags_and_cli", "ualloc",
    "ufree", "sem_init", "sem_destroy", "sem_getvalue", "sem_wait",
    "sem_trywait", "sem_timedwait", "sem_post", "pthread_delete_np",
    "pthread_setperiod_np", "pthread_getperiod_np", "iopl", "timer_create",
    "timer_delete", "timer_settime", "timer_gettime", "timer_getoverrun",
    "pthread_create_idle", "pthread_create2"}
BY DEF Names, NR_SYSCALLS, syscall_nr

LEMMA StubsRight == \A e \in Stubs : RightStub(e)
<1>1. \A e \in stubs_create : RightStub(e)
  BY NameSet DEF stubs_create, RightStub, Params
<1>2. \A e \in stubs_cancel : RightStub(e)
  BY NameSet DEF stubs_cancel, RightStub, Params
<1>3. \A e \in stubs_mutex : RightStub(e)
  BY NameSet DEF stubs_mutex, RightStub, Params
<1>4. \A e \in stubs_cond : RightStub(e)
  BY NameSet DEF stubs_cond, RightStub, Params
<1>5. \A e \in stubs_key : RightStub(e)
  BY NameSet DEF stubs_key, RightStub, Params
<1>6. \A e \in stubs_sem : RightStub(e)
  BY NameSet DEF stubs_sem, RightStub, Params
<1>7. \A e \in stubs_signal : RightStub(e)
  BY NameSet DEF stubs_signal, RightStub, Params
<1>8. \A e \in stubs_irqs : RightStub(e)
  BY NameSet DEF stubs_irqs, RightStub, Params
<1>9. \A e \in stubs_rtl : RightStub(e)
  BY NameSet DEF stubs_rtl, RightStub, Params
<1>10. \A e \in stubs_time : RightStub(e)
  BY NameSet DEF stubs_time, RightStub, Params
<1>11. \A e \in stubs_mman : RightStub(e)
  BY NameSet DEF stubs_mman, RightStub, Params
<1>12. \A e \in stubs_io : RightStub(e)
  BY NameSet DEF stubs_io, RightStub, Params
<1>13. \A e \in stubs_errno : RightStub(e)
  BY NameSet DEF stubs_errno, RightStub, Params
<1>14. \A e \in stubs_exit : RightStub(e)
  BY NameSet DEF stubs_exit, RightStub, Params
<1> QED
  BY <1>1, <1>2, <1>3, <1>4, <1>5, <1>6, <1>7, <1>8, <1>9, <1>10, <1>11, <1>12, <1>13, <1>14 DEF Stubs

(* Of a name with a stub: its number finds the function of that name, and  *)
(* the code of the call gives back both the number and the count.          *)
LEMMA StubCode ==
    ASSUME NEW name, In(name, Stubs)
    PROVE  LET n == Of(name, Stubs)
               code == ertl_mux_code(n, nr_of(name))
           IN  /\ n = Params(name) /\ n \in 0 .. 6 /\ name # "none"
               /\ code \div 2^24 = n /\ syscall_table[(code % 2^16) + 1] = name
<1> DEFINE n == Of(name, Stubs)
           o == nr_of(name)
<1>1. PICK e \in Stubs : e = (CHOOSE x \in Stubs : x[1] = name) /\ e[1] = name
  BY DEF In
<1>2. n = e[2]
  BY <1>1 DEF Of
<1>3. n = Params(name) /\ n \in 0 .. 6 /\ name # "none" /\ name \in Names
  BY <1>1, <1>2, StubsRight DEF RightStub
<1>4. PICK i \in 1 .. 85 : i = (CHOOSE x \in 1 .. 85 : syscall_nr[x] = name) /\ syscall_nr[i] = name
  BY <1>3 DEF Names, NR_SYSCALLS
<1>5. o = i - 1
  BY <1>4 DEF nr_of, NR_SYSCALLS
<1>6. syscall_table[i] = name
  <2>1. syscall_table = syscall_nr
    BY DEF syscall_table, syscall_nr
  <2> QED
    BY <1>4, <2>1
<1> HIDE DEF n, o
<1>7. o \in 0 .. 84 /\ i = o + 1
  BY <1>5
<1>8. 2^24 = 16777216 /\ 2^16 = 65536
  BY SMT
<1>9. ertl_mux_code(n, o) = n * 16777216 + o
  <2>1. o % 65536 = o
    BY <1>7, SMT
  <2>2. ertl_mux_code(n, o) = n * 2^24 + (o % 2^16)
    BY SMT DEF ertl_mux_code
  <2> QED
    BY <1>8, <2>1, <2>2, SMT
<1>10. (n * 16777216 + o) \div 16777216 = n /\ (n * 16777216 + o) % 65536 = o
  BY <1>3, <1>7, SMT
<1> QED
  BY <1>3, <1>6, <1>7, <1>8, <1>9, <1>10, SMT DEF n, o

(* What a new thread begins with, if fr holds its stack and its call.      *)
BeginsRight(fr, f) ==
    LET a == fr.of[2]
        r == f.r
    IN  /\ f.sp = TOP /\ f.saved_state = USER_MODE /\ f.ip = a[3]
        /\ IF fr.of[1] = "pthread_create" THEN r[0] = a[4] /\ r[1] = a[5] ELSE r[0] = a[4]

LEMMA FirstRegisters ==
    ASSUME NEW x, NEW y, NEW z
    PROVE  /\ LET f == context_switch_to(setup_stack(x, y, z))
              IN  f.sp = TOP /\ f.saved_state = USER_MODE /\ f.ip = x /\ f.r[0] = y /\ f.r[1] = z
           /\ LET f == context_switch_to(setup_stack2(x, y))
              IN  f.sp = TOP /\ f.saved_state = USER_MODE /\ f.ip = x /\ f.r[0] = y
<1>1. ASSUME NEW s, NEW f, f = context_switch_to(s)
      PROVE  /\ f.sp = s[17] /\ f.saved_state = s[2] /\ f.ip = s[1]
             /\ f.r[0] = s[16] /\ f.r[1] = s[15]
  BY <1>1 DEF context_switch_to
<1> DEFINE A == <<x, USER_MODE, 0>>
<1>3. ASSUME NEW n \in {11, 12}, NEW B \in Seq({x, y, z, TOP})
      PROVE  LET s == A \o Zeros(n) \o B
             IN  /\ s[1] = x /\ s[2] = USER_MODE
                 /\ \A i \in 1 .. Len(B) : s[3 + n + i] = B[i]
  <2>1. Zeros(n) \in Seq({x, y, z, TOP, 0, USER_MODE}) /\ Len(Zeros(n)) = n
    BY DEF Zeros
  <2>2. A \in Seq({x, y, z, TOP, 0, USER_MODE}) /\ Len(A) = 3
    OBVIOUS
  <2>3. B \in Seq({x, y, z, TOP, 0, USER_MODE})
    OBVIOUS
  <2> DEFINE Z == Zeros(n)
  <2> HIDE DEF Z
  <2>4. /\ A \o Z \in Seq({x, y, z, TOP, 0, USER_MODE}) /\ Len(A \o Z) = 3 + n
        /\ (A \o Z)[1] = A[1] /\ (A \o Z)[2] = A[2]
    BY <2>1, <2>2 DEF Z
  <2> QED
    BY <2>1, <2>2, <2>3, <2>4 DEF Z
<1>4. PICK s : s = setup_stack(x, y, z)
  OBVIOUS
<1>5. s[1] = x /\ s[2] = USER_MODE /\ s[15] = z /\ s[16] = y /\ s[17] = TOP
  <2> DEFINE B == <<z, y, TOP>>
  <2>1. B \in Seq({x, y, z, TOP}) /\ Len(B) = 3 /\ B[1] = z /\ B[2] = y /\ B[3] = TOP
    OBVIOUS
  <2>2. s = A \o Zeros(11) \o B
    BY <1>4 DEF setup_stack
  <2> HIDE DEF A, B
  <2>3. /\ s[1] = x /\ s[2] = USER_MODE /\ \A i \in 1 .. Len(B) : s[3 + 11 + i] = B[i]
    BY <1>3, <2>1, <2>2
  <2>4. s[3 + 11 + 1] = B[1] /\ s[3 + 11 + 2] = B[2] /\ s[3 + 11 + 3] = B[3]
    BY <2>1, <2>3
  <2> QED
    BY <2>1, <2>3, <2>4
<1>6. PICK q : q = setup_stack2(x, y)
  OBVIOUS
<1>7. q[1] = x /\ q[2] = USER_MODE /\ q[16] = y /\ q[17] = TOP
  <2> DEFINE B == <<y, TOP>>
  <2>1. B \in Seq({x, y, z, TOP}) /\ Len(B) = 2 /\ B[1] = y /\ B[2] = TOP
    OBVIOUS
  <2>2. q = A \o Zeros(12) \o B
    BY <1>6 DEF setup_stack2
  <2> HIDE DEF A, B
  <2>3. /\ q[1] = x /\ q[2] = USER_MODE /\ \A i \in 1 .. Len(B) : q[3 + 12 + i] = B[i]
    BY <1>3, <2>1, <2>2
  <2>4. q[3 + 12 + 1] = B[1] /\ q[3 + 12 + 2] = B[2]
    BY <2>1, <2>3
  <2> QED
    BY <2>1, <2>3, <2>4
<1> QED
  BY <1>1, <1>4, <1>5, <1>6, <1>7

(* The bookkeeping of thread t: what the kernel did is what the thread     *)
(* called, and a thread that did not begin has no call.                    *)
Booked(t) ==
    /\ mode[t] \in {"none", "new"} => call[t] = "none" /\ start[t] = <<>>
    /\ mode[t] \in {"func", "made", "hfunc"} => call[t] # "none"
    /\ mode[t] = "new" => BeginsRight(frame[t], context_switch_to(frame[t].stack))
    /\ start[t] # <<>> => BeginsRight(frame[t], start[t])
    /\ call[t] # "none" => did[t] = <<call[t], [i \in 1 .. Params(call[t]) |-> Arg(t, i)]>>

(* The registers of thread t: in a function of the kernel the saved ones   *)
(* are right but for r0, which awaits the result; on the way out they are  *)
(* what the thread has to find, and in user mode it has found them.        *)
RegsOwed(t, regs) == \A r \in Regs : r # 0 \/ sure[t] => regs[r] = owed[t][r]
RegsRight(t) ==
    /\ mode[t] \in {"func", "made", "hfunc"} =>
          owed[t][0] = Result(t) /\ \A r \in Regs \ {0} : uregs[t][r] = owed[t][r]
    /\ mode[t] \in {"irq", "sig", "hsig"} => RegsOwed(t, uregs[t])
    /\ running = t /\ mode[t] = "user" => RegsOwed(t, vregs)

CallType ==
    /\ DOMAIN vregs = Regs
    /\ \A f \in {uregs, kregs, owed} : DOMAIN f = Callers /\ \A t \in Callers : DOMAIN f[t] = Regs
    /\ \A f \in {mode, call, did, sure, frame, start} : DOMAIN f = Callers

CallInv == CallType /\ \A t \in Callers : Booked(t) /\ RegsRight(t)

(* What the steps leave alone of a thread keeps its part of the invariant. *)
LEMMA BookedKept ==
    ASSUME NEW t, Booked(t), mode'[t] = mode[t], call'[t] = call[t], did'[t] = did[t],
           frame'[t] = frame[t], start'[t] = start[t]
    PROVE  Booked(t)'
BY DEF Booked

LEMMA RegsKept ==
    ASSUME NEW t, RegsRight(t), mode'[t] = mode[t], uregs'[t] = uregs[t], owed'[t] = owed[t],
           sure'[t] = sure[t], running' # t \/ (running' = running /\ vregs' = vregs)
    PROVE  RegsRight(t)'
BY DEF RegsRight, RegsOwed

(* A step of the running thread that makes no other.                       *)
LEMMA OneServed ==
    ASSUME CallInv, NEW t \in Callers, running = t, running' = t, frame' = frame, start' = start,
           CallType', Booked(t)', RegsRight(t)',
           \A v \in Callers \ {t} : /\ mode'[v] = mode[v] /\ call'[v] = call[v] /\ did'[v] = did[v]
                                    /\ uregs'[v] = uregs[v] /\ owed'[v] = owed[v] /\ sure'[v] = sure[v]
    PROVE  CallInv'
<1>1. ASSUME NEW v \in Callers \ {t} PROVE Booked(v)' /\ RegsRight(v)'
  <2>1. Booked(v) /\ RegsRight(v) /\ running' # v
    BY DEF CallInv
  <2>2. Booked(v)'
    BY <2>1, BookedKept
  <2>3. RegsRight(v)'
    BY <2>1, RegsKept
  <2> QED
    BY <2>2, <2>3
<1> QED
  BY <1>1 DEF CallInv

LEMMA EntryServed ==
    ASSUME CallInv, NEW t \in Callers, Entry(t) PROVE CallInv'
<1> DEFINE args == [i \in 1 .. 6 |-> Arg(t, i)]
<1>1. PICK name \in Calls[t] :
          In(name, Stubs) /\ vregs' = L4ERTL_DO_SYSCALL(name, args) /\ call' = [call EXCEPT ![t] = name]
  BY DEF Entry
<1> DEFINE n == Of(name, Stubs)
           code == ertl_mux_code(n, nr_of(name))
<1>2. /\ mode[t] = "user" /\ mode' = [mode EXCEPT ![t] = "func"] /\ running = t /\ running' = t
      /\ frame' = frame /\ start' = start /\ kregs' = kregs /\ sure' = sure
      /\ uregs' = [uregs EXCEPT ![t] = vregs']
      /\ owed' = [owed EXCEPT ![t] = [vregs' EXCEPT ![0] = Result(t)]]
      /\ did' = [did EXCEPT ![t] = dispatch_syscalls(Nr(vregs'), Op(vregs'), uregs'[t])]
  BY DEF Entry, vcpu_to_pthread, vcpu_to_ptregs, Slot
<1>3. /\ n = Params(name) /\ n \in 0 .. 6 /\ name # "none"
      /\ code \div 2^24 = n /\ syscall_table[(code % 2^16) + 1] = name
  BY <1>1, StubCode
<1>4. vregs'[0] = code /\ DOMAIN vregs' = Regs /\ \A i \in 1 .. n : vregs'[i] = Arg(t, i)
  BY <1>1, <1>3 DEF L4ERTL_DO_SYSCALL, Regs
<1> HIDE DEF n, code, args
<1>5. PICK regs : regs = vregs'
  OBVIOUS
<1>6. DOMAIN regs = Regs /\ [i \in 1 .. n |-> regs[i]] = [i \in 1 .. Params(name) |-> Arg(t, i)]
  BY <1>3, <1>4, <1>5
<1>7. dispatch_syscalls(Nr(regs), Op(regs), regs) = <<name, [i \in 1 .. n |-> regs[i]]>>
  BY <1>3, <1>4, <1>5, SMT DEF dispatch_syscalls, Nr, Op
<1>8. /\ uregs' = [uregs EXCEPT ![t] = regs] /\ uregs'[t] = regs
      /\ owed' = [owed EXCEPT ![t] = [regs EXCEPT ![0] = Result(t)]]
  BY <1>2, <1>5 DEF CallInv, CallType
<1>9. did' = [did EXCEPT ![t] = <<name, [i \in 1 .. Params(name) |-> Arg(t, i)]>>]
  BY <1>2, <1>5, <1>6, <1>7, <1>8
<1>10. CallType'
  BY <1>1, <1>2, <1>5, <1>6, <1>8, <1>9 DEF CallInv, CallType
<1>11. Booked(t)'
  <2>1. /\ mode'[t] = "func" /\ call'[t] = name /\ start'[t] = start[t] /\ frame'[t] = frame[t]
        /\ did'[t] = <<name, [i \in 1 .. Params(name) |-> Arg(t, i)]>> /\ Booked(t)
    BY <1>1, <1>2, <1>9 DEF CallInv, CallType
  <2> QED
    BY <1>3, <2>1 DEF Booked
<1>12. RegsRight(t)'
  <2>1. /\ mode'[t] = "func" /\ uregs'[t] = regs /\ owed'[t] = [regs EXCEPT ![0] = Result(t)]
    BY <1>2, <1>8 DEF CallInv, CallType
  <2>2. owed'[t][0] = Result(t) /\ \A r \in Regs \ {0} : uregs'[t][r] = owed'[t][r]
    BY <1>6, <2>1 DEF Regs
  <2> QED
    BY <2>1, <2>2 DEF RegsRight
<1>13. ASSUME NEW v \in Callers \ {t}
       PROVE  /\ mode'[v] = mode[v] /\ call'[v] = call[v] /\ did'[v] = did[v]
              /\ uregs'[v] = uregs[v] /\ owed'[v] = owed[v] /\ sure'[v] = sure[v]
  BY <1>1, <1>2, <1>8, <1>9 DEF CallInv, CallType
<1> QED
  BY <1>2, <1>10, <1>11, <1>12, <1>13, OneServed

LEMMA InterruptServed ==
    ASSUME CallInv, NEW t \in Callers, Interrupt(t) PROVE CallInv'
<1>1. /\ mode[t] = "user" /\ mode' = [mode EXCEPT ![t] = "irq"] /\ running = t /\ running' = t
      /\ frame' = frame /\ start' = start /\ kregs' = kregs /\ call' = call /\ did' = did
      /\ vregs' = vregs /\ uregs' = [uregs EXCEPT ![t] = vregs]
      /\ owed' = [owed EXCEPT ![t] = vregs] /\ sure' = [sure EXCEPT ![t] = TRUE]
  BY DEF Interrupt, vcpu_to_pthread, vcpu_to_ptregs, Slot
<1>2. CallType'
  BY <1>1 DEF CallInv, CallType
<1>3. mode'[t] = "irq" /\ uregs'[t] = vregs /\ owed'[t] = vregs /\ Booked(t)
  BY <1>1 DEF CallInv, CallType
<1>4. Booked(t)'
  BY <1>1, <1>3 DEF Booked
<1>5. RegsRight(t)'
  BY <1>3 DEF RegsRight, RegsOwed
<1>6. ASSUME NEW v \in Callers \ {t}
      PROVE  /\ mode'[v] = mode[v] /\ call'[v] = call[v] /\ did'[v] = did[v]
             /\ uregs'[v] = uregs[v] /\ owed'[v] = owed[v] /\ sure'[v] = sure[v]
  BY <1>1 DEF CallInv, CallType
<1> QED
  BY <1>1, <1>2, <1>4, <1>5, <1>6, OneServed

(* A result goes to the saved r0 of the thread, or nowhere.                *)
OnlyResult(saved, t, name, result) ==
    /\ DOMAIN saved = Callers /\ \A v \in Callers : DOMAIN saved[v] = Regs
    /\ \A v \in Callers \ {t} : saved[v] = uregs[v]
    /\ \A r \in Regs \ {0} : saved[t][r] = uregs[t][r]
    /\ saved[t][0] = IF name \in Unreported THEN uregs[t][0] ELSE result
LEMMA ReportedIs ==
    ASSUME CallInv, NEW t \in Callers, NEW name, NEW result
    PROVE  OnlyResult(Reported(uregs, t, name, result), t, name, result)
<1>0. PICK saved : saved = Reported(uregs, t, name, result)
  OBVIOUS
<1>1. DOMAIN uregs = Callers /\ (\A v \in Callers : DOMAIN uregs[v] = Regs) /\ 0 \in Regs
  BY DEF CallInv, CallType, Regs
<1>2. CASE name \in Unreported
  <2>1. saved = uregs
    BY <1>0, <1>2 DEF Reported
  <2> QED
    BY <1>0, <1>1, <1>2, <2>1 DEF OnlyResult
<1>3. CASE name \notin Unreported
  <2>1. saved = [uregs EXCEPT ![t] = [uregs[t] EXCEPT ![0] = result]]
    BY <1>0, <1>1, <1>3 DEF Reported
  <2>2. saved[t] = [uregs[t] EXCEPT ![0] = result] /\ DOMAIN uregs[t] = Regs
    BY <1>1, <2>1
  <2>3. DOMAIN saved[t] = Regs /\ saved[t][0] = result /\ \A r \in Regs \ {0} : saved[t][r] = uregs[t][r]
    BY <1>1, <2>2
  <2>4. DOMAIN saved = Callers /\ \A v \in Callers \ {t} : saved[v] = uregs[v]
    BY <1>1, <2>1
  <2> QED
    BY <1>0, <1>1, <1>3, <2>3, <2>4 DEF OnlyResult
<1> QED
  BY <1>2, <1>3

LEMMA ReturnsServed ==
    ASSUME CallInv, NEW t \in Callers, Returns(t) PROVE CallInv'
<1>1. /\ running = t /\ running' = t /\ mode[t] \in {"func", "made"} /\ mode' = [mode EXCEPT ![t] = "sig"]
      /\ uregs' = Reported(uregs, t, call[t], Result(t))
      /\ sure' = [sure EXCEPT ![t] = call[t] \notin Unreported]
      /\ kregs' = kregs /\ call' = call /\ did' = did /\ owed' = owed
      /\ frame' = frame /\ start' = start
  BY DEF Returns, Slot
<1>2. /\ DOMAIN uregs' = Callers /\ \A v \in Callers : DOMAIN uregs'[v] = Regs
      /\ \A v \in Callers \ {t} : uregs'[v] = uregs[v]
      /\ \A r \in Regs \ {0} : uregs'[t][r] = uregs[t][r]
      /\ uregs'[t][0] = IF call[t] \in Unreported THEN uregs[t][0] ELSE Result(t)
  <2>1. OnlyResult(uregs', t, call[t], Result(t))
    BY <1>1, ReportedIs
  <2> QED
    BY <2>1 DEF OnlyResult
<1>3. DOMAIN vregs' = Regs
  <2>1. vregs' = [uregs'[t] EXCEPT ![0] = uregs[t][0]]
    BY DEF Returns, ptregs_to_vcpu
  <2> QED
    BY <1>2, <2>1
<1>4. CallType'
  BY <1>1, <1>2, <1>3 DEF CallInv, CallType
<1>5. mode'[t] = "sig" /\ sure'[t] = (call[t] \notin Unreported) /\ Booked(t) /\ RegsRight(t)
  BY <1>1 DEF CallInv, CallType
<1>6. Booked(t)'
  BY <1>1, <1>5 DEF Booked
<1>7. RegsRight(t)'
  <2>1. owed[t][0] = Result(t) /\ \A r \in Regs \ {0} : uregs[t][r] = owed[t][r]
    BY <1>1, <1>5 DEF RegsRight
  <2>2. RegsOwed(t, uregs[t])'
    BY <1>1, <1>2, <1>5, <2>1 DEF RegsOwed
  <2> QED
    BY <1>5, <2>2 DEF RegsRight
<1>8. ASSUME NEW v \in Callers \ {t}
      PROVE  /\ mode'[v] = mode[v] /\ call'[v] = call[v] /\ did'[v] = did[v]
             /\ uregs'[v] = uregs[v] /\ owed'[v] = owed[v] /\ sure'[v] = sure[v]
  BY <1>1, <1>2 DEF CallInv, CallType
<1> QED
  BY <1>1, <1>4, <1>6, <1>7, <1>8, OneServed

LEMMA LeaveServed ==
    ASSUME CallInv, NEW t \in Callers, IrqReturns(t) \/ Leave(t) PROVE CallInv'
<1>1. /\ running = t /\ running' = t /\ vregs' = uregs[t]
      /\ \/ mode[t] = "irq" /\ mode' = [mode EXCEPT ![t] = "sig"]
         \/ mode[t] = "sig" /\ mode' = [mode EXCEPT ![t] = "user"]
      /\ uregs' = uregs /\ kregs' = kregs /\ call' = call /\ did' = did /\ owed' = owed /\ sure' = sure
      /\ frame' = frame /\ start' = start
  BY DEF IrqReturns, Leave, Slot, pthread_to_vcpu, ptregs_to_vcpu
<1>2. CallType'
  BY <1>1 DEF CallInv, CallType
<1>3. /\ Booked(t) /\ RegsRight(t) /\ mode[t] \in {"irq", "sig"} /\ mode'[t] \in {"sig", "user"}
  BY <1>1 DEF CallInv, CallType
<1>4. Booked(t)'
  BY <1>1, <1>3 DEF Booked
<1>5. RegsRight(t)'
  BY <1>1, <1>3 DEF RegsRight, RegsOwed
<1>6. \A v \in Callers \ {t} : mode'[v] = mode[v]
  BY <1>1 DEF CallInv, CallType
<1> QED
  BY <1>1, <1>2, <1>4, <1>5, <1>6, OneServed

LEMMA HandlerServed ==
    ASSUME CallInv, NEW t \in Callers, HandlerEntry(t) \/ HandlerReturns(t) PROVE CallInv'
<1>1. /\ running = t /\ running' = t /\ call' = call /\ did' = did /\ owed' = owed
      /\ frame' = frame /\ start' = start
  BY DEF HandlerEntry, HandlerReturns
<1>2. CASE HandlerEntry(t)
  <2>1. /\ mode' = [mode EXCEPT ![t] = IF mode[t] = "func" THEN "hfunc" ELSE "hsig"]
        /\ mode[t] \in {"func", "sig"}
        /\ uregs' = uregs /\ kregs' = [kregs EXCEPT ![t] = vregs'] /\ sure' = sure
        /\ DOMAIN vregs' = Regs
    BY <1>2 DEF HandlerEntry, Slot, vcpu_to_pthread, vcpu_to_ptregs, L4ERTL_DO_SYSCALL
  <2>2. CallType'
    BY <1>1, <2>1 DEF CallInv, CallType
  <2>3. /\ mode'[t] = (IF mode[t] = "func" THEN "hfunc" ELSE "hsig") /\ Booked(t) /\ RegsRight(t)
        /\ \A v \in Callers \ {t} : mode'[v] = mode[v]
    BY <2>1 DEF CallInv, CallType
  <2>4. Booked(t)'
    BY <1>1, <2>1, <2>3 DEF Booked
  <2>5. RegsRight(t)'
    BY <1>1, <2>1, <2>3 DEF RegsRight, RegsOwed
  <2> QED
    BY <1>1, <2>1, <2>2, <2>3, <2>4, <2>5, OneServed
<1>3. CASE HandlerReturns(t)
  <2>1. /\ mode' = [mode EXCEPT ![t] = IF mode[t] = "hfunc" THEN "func" ELSE "sig"]
        /\ mode[t] \in {"hfunc", "hsig"} /\ kregs' = kregs /\ vregs' = kregs[t]
        /\ sure' = [sure EXCEPT ![t] = FALSE]
        /\ uregs' = Reported(uregs, t, hcall[t], HandlerResult(t))
    BY <1>3 DEF HandlerReturns, Slot, pthread_to_vcpu, ptregs_to_vcpu
  <2>2. /\ DOMAIN uregs' = Callers /\ \A v \in Callers : DOMAIN uregs'[v] = Regs
        /\ \A v \in Callers \ {t} : uregs'[v] = uregs[v]
        /\ \A r \in Regs \ {0} : uregs'[t][r] = uregs[t][r]
    <3>1. OnlyResult(uregs', t, hcall[t], HandlerResult(t))
      BY <2>1, ReportedIs
    <3> QED
      BY <3>1 DEF OnlyResult
  <2>3. CallType'
    BY <1>1, <2>1, <2>2 DEF CallInv, CallType
  <2>4. /\ mode'[t] = (IF mode[t] = "hfunc" THEN "func" ELSE "sig") /\ Booked(t) /\ RegsRight(t)
        /\ sure'[t] = FALSE
        /\ \A v \in Callers \ {t} : mode'[v] = mode[v] /\ sure'[v] = sure[v]
    BY <2>1 DEF CallInv, CallType
  <2>5. Booked(t)'
    BY <1>1, <2>1, <2>4 DEF Booked
  <2>6. RegsRight(t)'
    BY <1>1, <2>1, <2>2, <2>4 DEF RegsRight, RegsOwed
  <2> QED
    BY <1>1, <2>2, <2>3, <2>4, <2>5, <2>6, OneServed
<1> QED
  BY <1>2, <1>3

LEMMA SwitchServed ==
    ASSUME CallInv, NEW t \in Callers, NEW u \in Callers, Switch(t, u)
    PROVE  CallInv'
<1> DEFINE left == Left(t)
<1>1. /\ u # t /\ uregs' = uregs /\ kregs' = kregs /\ call' = call /\ did' = did /\ frame' = frame
      /\ running' = u
  BY DEF Switch, Begins
<1>2. /\ DOMAIN left = Callers /\ left[t] \in {mode[t], "gone"}
      /\ \A v \in Callers \ {t} : left[v] = mode[v]
  BY DEF CallInv, CallType, Left, Slot
<1> HIDE DEF left
(* One that is left for good has nothing to expect.                        *)
<1>3. ASSUME NEW v \in Callers, v # u, mode'[v] = left[v], start'[v] = start[v],
             owed'[v] = owed[v], sure'[v] = sure[v]
      PROVE  Booked(v)' /\ RegsRight(v)'
  <2>1. Booked(v) /\ RegsRight(v) /\ running' # v
    BY <1>1, <1>3 DEF CallInv
  <2>2. CASE mode'[v] = mode[v]
    <3>1. Booked(v)'
      BY <1>1, <1>3, <2>1, <2>2, BookedKept
    <3>2. RegsRight(v)'
      BY <1>1, <1>3, <2>1, <2>2, RegsKept
    <3> QED
      BY <3>1, <3>2
  <2>3. CASE mode'[v] = "gone"
    <3>1. Booked(v)'
      BY <1>1, <1>3, <2>1, <2>3 DEF Booked
    <3>2. RegsRight(v)'
      BY <2>3 DEF RegsRight
    <3> QED
      BY <3>1, <3>2
  <2> QED
    BY <1>2, <1>3, <2>2, <2>3
<1>4. CASE InKernel(u) /\ mode' = left /\ vregs' = vregs /\ owed' = owed /\ sure' = sure /\ start' = start
  <2>1. CallType'
    BY <1>1, <1>2, <1>4 DEF CallInv, CallType
  <2>2. mode'[u] = mode[u] /\ mode'[u] # "user" /\ Booked(u) /\ RegsRight(u)
    BY <1>1, <1>2, <1>4 DEF InKernel, CallInv
  <2>3. Booked(u)'
    BY <1>1, <1>4, <2>2, BookedKept
  <2>4. RegsRight(u)'
    BY <1>1, <1>4, <2>2 DEF RegsRight, RegsOwed
  <2> QED
    BY <1>3, <1>4, <2>1, <2>3, <2>4 DEF CallInv
<1>5. CASE mode[u] = "new" /\ Begins(u, frame[u].stack) /\ mode' = [left EXCEPT ![u] = "user"]
  <2>1. PICK f : /\ f = context_switch_to(frame[u].stack) /\ vregs' = [r \in Regs |-> f.r[r]]
                 /\ start' = [start EXCEPT ![u] = f] /\ owed' = [owed EXCEPT ![u] = vregs']
                 /\ sure' = [sure EXCEPT ![u] = TRUE]
    BY <1>5 DEF Begins
  <2>2. CallType'
    BY <1>1, <1>2, <1>5, <2>1 DEF CallInv, CallType
  <2>3. /\ mode'[u] = "user" /\ start'[u] = f /\ owed'[u] = vregs'
        /\ \A v \in Callers \ {u} : /\ mode'[v] = left[v] /\ start'[v] = start[v]
                                    /\ owed'[v] = owed[v] /\ sure'[v] = sure[v]
    BY <1>2, <1>5, <2>1 DEF CallInv, CallType
  <2>4. Booked(u) /\ call[u] = "none" /\ BeginsRight(frame[u], f)
    BY <1>5, <2>1 DEF CallInv, Booked
  <2>5. Booked(u)'
    BY <1>1, <2>3, <2>4 DEF Booked
  <2>6. RegsRight(u)'
    BY <2>3 DEF RegsRight, RegsOwed
  <2> QED
    BY <1>3, <2>2, <2>3, <2>5, <2>6 DEF CallInv
<1> QED
  BY <1>4, <1>5 DEF Switch, left

(* The stack of a new thread holds what its maker's call asked for.        *)
LEMMA MadeBegins ==
    ASSUME CallInv, NEW t \in Callers, mode[t] = "func"
    PROVE  BeginsRight(Made(t), context_switch_to(Made(t).stack))
<1> DEFINE d == did[t]
           a == d[2]
<1>1. d[1] = call[t]
  <2>1. Booked(t)
    BY DEF CallInv
  <2>2. d = <<call[t], [i \in 1 .. Params(call[t]) |-> Arg(t, i)]>>
    BY <2>1 DEF Booked
  <2> QED
    BY <2>2
<1> HIDE DEF d
<1>2. Made(t).of = d /\ Made(t).stack = IF call[t] = "pthread_create" THEN setup_stack(a[3], a[4], a[5])
                                        ELSE setup_stack2(a[3], a[4])
  BY DEF Made, d
<1>3. CASE call[t] = "pthread_create"
  <2>1. Made(t).stack = setup_stack(a[3], a[4], a[5])
    BY <1>2, <1>3
  <2> QED
    BY <1>1, <1>2, <1>3, <2>1, FirstRegisters DEF BeginsRight
<1>4. CASE call[t] # "pthread_create"
  <2>1. Made(t).stack = setup_stack2(a[3], a[4])
    BY <1>2, <1>4
  <2> QED
    BY <1>1, <1>2, <1>4, <2>1, FirstRegisters DEF BeginsRight
<1> QED
  BY <1>3, <1>4

LEMMA CreateServed ==
    ASSUME CallInv, NEW t \in Callers, NEW u \in Callers,
           Create(t, u) \/ pthread_create_idle_sys(t, u)
    PROVE  CallInv'
<1>1. /\ mode[t] = "func" /\ mode[u] = "none" /\ u # t /\ frame' = [frame EXCEPT ![u] = Made(t)]
      /\ uregs' = uregs /\ kregs' = kregs /\ call' = call /\ did' = did /\ running = t
  BY DEF Create, pthread_create_idle_sys
<1>2. PICK f : f = context_switch_to(Made(t).stack) /\ BeginsRight(Made(t), f)
  BY <1>1, MadeBegins
<1>3. /\ Booked(u) /\ Booked(t) /\ RegsRight(t) /\ call[u] = "none" /\ start[u] = <<>>
  BY <1>1 DEF CallInv, Booked
<1>4. CASE Create(t, u)
  <2>1. /\ mode' = [mode EXCEPT ![t] = "made", ![u] = "new"] /\ vregs' = vregs /\ start' = start
        /\ owed' = owed /\ sure' = sure /\ running' = running
    BY <1>4 DEF Create
  <2>2. CallType'
    BY <1>1, <2>1 DEF CallInv, CallType
  <2>3. /\ mode'[t] = "made" /\ mode'[u] = "new" /\ frame'[u] = Made(t) /\ frame'[t] = frame[t]
        /\ \A v \in Callers \ {t, u} : mode'[v] = mode[v] /\ frame'[v] = frame[v]
    BY <1>1, <2>1 DEF CallInv, CallType
  <2>4. Booked(u)'
    BY <1>1, <1>2, <1>3, <2>1, <2>3 DEF Booked
  <2>5. RegsRight(u)'
    BY <2>3 DEF RegsRight
  <2>6. Booked(t)'
    BY <1>1, <1>3, <2>1, <2>3 DEF Booked
  <2>7. RegsRight(t)'
    BY <1>1, <1>3, <2>1, <2>3 DEF RegsRight, RegsOwed
  <2>8. ASSUME NEW v \in Callers \ {t, u} PROVE Booked(v)' /\ RegsRight(v)'
    <3>1. Booked(v)'
      BY <1>1, <2>1, <2>3, BookedKept DEF CallInv
    <3>2. RegsRight(v)'
      BY <1>1, <2>1, <2>3, RegsKept DEF CallInv
    <3> QED
      BY <3>1, <3>2
  <2> QED
    BY <2>2, <2>4, <2>5, <2>6, <2>7, <2>8 DEF CallInv
<1>5. CASE pthread_create_idle_sys(t, u)
  <2>1. /\ mode' = [mode EXCEPT ![t] = "gone", ![u] = "user"] /\ start' = [start EXCEPT ![u] = f]
        /\ vregs' = [r \in Regs |-> f.r[r]] /\ owed' = [owed EXCEPT ![u] = vregs']
        /\ sure' = [sure EXCEPT ![u] = TRUE] /\ running' = u
    BY <1>2, <1>5 DEF pthread_create_idle_sys, Begins
  <2>2. CallType'
    BY <1>1, <2>1 DEF CallInv, CallType
  <2>3. /\ mode'[t] = "gone" /\ mode'[u] = "user" /\ frame'[u] = Made(t) /\ start'[u] = f
        /\ frame'[t] = frame[t] /\ start'[t] = start[t] /\ owed'[u] = vregs'
        /\ \A v \in Callers \ {t, u} : /\ mode'[v] = mode[v] /\ frame'[v] = frame[v]
                                       /\ start'[v] = start[v] /\ owed'[v] = owed[v] /\ sure'[v] = sure[v]
    BY <1>1, <2>1 DEF CallInv, CallType
  <2>4. Booked(u)'
    BY <1>1, <1>2, <1>3, <2>3 DEF Booked
  <2>5. RegsRight(u)'
    BY <2>3 DEF RegsRight, RegsOwed
  <2>6. Booked(t)'
    BY <1>1, <1>3, <2>3 DEF Booked
  <2>7. RegsRight(t)'
    BY <2>3 DEF RegsRight
  <2>8. ASSUME NEW v \in Callers \ {t, u} PROVE Booked(v)' /\ RegsRight(v)'
    <3>1. Booked(v)'
      BY <1>1, <2>3, BookedKept DEF CallInv
    <3>2. RegsRight(v)'
      BY <1>1, <2>1, <2>3, RegsKept DEF CallInv
    <3> QED
      BY <3>1, <3>2
  <2> QED
    BY <2>2, <2>4, <2>5, <2>6, <2>7, <2>8 DEF CallInv
<1> QED
  BY <1>4, <1>5

(* What a handler's call has the kernel do, while it is in the kernel.      *)
Handled(t) == mode[t] \in {"hfunc", "hsig"} =>
    hdid[t] = <<hcall[t], [i \in 1 .. Params(hcall[t]) |-> owed[t][i]]>>
HandlerInv == DOMAIN hcall = Callers /\ DOMAIN hdid = Callers /\ \A t \in Callers : Handled(t)

(* The steps in which no handler calls.                                    *)
LEMMA HandledKept ==
    ASSUME HandlerInv, hcall' = hcall, hdid' = hdid,
           \A t \in Callers : mode'[t] \in {"hfunc", "hsig"} =>
               mode[t] \in {"hfunc", "hsig"} /\ owed'[t] = owed[t]
    PROVE  HandlerInv'
<1>1. ASSUME NEW t \in Callers PROVE Handled(t)'
  BY DEF HandlerInv, Handled
<1> QED
  BY <1>1 DEF HandlerInv

LEMMA HandlerEntryHandled ==
    ASSUME CallInv, HandlerInv, NEW t \in Callers, HandlerEntry(t) PROVE HandlerInv'
<1> DEFINE args == [i \in 1 .. 6 |-> HandlerArg(t, i)]
<1>1. PICK name \in HandlerCalls[t] :
          In(name, Stubs) /\ vregs' = L4ERTL_DO_SYSCALL(name, args) /\ hcall' = [hcall EXCEPT ![t] = name]
  BY DEF HandlerEntry
<1> DEFINE n == Of(name, Stubs)
           code == ertl_mux_code(n, nr_of(name))
<1>2. /\ mode[t] \in {"func", "sig"} /\ owed' = owed
      /\ mode' = [mode EXCEPT ![t] = IF mode[t] = "func" THEN "hfunc" ELSE "hsig"]
      /\ hdid' = [hdid EXCEPT ![t] = dispatch_syscalls(Nr(vregs'), Op(vregs'), uregs[t])]
  BY DEF HandlerEntry, Slot
<1>3. /\ n = Params(name) /\ n \in 0 .. 6
      /\ code \div 2^24 = n /\ syscall_table[(code % 2^16) + 1] = name
  BY <1>1, StubCode
<1>4. vregs'[0] = code
  BY <1>1 DEF L4ERTL_DO_SYSCALL, Regs
<1> HIDE DEF n, code, args
<1>5. PICK regs : regs = vregs'
  OBVIOUS
<1>6. \A r \in Regs \ {0} : uregs[t][r] = owed[t][r]
  BY <1>2 DEF CallInv, RegsRight, RegsOwed
<1>7. [i \in 1 .. n |-> uregs[t][i]] = [i \in 1 .. Params(name) |-> owed[t][i]]
  BY <1>3, <1>6 DEF Regs
<1>8. dispatch_syscalls(Nr(regs), Op(regs), uregs[t]) = <<name, [i \in 1 .. n |-> uregs[t][i]]>>
  BY <1>3, <1>4, <1>5, SMT DEF dispatch_syscalls, Nr, Op
<1>9. hdid' = [hdid EXCEPT ![t] = <<name, [i \in 1 .. Params(name) |-> owed[t][i]]>>]
  BY <1>2, <1>5, <1>7, <1>8
<1>10. Handled(t)'
  <2>1. hcall'[t] = name /\ hdid'[t] = <<name, [i \in 1 .. Params(name) |-> owed[t][i]]>>
    BY <1>1, <1>9 DEF HandlerInv
  <2> QED
    BY <1>2, <2>1 DEF Handled
<1>11. ASSUME NEW v \in Callers \ {t} PROVE Handled(v)'
  <2>1. mode'[v] = mode[v] /\ hcall'[v] = hcall[v] /\ hdid'[v] = hdid[v] /\ owed'[v] = owed[v]
    BY <1>1, <1>2, <1>9 DEF CallInv, CallType, HandlerInv
  <2> QED
    BY <2>1 DEF HandlerInv, Handled
<1> QED
  BY <1>1, <1>9, <1>10, <1>11 DEF HandlerInv

LEMMA OthersHandled ==
    ASSUME CallInv, HandlerInv, NEW t \in Callers,
           \/ Entry(t) \/ Interrupt(t) \/ Returns(t) \/ IrqReturns(t) \/ Leave(t) \/ HandlerReturns(t)
           \/ \E u \in Callers : Switch(t, u) \/ Create(t, u) \/ pthread_create_idle_sys(t, u)
    PROVE  HandlerInv'
<1>0. DOMAIN mode = Callers /\ DOMAIN owed = Callers
  BY DEF CallInv, CallType
<1>1. CASE Entry(t) \/ Interrupt(t) \/ Returns(t) \/ IrqReturns(t) \/ Leave(t) \/ HandlerReturns(t)
  <2>1. /\ hcall' = hcall /\ hdid' = hdid
        /\ \E m \in {"func", "irq", "sig", "user"} : mode' = [mode EXCEPT ![t] = m]
        /\ \A v \in Callers \ {t} : owed'[v] = owed[v]
    BY <1>0, <1>1 DEF Entry, Interrupt, Returns, IrqReturns, Leave, HandlerReturns, Slot
  <2>2. \A v \in Callers : mode'[v] \in {"hfunc", "hsig"} =>
            mode[v] \in {"hfunc", "hsig"} /\ owed'[v] = owed[v]
    BY <1>0, <2>1
  <2> QED
    BY <2>1, <2>2, HandledKept
<1>2. ASSUME NEW u \in Callers, Switch(t, u) PROVE HandlerInv'
  <2>1. DOMAIN Left(t) = Callers /\ \A v \in Callers : Left(t)[v] \in {mode[v], "gone"}
    BY <1>0 DEF Left, Slot
  <2>2. /\ hcall' = hcall /\ hdid' = hdid
        /\ \/ mode' = Left(t) /\ owed' = owed
           \/ mode' = [Left(t) EXCEPT ![u] = "user"] /\ owed' = [owed EXCEPT ![u] = vregs']
    BY <1>2 DEF Switch, Begins
  <2>3. \A v \in Callers : mode'[v] \in {"hfunc", "hsig"} =>
            mode[v] \in {"hfunc", "hsig"} /\ owed'[v] = owed[v]
    BY <1>0, <2>1, <2>2
  <2> QED
    BY <2>2, <2>3, HandledKept
<1>3. ASSUME NEW u \in Callers, Create(t, u) \/ pthread_create_idle_sys(t, u) PROVE HandlerInv'
  <2>1. /\ hcall' = hcall /\ hdid' = hdid
        /\ \/ mode' = [mode EXCEPT ![t] = "made", ![u] = "new"] /\ owed' = owed
           \/ mode' = [mode EXCEPT ![t] = "gone", ![u] = "user"] /\ owed' = [owed EXCEPT ![u] = vregs']
    BY <1>3 DEF Create, pthread_create_idle_sys, Begins
  <2>2. \A v \in Callers : mode'[v] \in {"hfunc", "hsig"} =>
            mode[v] \in {"hfunc", "hsig"} /\ owed'[v] = owed[v]
    BY <1>0, <2>1
  <2> QED
    BY <2>1, <2>2, HandledKept
<1> QED
  BY <1>1, <1>2, <1>3

(* For any number of threads and any system calls they and their signal    *)
(* handlers make, however calls, interrupts, handlers and new threads      *)
(* overlap: every stub of user mode has the kernel call the function of    *)
(* its name with its own arguments, the thread finds its registers again   *)
(* and, where no handler called and the call is not pthread_create, its    *)
(* own result, a handler's call reaches the function of its name with the  *)
(* interrupted code's registers, and a new thread begins as its maker      *)
(* asked.                                                                  *)
THEOREM CallsServedHolds == CSpec => []CallsServed
<1>1. CInit => CallInv
  <2> SUFFICES ASSUME CInit PROVE CallInv
    OBVIOUS
  <2>1. CallType
    BY DEF CInit, CallType
  <2>2. ASSUME NEW t \in Callers PROVE Booked(t)
    BY DEF CInit, Booked
  <2>3. ASSUME NEW t \in Callers PROVE RegsRight(t)
    BY DEF CInit, RegsRight, RegsOwed
  <2> QED
    BY <2>1, <2>2, <2>3 DEF CallInv
<1>2. CallInv /\ [CNext]_cvars => CallInv'
  <2>1. CallInv /\ UNCHANGED cvars => CallInv'
    BY DEF cvars, CallInv, CallType, Booked, RegsRight, RegsOwed
  <2>2. CallInv /\ CNext => CallInv'
    BY EntryServed, InterruptServed, ReturnsServed, LeaveServed, HandlerServed, SwitchServed,
       CreateServed DEF CNext
  <2> QED
    BY <2>1, <2>2
<1>3. CInit => HandlerInv
  BY DEF CInit, HandlerInv, Handled
<1>4. CallInv /\ HandlerInv /\ [CNext]_cvars => HandlerInv'
  <2>1. HandlerInv /\ UNCHANGED cvars => HandlerInv'
    BY DEF cvars, HandlerInv, Handled
  <2>2. CallInv /\ HandlerInv /\ CNext => HandlerInv'
    BY HandlerEntryHandled, OthersHandled DEF CNext
  <2> QED
    BY <2>1, <2>2
<1>5. CallInv /\ HandlerInv => CallsServed
  BY DEF CallInv, Booked, RegsRight, RegsOwed, HandlerInv, Handled, CallsServed, BeginsRight
<1> QED
  BY <1>1, <1>2, <1>3, <1>4, <1>5, PTL DEF CSpec

-----------------------------------------------------------------------------
(* The calls that tell the time.  A second is a whole number of            *)
(* microseconds, and a timespec is the time it was made from.              *)
LEMMA SecondsAre ==
    /\ NSECS_PER_USEC \in Nat \ {0} /\ USECS_PER_SEC \in Nat \ {0} /\ Long \in Nat \ {0}
    /\ NSECS_PER_SEC \in Nat \ {0}
<1>1. /\ NSECS_PER_USEC \in Nat \ {0} /\ USECS_PER_SEC \in Nat \ {0} /\ Long \in Nat \ {0}
  BY TimeCallsAssumption
<1>2. ASSUME NEW N \in Nat \ {0}, NEW U \in Nat \ {0} PROVE N * U \in Nat \ {0}
  OBVIOUS
<1> QED
  BY <1>1, <1>2 DEF NSECS_PER_SEC

LEMMA Quotient ==
    ASSUME NEW d \in Nat, NEW N \in Nat \ {0}
    PROVE  /\ d \div N \in Nat /\ d % N \in 0 .. N - 1 /\ d = N * (d \div N) + (d % N)
BY Z3

LEMMA QuotientIs ==
    ASSUME NEW d \in Nat, NEW N \in Nat \ {0}, NEW f \in Nat, NEW r \in 0 .. N - 1, d = N * f + r
    PROVE  d \div N = f /\ d % N = r
<1>1. PICK g \in Nat, s \in 0 .. N - 1 : g = d \div N /\ s = d % N /\ d = N * g + s
  BY Quotient
<1>2. N * f + r = N * g + s
  BY <1>1
<1>3. N * (f - g) = s - r
  BY <1>2
<1>4. f - g = 0
  <2>1. ASSUME NEW x \in Int, NEW y \in Int, N * x = y, y < N, -N < y PROVE x = 0
    <3>1. CASE x >= 1
      <4>1. N * x >= N
        BY <3>1
      <4> QED
        BY <4>1, <2>1
    <3>2. CASE x <= -1
      <4>1. N * x <= -N
        BY <3>2
      <4> QED
        BY <4>1, <2>1
    <3> QED
      BY <3>1, <3>2
  <2> QED
    BY <1>3, <2>1
<1> QED
  BY <1>1, <1>2, <1>4

LEMMA DurationIs == \A d \in Nat : duration(timespec(d)) = d
<1> TAKE d \in Nat
<1>1. PICK N \in Nat \ {0} : N = NSECS_PER_SEC
  BY SecondsAre
<1>2. d \div N \in Nat /\ d % N \in 0 .. N - 1 /\ d = N * (d \div N) + (d % N)
  BY Quotient
<1>3. (d \div N) * N + (d % N) = d
  BY <1>2
<1> QED
  BY <1>1, <1>3 DEF duration, timespec

(* The seconds of gettimeofday_sys, of time_sys and of the monotonic clock *)
(* agree, and so do its microseconds and the nanoseconds of the clock.     *)
LEMMA ClocksAgree ==
    ASSUME NEW c \in Nat, NEW N \in Nat \ {0}, NEW U \in Nat \ {0}
    PROVE  /\ c \div (N * U) = (c \div N) \div U
           /\ (c % (N * U)) \div N = (c \div N) % U
<1>1. PICK p \in Nat, r \in 0 .. N - 1 : p = c \div N /\ c = N * p + r
  BY Quotient
<1>2. PICK s \in Nat, m \in 0 .. U - 1 : s = p \div U /\ m = p % U /\ p = U * s + m
  <2>1. p \div U \in Nat /\ p % U \in 0 .. U - 1 /\ p = U * (p \div U) + (p % U)
    BY Quotient
  <2> QED
    BY <2>1
<1>3. PICK rest \in Nat : rest = N * m + r
  <2>1. ASSUME NEW x \in Nat PROVE N * x \in Nat
    OBVIOUS
  <2>2. N * m \in Nat
    BY <2>1
  <2> QED
    BY <2>2
<1>4. rest \in 0 .. (N * U) - 1
  <2>1. N * m <= N * (U - 1)
    BY <1>2
  <2>2. N * (U - 1) = N * U - N
    OBVIOUS
  <2>3. N * m \in Nat /\ N * U \in Nat
    BY <1>2
  <2> QED
    BY <1>1, <1>3, <2>1, <2>2, <2>3
<1>5. c = (N * U) * s + rest
  <2>0. ASSUME NEW x \in Nat PROVE N * (U * s + x) = (N * U) * s + N * x
    <3>1. N * (U * s + x) = N * (U * s) + N * x
      BY SMT
    <3>2. N * (U * s) = (N * U) * s
      BY SMT
    <3> QED
      BY <3>1, <3>2
  <2>1. N * (U * s + m) = (N * U) * s + N * m
    BY <2>0
  <2>2. N * p = (N * U) * s + N * m
    BY <1>2, <2>1
  <2>3. N * p \in Nat /\ (N * U) * s \in Nat /\ N * m \in Nat
    <3>1. ASSUME NEW x \in Nat, NEW y \in Nat PROVE x * y \in Nat
      OBVIOUS
    <3> QED
      BY <3>1
  <2> QED
    BY <1>1, <1>3, <2>2, <2>3
<1>6. PICK M \in Nat \ {0} : M = N * U
  OBVIOUS
<1>7. c \div M = s /\ c % M = rest
  BY <1>4, <1>5, <1>6, QuotientIs
<1>8. rest \div N = m
  BY <1>1, <1>2, <1>3, QuotientIs
<1> QED
  BY <1>1, <1>2, <1>6, <1>7, <1>8

-----------------------------------------------------------------------------
TaskType ==
    [state : {"new", "ready", "asleep", "woken", "back"}, used_time : Int, starting_time : Nat,
     period : Nat, req : Nat, ret : {0, -1}, rem : Nat, calls : Nat,
     cpu : Nat, first : Nat, ask : Nat, begun : Nat, woken : Nat, cut : BOOLEAN]

(* What a thread knows of its last sleep: one that is back and that no     *)
(* signal woke has slept long enough, and only an interrupted thread is    *)
(* ever told that time is left.                                            *)
Slept(r, c) ==
    /\ r.begun <= c /\ r.woken <= c
    /\ r.cut => r.state \notin {"new", "asleep"}
    /\ ~r.cut => r.ret = 0
    /\ ~r.cut /\ (r.state \in {"woken", "back"} \/ (r.woken > 0 /\ r.state # "asleep"))
         => r.woken - r.begun >= r.req
    /\ r.ret = -1 => r.woken + r.rem <= r.begun + r.ask
    /\ r.req <= r.ask

(* used_time is what a thread ran and the age of the system when it began: *)
(* the running thread has the time since starting_time to come.            *)
Counted(r, c, on) ==
    /\ IF on THEN r.used_time + c - r.starting_time = r.first + r.cpu
       ELSE r.used_time = r.first + r.cpu
    /\ r.state = "new" => r.used_time = 0 /\ r.starting_time = 0 /\ r.cpu = 0 /\ r.first = 0

TasksOK(ts, c, n) ==
    /\ ts \in [Tasks -> TaskType]
    /\ \A t \in Tasks : Slept(ts[t], c) /\ Counted(ts[t], c, t = n)

TimeInv ==
    /\ clock \in Nat /\ runs \in Tasks /\ TasksOK(task, clock, runs)
    /\ task[runs].state \in {"ready", "back"}

LEMMA TimeInit == JInit => TimeInv
<1> SUFFICES ASSUME JInit PROVE TimeInv
  OBVIOUS
<1>1. IdleTask \in Tasks /\ clock = 0 /\ runs = IdleTask
  BY TimeCallsAssumption DEF JInit
<1>2. PICK i : i = [NewTask EXCEPT !.state = "ready"]
  OBVIOUS
<1>3. NewTask \in TaskType /\ i \in TaskType /\ i.state = "ready"
  <2>1. NewTask \in TaskType
    BY DEF NewTask, TaskType
  <2>2. i \in TaskType
    BY <1>2, <2>1 DEF TaskType
  <2>3. i.state = "ready"
    BY <1>2, <2>1 DEF TaskType
  <2> QED
    BY <2>1, <2>2, <2>3
<1>4. Slept(NewTask, 0) /\ Slept(i, 0)
  <2>1. /\ NewTask.begun = 0 /\ NewTask.woken = 0 /\ NewTask.cut = FALSE /\ NewTask.ret = 0
        /\ NewTask.state = "new" /\ NewTask.req = 0 /\ NewTask.ask = 0
    BY DEF NewTask
  <2>2. i.begun = 0 /\ i.woken = 0 /\ i.cut = FALSE /\ i.ret = 0 /\ i.state = "ready"
        /\ i.req = 0 /\ i.ask = 0
    BY <1>2 DEF NewTask
  <2> QED
    BY <2>1, <2>2 DEF Slept
<1>5. Counted(NewTask, 0, FALSE) /\ Counted(i, 0, TRUE)
  <2>1. /\ NewTask.used_time = 0 /\ NewTask.starting_time = 0 /\ NewTask.cpu = 0
        /\ NewTask.first = 0
    BY DEF NewTask
  <2>2. /\ i.used_time = 0 /\ i.starting_time = 0 /\ i.cpu = 0 /\ i.first = 0
        /\ i.state = "ready"
    BY <1>2 DEF NewTask
  <2> QED
    BY <2>1, <2>2 DEF Counted
<1>6. task = [t \in Tasks |-> IF t = IdleTask THEN i ELSE NewTask]
  BY <1>2 DEF JInit
<1>7. TasksOK(task, 0, IdleTask)
  <2>1. task \in [Tasks -> TaskType]
    BY <1>3, <1>6
  <2>2. ASSUME NEW t \in Tasks PROVE Slept(task[t], 0) /\ Counted(task[t], 0, t = IdleTask)
    <3>1. CASE t = IdleTask
      BY <1>4, <1>5, <1>6, <3>1
    <3>2. CASE t # IdleTask
      BY <1>4, <1>5, <1>6, <3>2
    <3> QED
      BY <3>1, <3>2
  <2> QED
    BY <2>1, <2>2 DEF TasksOK
<1> QED
  BY <1>1, <1>3, <1>6, <1>7 DEF TimeInv

(* The switch to another thread, and what it leaves alone.                 *)
LEMMA ChargeOK ==
    ASSUME NEW ts, clock \in Nat, runs \in Tasks, TasksOK(ts, clock, runs), NEW n \in Tasks,
           ts[n].state # "asleep", NEW r, r = Charge(ts, n), n # runs
    PROVE  /\ TasksOK(r, clock, n) /\ r[n].state = "ready"
           /\ r[n].cut = ts[n].cut /\ r[n].woken = ts[n].woken /\ r[n].begun = ts[n].begun
           /\ r[n].req = ts[n].req
<1>1. /\ ts \in [Tasks -> TaskType] /\ ts[runs] \in TaskType /\ ts[n] \in TaskType
  BY DEF TasksOK
<1>2. PICK a : a = [ts[runs] EXCEPT !.used_time = ts[runs].used_time + clock - ts[runs].starting_time]
  OBVIOUS
<1>3. PICK s, f : /\ s = IF ts[n].state = "new" THEN ts[n].starting_time ELSE clock
                  /\ f = IF ts[n].state = "new" THEN clock ELSE ts[n].first
  OBVIOUS
<1>4. PICK b : b = [ts[n] EXCEPT !.starting_time = s, !.first = f, !.state = "ready"]
  OBVIOUS
<1>5. r = [ts EXCEPT ![runs] = a, ![n] = b]
  BY <1>1, <1>2, <1>3, <1>4 DEF Charge, TaskType
<1>6. r[runs] = a /\ r[n] = b /\ DOMAIN r = Tasks /\ \A t \in Tasks \ {runs, n} : r[t] = ts[t]
  BY <1>1, <1>5
<1>7. s \in Nat /\ f \in Nat
  BY <1>1, <1>3 DEF TaskType
<1>8. /\ Slept(ts[runs], clock) /\ Counted(ts[runs], clock, TRUE)
      /\ Slept(ts[n], clock) /\ Counted(ts[n], clock, FALSE)
  BY DEF TasksOK
<1>9. a \in TaskType /\ Slept(a, clock) /\ Counted(a, clock, FALSE)
  <2>1. a \in TaskType
    BY <1>1, <1>2 DEF TaskType
  <2>2. Slept(a, clock)
    BY <1>1, <1>2, <1>8 DEF TaskType, Slept
  <2>3. Counted(a, clock, FALSE)
    BY <1>1, <1>2, <1>8 DEF TaskType, Counted
  <2> QED
    BY <2>1, <2>2, <2>3
<1>10. b \in TaskType /\ Slept(b, clock) /\ Counted(b, clock, TRUE) /\ b.state = "ready"
  <2>1. b \in TaskType /\ b.state = "ready"
    BY <1>1, <1>4, <1>7 DEF TaskType
  <2>2. Slept(b, clock)
    BY <1>1, <1>4, <1>7, <1>8 DEF TaskType, Slept
  <2>3. Counted(b, clock, TRUE)
    BY <1>1, <1>3, <1>4, <1>7, <1>8 DEF TaskType, Counted
  <2> QED
    BY <2>1, <2>2, <2>3
<1>11. TasksOK(r, clock, n)
  <2>1. r \in [Tasks -> TaskType]
    BY <1>1, <1>5, <1>9, <1>10
  <2>2. ASSUME NEW t \in Tasks PROVE Slept(r[t], clock) /\ Counted(r[t], clock, t = n)
    <3>1. CASE t = n
      BY <1>6, <1>10, <3>1
    <3>2. CASE t = runs
      BY <1>6, <1>9, <3>2
    <3>3. CASE t \notin {runs, n}
      BY <1>6, <3>3 DEF TasksOK
    <3> QED
      BY <3>1, <3>2, <3>3
  <2> QED
    BY <2>1, <2>2 DEF TasksOK
<1>12. b.cut = ts[n].cut /\ b.woken = ts[n].woken /\ b.begun = ts[n].begun /\ b.req = ts[n].req
  BY <1>1, <1>4 DEF TaskType
<1> QED
  BY <1>6, <1>10, <1>11, <1>12

LEMMA SchedulingOK ==
    ASSUME NEW ts, clock \in Nat, runs \in Tasks, TasksOK(ts, clock, runs), scheduling(ts),
           ts[runs].state # "new"
    PROVE  TimeInv'
<1>1. PICK n \in Tasks : /\ ts[n].state \in {"ready", "new"} /\ task' = Charge(ts, n)
                         /\ runs' = n /\ clock' = clock
  BY DEF scheduling, Runnable
<1>2. CASE n = runs
  <2>1. task' = ts
    BY <1>1, <1>2 DEF Charge
  <2>2. ts[runs].state = "ready"
    BY <1>1, <1>2
  <2> QED
    BY <1>1, <1>2, <2>1, <2>2 DEF TimeInv
<1>3. CASE n # runs
  <2>1. TasksOK(task', clock, n) /\ task'[n].state = "ready"
    BY <1>1, <1>3, ChargeOK
  <2> QED
    BY <1>1, <2>1 DEF TimeInv
<1> QED
  BY <1>2, <1>3

(* One record changes, and the clock stays.                                *)
LEMMA OneOK ==
    ASSUME NEW t \in Tasks, NEW r, TimeInv, r \in TaskType, Slept(r, clock),
           t = runs => Counted(r, clock, TRUE), t # runs => Counted(r, clock, FALSE), NEW ts, ts = [task EXCEPT ![t] = r]
    PROVE  TasksOK(ts, clock, runs) /\ ts[t] = r /\ \A u \in Tasks \ {t} : ts[u] = task[u]
<1>1. task \in [Tasks -> TaskType]
  BY DEF TimeInv, TasksOK
<1>2. ts \in [Tasks -> TaskType] /\ ts[t] = r /\ \A u \in Tasks \ {t} : ts[u] = task[u]
  BY <1>1
<1>3. ASSUME NEW u \in Tasks PROVE Slept(ts[u], clock) /\ Counted(ts[u], clock, u = runs)
  <2>1. CASE u = t
    BY <1>2, <2>1
  <2>2. CASE u # t
    BY <1>2, <2>2 DEF TimeInv, TasksOK
  <2> QED
    BY <2>1, <2>2
<1> QED
  BY <1>2, <1>3 DEF TasksOK

(* sleep_for, for any time.                                                *)
LEMMA SleepStep ==
    ASSUME TimeInv, NEW t \in Tasks, NEW d \in Nat, NEW asked \in Nat, d <= asked,
           sleep_for(t, d, asked)
    PROVE  TimeInv'
<1>1. /\ runs = t /\ task[t].state = "ready" /\ ~task[t].cut /\ task[t] \in TaskType
      /\ clock \in Nat /\ Slept(task[t], clock) /\ Counted(task[t], clock, TRUE)
      /\ task \in [Tasks -> TaskType]
  BY DEF sleep_for, CallsOf, TimeInv, TasksOK
<1>2. PICK r : r = [task[t] EXCEPT !.state = "asleep", !.req = d, !.ask = asked,
                                   !.begun = clock, !.calls = task[t].calls + 1]
  OBVIOUS
<1>3. PICK ts : ts = [task EXCEPT ![t] = r]
  OBVIOUS
<1>4. scheduling(ts)
  <2>1. ts = [task EXCEPT ![t].state = "asleep", ![t].req = d, ![t].ask = asked,
                          ![t].begun = clock, ![t].calls = @ + 1]
    BY <1>1, <1>2, <1>3 DEF TaskType
  <2> QED
    BY <2>1 DEF sleep_for
<1>5. r \in TaskType /\ r.state = "asleep"
  <2>1. r \in TaskType
    <3>1. task[t].calls + 1 \in Nat
      BY <1>1 DEF TaskType
    <3> QED
      BY <1>1, <1>2, <3>1 DEF TaskType
  <2>2. r.state = "asleep"
    BY <1>1, <1>2 DEF TaskType
  <2> QED
    BY <2>1, <2>2
<1>6. Slept(r, clock)
  <2>1. /\ r.begun = clock /\ r.woken = task[t].woken /\ r.cut = FALSE /\ r.ret = task[t].ret
        /\ r.state = "asleep" /\ r.req = d /\ r.ask = asked
    BY <1>1, <1>2 DEF TaskType
  <2> QED
    BY <1>1, <2>1 DEF Slept
<1>7. Counted(r, clock, TRUE)
  BY <1>1, <1>2 DEF TaskType, Counted
<1>8. TasksOK(ts, clock, runs) /\ ts[runs] = r
  BY <1>1, <1>3, <1>5, <1>6, <1>7, OneOK
<1> QED
  BY <1>1, <1>4, <1>5, <1>8, SchedulingOK DEF TimeInv

LEMMA WakesStep ==
    ASSUME TimeInv, NEW t \in Tasks, Wakes(t)
    PROVE  TimeInv'
<1>1. /\ task[t].state = "asleep" /\ task[t] \in TaskType
      /\ clock \in Nat /\ Slept(task[t], clock) /\ Counted(task[t], clock, t = runs)
      /\ task \in [Tasks -> TaskType] /\ clock' = clock /\ runs' = runs /\ t # runs
  BY DEF Wakes, TimeInv, TasksOK
<1>2. PICK cut \in BOOLEAN :
        /\ cut \/ clock >= task[t].begun + task[t].req
        /\ task' = [task EXCEPT ![t].state = "woken", ![t].cut = cut, ![t].woken = clock]
  BY DEF Wakes
<1>3. PICK r : r = [task[t] EXCEPT !.state = "woken", !.cut = cut, !.woken = clock]
  OBVIOUS
<1>4. task' = [task EXCEPT ![t] = r]
  BY <1>1, <1>2, <1>3 DEF TaskType
<1>5. r \in TaskType
  BY <1>1, <1>3 DEF TaskType
<1>6. Slept(r, clock)
  <2>1. /\ r.begun = task[t].begun /\ r.woken = clock /\ r.cut = cut /\ r.ret = task[t].ret
        /\ r.req = task[t].req /\ r.state = "woken" /\ r.rem = task[t].rem
        /\ r.ask = task[t].ask
    BY <1>1, <1>3 DEF TaskType
  <2>2. task[t].ret = 0 /\ task[t].begun \in Nat /\ task[t].req \in Nat /\ task[t].begun <= clock
    BY <1>1 DEF Slept, TaskType
  <2> QED
    BY <1>1, <1>2, <2>1, <2>2 DEF Slept
<1>7. Counted(r, clock, FALSE)
  BY <1>1, <1>3 DEF TaskType, Counted
<1>8. TasksOK(task', clock, runs) /\ \A u \in Tasks \ {t} : task'[u] = task[u]
  <2>1. PICK ts : ts = [task EXCEPT ![t] = r]
    OBVIOUS
  <2>2. TasksOK(ts, clock, runs) /\ ts[t] = r /\ \A u \in Tasks \ {t} : ts[u] = task[u]
    BY <1>1, <1>5, <1>6, <1>7, <2>1, OneOK
  <2> QED
    BY <1>4, <2>1, <2>2
<1> QED
  BY <1>1, <1>8 DEF TimeInv

LEMMA ResumesStep ==
    ASSUME TimeInv, NEW t \in Tasks, Resumes(t)
    PROVE  TimeInv'
<1>1. /\ task[t].state \in {"woken", "back"} /\ t # runs /\ clock' = clock /\ runs' = t
      /\ clock \in Nat /\ runs \in Tasks /\ TasksOK(task, clock, runs) /\ Slept(task[t], clock)
  BY DEF Resumes, TimeInv, TasksOK
<1>2. PICK ts : ts = Charge(task, t)
  OBVIOUS
<1>3. task' = [ts EXCEPT ![t].state = "back"]
  BY <1>2 DEF Resumes
<1>4. /\ TasksOK(ts, clock, t) /\ ts[t].state = "ready" /\ ts[t].cut = task[t].cut
      /\ ts[t].woken = task[t].woken /\ ts[t].begun = task[t].begun /\ ts[t].req = task[t].req
  BY <1>1, <1>2, ChargeOK
<1>5. /\ ts \in [Tasks -> TaskType] /\ ts[t] \in TaskType
      /\ Slept(ts[t], clock) /\ Counted(ts[t], clock, TRUE)
  BY <1>4 DEF TasksOK
<1>6. PICK r : r = [ts[t] EXCEPT !.state = "back"]
  OBVIOUS
<1>7. task' = [ts EXCEPT ![t] = r]
  BY <1>3, <1>5, <1>6 DEF TaskType
<1>8. r \in TaskType /\ r.state = "back"
  BY <1>5, <1>6 DEF TaskType
<1>9. Slept(r, clock)
  <2>1. /\ r.begun = ts[t].begun /\ r.woken = ts[t].woken /\ r.cut = ts[t].cut
        /\ r.ret = ts[t].ret /\ r.req = ts[t].req /\ r.rem = ts[t].rem /\ r.ask = ts[t].ask
    BY <1>5, <1>6 DEF TaskType
  <2>2. ~task[t].cut => task[t].woken - task[t].begun >= task[t].req
    BY <1>1 DEF Slept
  <2> QED
    BY <1>4, <1>5, <1>8, <2>1, <2>2 DEF Slept
<1>10. Counted(r, clock, TRUE)
  BY <1>5, <1>6 DEF TaskType, Counted
<1>11. task' \in [Tasks -> TaskType] /\ task'[t] = r /\ \A u \in Tasks \ {t} : task'[u] = ts[u]
  BY <1>5, <1>7, <1>8
<1>12. ASSUME NEW u \in Tasks PROVE Slept(task'[u], clock) /\ Counted(task'[u], clock, u = t)
  <2>1. CASE u = t
    BY <1>9, <1>10, <1>11, <2>1
  <2>2. CASE u # t
    BY <1>4, <1>11, <2>2 DEF TasksOK
  <2> QED
    BY <2>1, <2>2
<1>13. TasksOK(task', clock, t)
  BY <1>11, <1>12 DEF TasksOK
<1> QED
  BY <1>1, <1>8, <1>11, <1>13 DEF TimeInv

LEMMA SleepEndsStep ==
    ASSUME TimeInv, NEW t \in Tasks, SleepEnds(t)
    PROVE  TimeInv'
<1>1. /\ task[t].state = "back" /\ task[t] \in TaskType /\ t = runs
      /\ clock \in Nat /\ Slept(task[t], clock) /\ Counted(task[t], clock, TRUE)
      /\ task \in [Tasks -> TaskType] /\ clock' = clock /\ runs' = runs
  BY DEF SleepEnds, TimeInv, TasksOK
<1>2. /\ task[t].req \in Nat /\ task[t].begun \in Nat /\ task[t].woken \in Nat
      /\ task[t].begun <= clock /\ task[t].woken <= clock
      /\ ~task[t].cut => task[t].woken - task[t].begun >= task[t].req
  BY <1>1 DEF Slept, TaskType
<1>3. PICK d \in Nat : d = IF task[t].req > clock THEN task[t].req - clock ELSE 0
  <2>1. (IF task[t].req > clock THEN task[t].req - clock ELSE 0) \in Nat
    BY <1>1, <1>2
  <2> QED
    BY <2>1
<1>4. duration(timespec(d)) = d
  BY DurationIs
<1>5. PICK e \in {0, -1} : e = IF d > 0 THEN -1 ELSE 0
  OBVIOUS
<1>6. PICK r : r = [task[t] EXCEPT !.state = "ready", !.ret = e, !.rem = d]
  OBVIOUS
<1>7. task' = [task EXCEPT ![t] = r]
  <2>1. task' = [task EXCEPT ![t].state = "ready", ![t].ret = e, ![t].rem = d]
    BY <1>3, <1>4, <1>5 DEF SleepEnds
  <2> QED
    BY <1>1, <1>6, <2>1 DEF TaskType
<1>8. r \in TaskType
  BY <1>1, <1>6 DEF TaskType
<1>9. Slept(r, clock)
  <2>1. /\ r.begun = task[t].begun /\ r.woken = task[t].woken /\ r.cut = task[t].cut /\ r.ret = e
        /\ r.req = task[t].req /\ r.state = "ready" /\ r.rem = d
        /\ r.ask = task[t].ask /\ task[t].ask \in Nat /\ task[t].req <= task[t].ask
    BY <1>1, <1>6 DEF TaskType, Slept
  <2>2. ~task[t].cut => e = 0
    BY <1>1, <1>2, <1>3, <1>5
  <2>3. e = -1 => task[t].woken + d <= task[t].begun + task[t].ask
    BY <1>1, <1>2, <1>3, <1>5, <2>1
  <2> QED
    BY <1>2, <2>1, <2>2, <2>3 DEF Slept
<1>10. Counted(r, clock, TRUE)
  BY <1>1, <1>6 DEF TaskType, Counted
<1>11. TasksOK(task', clock, runs) /\ task'[t] = r
  <2>1. PICK ts : ts = [task EXCEPT ![t] = r]
    OBVIOUS
  <2>2. TasksOK(ts, clock, runs) /\ ts[t] = r /\ \A u \in Tasks \ {t} : ts[u] = task[u]
    BY <1>1, <1>8, <1>9, <1>10, <2>1, OneOK
  <2> QED
    BY <1>7, <2>1, <2>2
<1>12. r.state = "ready"
  BY <1>1, <1>6 DEF TaskType
<1> QED
  BY <1>1, <1>11, <1>12 DEF TimeInv

LEMMA PeriodStep ==
    ASSUME TimeInv, NEW t \in Tasks, NEW p \in Nat, pthread_make_periodic_np(t, p)
    PROVE  TimeInv'
<1>1. /\ task[t].state = "ready" /\ task[t] \in TaskType /\ t = runs
      /\ clock \in Nat /\ Slept(task[t], clock) /\ Counted(task[t], clock, TRUE)
      /\ task \in [Tasks -> TaskType] /\ clock' = clock /\ runs' = runs
  BY DEF pthread_make_periodic_np, CallsOf, TimeInv, TasksOK
<1>2. PICK r : r = [task[t] EXCEPT !.period = p, !.calls = task[t].calls + 1]
  OBVIOUS
<1>3. task' = [task EXCEPT ![t] = r]
  <2>1. task' = [task EXCEPT ![t].period = p, ![t].calls = @ + 1]
    BY DurationIs DEF pthread_make_periodic_np, pthread_setperiod_np_sys
  <2> QED
    BY <1>1, <1>2, <2>1 DEF TaskType
<1>4. r \in TaskType /\ r.state = "ready"
  <2>1. r \in TaskType
    <3>1. task[t].calls + 1 \in Nat
      BY <1>1 DEF TaskType
    <3> QED
      BY <1>1, <1>2, <3>1 DEF TaskType
  <2>2. r.state = "ready"
    BY <1>1, <1>2 DEF TaskType
  <2> QED
    BY <2>1, <2>2
<1>5. Slept(r, clock)
  BY <1>1, <1>2 DEF TaskType, Slept
<1>6. Counted(r, clock, TRUE)
  BY <1>1, <1>2 DEF TaskType, Counted
<1>7. TasksOK(task', clock, runs) /\ task'[t] = r
  <2>1. PICK ts : ts = [task EXCEPT ![t] = r]
    OBVIOUS
  <2>2. TasksOK(ts, clock, runs) /\ ts[t] = r /\ \A u \in Tasks \ {t} : ts[u] = task[u]
    BY <1>1, <1>4, <1>5, <1>6, <2>1, OneOK
  <2> QED
    BY <1>3, <2>1, <2>2
<1> QED
  BY <1>1, <1>4, <1>7 DEF TimeInv

LEMMA PassesStep ==
    ASSUME TimeInv, Passes
    PROVE  TimeInv'
<1>1. /\ clock \in Nat /\ clock' = clock + 1 /\ runs' = runs /\ runs \in Tasks
      /\ task \in [Tasks -> TaskType] /\ task[runs] \in TaskType
      /\ task[runs].state \in {"ready", "back"}
      /\ task' = [task EXCEPT ![runs].cpu = @ + 1]
  BY DEF Passes, TimeInv, TasksOK
<1>2. PICK r : r = [task[runs] EXCEPT !.cpu = task[runs].cpu + 1]
  OBVIOUS
<1>3. task' = [task EXCEPT ![runs] = r]
  BY <1>1, <1>2 DEF TaskType
<1>4. r \in TaskType /\ r.state = task[runs].state
  BY <1>1, <1>2 DEF TaskType
<1>5. task' \in [Tasks -> TaskType] /\ task'[runs] = r /\ \A u \in Tasks \ {runs} : task'[u] = task[u]
  BY <1>1, <1>3, <1>4
<1>6. \A u \in Tasks : Slept(task[u], clock) /\ Counted(task[u], clock, u = runs) /\ task[u] \in TaskType
  BY DEF TimeInv, TasksOK
<1>7. Slept(r, clock')
  BY <1>1, <1>2, <1>6 DEF TaskType, Slept
<1>8. Counted(r, clock', TRUE)
  <2>1. /\ r.used_time = task[runs].used_time /\ r.starting_time = task[runs].starting_time
        /\ r.first = task[runs].first /\ r.cpu = task[runs].cpu + 1
        /\ r.used_time \in Int /\ r.starting_time \in Nat /\ r.first \in Nat /\ task[runs].cpu \in Nat
    BY <1>1, <1>2 DEF TaskType
  <2>2. task[runs].used_time + clock - task[runs].starting_time = task[runs].first + task[runs].cpu
    BY <1>1, <1>6 DEF Counted
  <2>3. r.state # "new"
    BY <1>1, <1>4
  <2> QED
    BY <1>1, <2>1, <2>2, <2>3 DEF Counted
<1>9. ASSUME NEW u \in Tasks PROVE Slept(task'[u], clock') /\ Counted(task'[u], clock', u = runs)
  <2>1. CASE u = runs
    BY <1>5, <1>7, <1>8, <2>1
  <2>2. CASE u # runs
    <3>1. task'[u] = task[u] /\ Counted(task[u], clock, FALSE)
      BY <1>5, <1>6, <2>2
    <3>2. Slept(task[u], clock')
      BY <1>1, <1>6 DEF Slept, TaskType
    <3>3. Counted(task[u], clock', FALSE)
      BY <3>1 DEF Counted
    <3> QED
      BY <2>2, <3>1, <3>2, <3>3
  <2> QED
    BY <2>1, <2>2
<1>10. TasksOK(task', clock', runs)
  BY <1>5, <1>9 DEF TasksOK
<1> QED
  BY <1>1, <1>4, <1>5, <1>10 DEF TimeInv

LEMMA TimeNext == TimeInv /\ [JNext]_jvars => TimeInv'
<1> SUFFICES ASSUME TimeInv, [JNext]_jvars PROVE TimeInv'
  OBVIOUS
<1>0. Periods \subseteq Nat
  BY TimeCallsAssumption
<1>1. CASE UNCHANGED jvars
  BY <1>1 DEF jvars, TimeInv
<1>2. CASE Passes
  BY <1>2, PassesStep
<1>3. CASE task[runs].state = "ready" /\ scheduling(task)
  BY <1>3, SchedulingOK DEF TimeInv
<1>4. ASSUME NEW t \in Tasks, Wakes(t) \/ Resumes(t) \/ SleepEnds(t) PROVE TimeInv'
  BY <1>4, WakesStep, ResumesStep, SleepEndsStep
<1>5. ASSUME NEW t \in Tasks, pthread_wait_np(t) PROVE TimeInv'
  <2>1. task[t].period \in Nat
    BY DEF TimeInv, TasksOK, TaskType
  <2>2. sleep_for(t, task[t].period, task[t].period)
    BY <1>5, <2>1, DurationIs DEF pthread_wait_np, pthread_getperiod_np_sys, nanosleep_sys
  <2> QED
    BY <2>1, <2>2, SleepStep
<1>6. ASSUME NEW t \in Tasks, NEW p \in Periods, pthread_make_periodic_np(t, p) PROVE TimeInv'
  BY <1>0, <1>6, PeriodStep
<1>7. ASSUME NEW t \in Tasks, NEW p \in Periods, nanosleep_sys(t, timespec(p)) PROVE TimeInv'
  <2>1. p \in Nat /\ sleep_for(t, p, p)
    BY <1>0, <1>7, DurationIs DEF nanosleep_sys
  <2> QED
    BY <2>1, SleepStep
<1>8. ASSUME NEW t \in Tasks, NEW p \in Periods, usleep_sys(t, p) PROVE TimeInv'
  <2>1. PICK n \in Nat : n = p * NSECS_PER_USEC
    BY <1>0, SecondsAre
  <2>2. PICK L \in Nat \ {0} : L = Long
    BY SecondsAre
  <2>3. PICK d \in Nat, q \in Nat : d = n % L /\ n = L * q + d
    <3>1. n \div L \in Nat /\ n % L \in 0 .. L - 1 /\ n = L * (n \div L) + (n % L)
      BY Quotient
    <3> QED
      BY <3>1
  <2>4. d \in Nat /\ d <= n
    <3>1. L * q \in Nat
      OBVIOUS
    <3> QED
      BY <2>3, <3>1
  <2>5. sleep_for(t, d, n)
    BY <1>8, <2>1, <2>2, <2>3 DEF usleep_sys
  <2> QED
    BY <2>4, <2>5, SleepStep
<1> QED
  BY <1>1, <1>2, <1>3, <1>4, <1>5, <1>6, <1>7, <1>8 DEF JNext

LEMMA TimesFollow == TimeInv => TimesRight
<1> SUFFICES ASSUME TimeInv PROVE TimesRight
  OBVIOUS
<1>1. clock \in Nat /\ \A t \in Tasks : Slept(task[t], clock) /\ task[t] \in TaskType
  BY DEF TimeInv, TasksOK
<1>2. ASSUME NEW t \in Tasks
      PROVE  task[t].state = "ready" /\ task[t].ret = -1 =>
                task[t].cut /\ task[t].woken + task[t].rem <= task[t].begun + task[t].ask
  BY <1>1 DEF Slept
<1>3. LET mono == clock_gettime_sys("CLOCK_MONOTONIC")
          noon == gettimeofday_sys
      IN  mono[1] = time_sys /\ noon[1] = time_sys /\ mono[2] \div NSECS_PER_USEC = noon[2]
  <2>1. clock_gettime_sys("CLOCK_MONOTONIC") = <<clock \div NSECS_PER_SEC, clock % NSECS_PER_SEC>>
    BY DEF clock_gettime_sys, timespec
  <2>2. /\ clock \div NSECS_PER_SEC = (clock \div NSECS_PER_USEC) \div USECS_PER_SEC
        /\ (clock % NSECS_PER_SEC) \div NSECS_PER_USEC = (clock \div NSECS_PER_USEC) % USECS_PER_SEC
    BY <1>1, SecondsAre, ClocksAgree DEF NSECS_PER_SEC
  <2> QED
    BY <2>1, <2>2 DEF gettimeofday_sys, time_sys
<1>4. task[runs].state = "ready" =>
        duration(clock_gettime_sys("CLOCK_THREAD_CPUTIME_ID")) = task[runs].first + task[runs].cpu
  <2>1. /\ Counted(task[runs], clock, TRUE) /\ task[runs].first \in Nat /\ task[runs].cpu \in Nat
    BY DEF TimeInv, TasksOK, TaskType
  <2>2. PICK c \in Nat : c = task[runs].first + task[runs].cpu
    BY <2>1
  <2>3. read_thread_cputime(runs) = c
    BY <2>1, <2>2 DEF Counted, read_thread_cputime
  <2>4. clock_gettime_sys("CLOCK_THREAD_CPUTIME_ID") = timespec(c)
    BY <2>3 DEF clock_gettime_sys
  <2> QED
    BY <2>2, <2>4, DurationIs
<1> QED
  BY <1>2, <1>3, <1>4 DEF TimesRight

(* Only an interrupted sleep is told that time is left, and never more     *)
(* than its caller asked for (sleep_for, nanosleep_sys, and usleep_sys     *)
(* with its wrapped product), the clocks agree (clock_gettime_sys,         *)
(* gettimeofday_sys, time_sys), and CPU clocks advance by what scheduling()*)
(* lets the thread run, for any threads, periods, lengths of a second and  *)
(* of a word.  That an interrupted thread is told so, the code does not    *)
(* keep.                                                                   *)
THEOREM TimesRightHolds == JSpec => []TimesRight
<1> QED
  BY TimeInit, TimeNext, TimesFollow, PTL DEF JSpec
-----------------------------------------------------------------------------
(* The calendar: the day numbers of YearOf and DayOf run through the years *)
(* without a gap or an overlap, up to year 80 after 1970, although         *)
(* localtime_r corrects its guess of the year only once.                   *)
(* Leap days before the year 1970 + y.                                     *)
Leaps(y) == (y + 1) \div 4
YearOf(d) == (d - Leaps(d \div 365)) \div 365
DayOf(d) == d - Leaps(YearOf(d)) - 365 * YearOf(d)
(* Day d is the day z, from 0, of the year 1970 + y; only a leap year has  *)
(* a day 365.                                                              *)
DateIs(d, y, z) == d = 365 * y + Leaps(y) + z /\ (z = 365 => (y % 4) = 2)

(* The year and the day in it that localtime_r computes are those of the   *)
(* day: the one correction is enough.                                      *)
LEMMA YearDay ==
    ASSUME NEW d \in Nat, d < 365 * 80, NEW y, y = YearOf(d), NEW z, z = DayOf(d)
    PROVE  y \in 0 .. 80 /\ z \in 0 .. 365 /\ DateIs(d, y, z)
<1>1. PICK g \in Nat : g = d \div 365 /\ 365 * g <= d /\ d <= 365 * g + 364 /\ g <= 80
  BY SMT
<1>2. PICK l \in Nat : l = Leaps(g) /\ 4 * l <= g + 1 /\ g + 1 <= 4 * l + 3
  BY <1>1, SMT DEF Leaps
<1>3. y = (d - l) \div 365
  BY <1>1, <1>2, SMT DEF YearOf
<1>4. y \in Int /\ 365 * y <= d - l /\ d - l <= 365 * y + 364
  BY <1>1, <1>2, <1>3, SMT
<1>5. y \in Nat /\ y <= g /\ g <= y + 1 /\ y <= 80
  BY <1>1, <1>2, <1>4, SMT
<1>6. PICK n \in Nat : n = Leaps(y) /\ 4 * n <= y + 1 /\ y + 1 <= 4 * n + 3
  BY <1>5, SMT DEF Leaps
<1>7. z = d - n - 365 * y
  BY <1>6, SMT DEF DayOf
<1>8. z \in 0 .. 365 /\ (z = 365 => y + 2 = 4 * l /\ g = y + 1)
  <2>1. l = n \/ (l = n + 1 /\ g = y + 1)
    BY <1>2, <1>5, <1>6, SMT
  <2>2. z = (d - l - 365 * y) + (l - n)
    BY <1>2, <1>5, <1>6, <1>7, SMT
  <2>3. PICK a \in 0 .. 364 : a = d - l - 365 * y
    BY <1>2, <1>4, <1>5, SMT
  <2>4. z = a + (l - n)
    BY <2>2, <2>3
  <2>5. z \in 0 .. 365 /\ (z = 365 => l = n + 1)
    BY <1>2, <1>6, <2>1, <2>3, <2>4, SMT
  <2>6. l = n + 1 => y + 2 = 4 * l /\ g = y + 1
    BY <1>2, <1>5, <1>6, <2>1, SMT
  <2> QED
    BY <2>5, <2>6
<1>9. z = 365 => (y % 4) = 2
  BY <1>2, <1>5, <1>8, SMT
<1>10. z \in Int /\ n \in Int /\ y \in Int /\ d = 365 * y + n + z
  BY <1>5, <1>6, <1>7, <1>8, SMT
<1>11. y \in 0 .. 80
  BY <1>5, SMT
<1> QED
  BY <1>6, <1>8, <1>9, <1>10, <1>11 DEF DateIs

(* They are the only ones.                                                 *)
LEMMA YearIs ==
    ASSUME NEW d \in Nat, d < 365 * 80, NEW y \in Nat, NEW z \in 0 .. 365, DateIs(d, y, z)
    PROVE  YearOf(d) = y /\ DayOf(d) = z
<1>1. PICK n \in Nat : n = Leaps(y) /\ 4 * n <= y + 1 /\ y + 1 <= 4 * n + 3
  BY SMT DEF Leaps
<1>2. PICK w \in 0 .. 80, v \in 0 .. 365 :
        w = YearOf(d) /\ v = DayOf(d) /\ DateIs(d, w, v)
  <2>1. PICK w, v : w = YearOf(d) /\ v = DayOf(d)
    OBVIOUS
  <2>2. w \in 0 .. 80 /\ v \in 0 .. 365 /\ DateIs(d, w, v)
    BY <2>1, YearDay
  <2> QED
    BY <2>1, <2>2, Zenon
<1>3. PICK m \in Nat : m = Leaps(w) /\ 4 * m <= w + 1 /\ w + 1 <= 4 * m + 3
  BY SMT DEF Leaps
<1>4. 365 * y + n + z = 365 * w + m + v
  BY <1>1, <1>2, <1>3, SMT DEF DateIs
<1>5. ~(w < y)
  <2> SUFFICES ASSUME w < y PROVE FALSE
    BY SMT
  <2>1. m <= n
    BY <1>1, <1>3, SMT
  <2>2. v = 365 /\ w + 1 = y /\ m = n
    <3>1. PICK x \in Nat : x = y - w /\ x >= 1
      BY <1>2, SMT
    <3>2. 365 * x + (n - m) + z = v
      BY <1>1, <1>2, <1>3, <1>4, <3>1, SMT
    <3>3. PICK c \in Nat : c = n - m
      BY <1>1, <1>3, <2>1, SMT
    <3>4. 365 * x + c + z = v /\ v <= 365 /\ v \in Nat /\ z \in Nat
      BY <1>2, <3>2, <3>3, SMT
    <3>5. x = 1
      BY <3>1, <3>4, SMT
    <3>6. c = 0 /\ v = 365
      BY <3>4, <3>5, SMT
    <3> QED
      BY <1>1, <1>2, <1>3, <3>1, <3>3, <3>5, <3>6, SMT
  <2>3. (w % 4) = 2
    BY <1>2, <2>2, SMT DEF DateIs
  <2> QED
    BY <1>1, <1>3, <2>2, <2>3, SMT
<1>6. ~(y < w)
  <2> SUFFICES ASSUME y < w PROVE FALSE
    BY SMT
  <2>1. n <= m
    BY <1>1, <1>3, SMT
  <2>2. z = 365 /\ y + 1 = w /\ m = n
    <3>1. PICK x \in Nat : x = w - y /\ x >= 1
      BY <1>2, SMT
    <3>2. 365 * x + (m - n) + v = z
      BY <1>1, <1>2, <1>3, <1>4, <3>1, SMT
    <3>3. PICK c \in Nat : c = m - n
      BY <1>1, <1>3, <2>1, SMT
    <3>4. 365 * x + c + v = z /\ z <= 365 /\ z \in Nat /\ v \in Nat
      BY <1>2, <3>2, <3>3, SMT
    <3>5. x = 1
      BY <3>1, <3>4, SMT
    <3>6. c = 0 /\ z = 365
      BY <3>4, <3>5, SMT
    <3> QED
      BY <1>1, <1>2, <1>3, <3>1, <3>3, <3>5, <3>6, SMT
  <2>3. (y % 4) = 2
    BY <2>2, SMT DEF DateIs
  <2> QED
    BY <1>1, <1>3, <2>2, <2>3, SMT
<1>7. w = y
  BY <1>2, <1>5, <1>6, SMT
<1>8. n = m
  BY <1>1, <1>3, <1>7
<1>9. z = v
  <2>1. PICK a \in Nat : a = 365 * y + n
    BY <1>1, SMT
  <2>2. a + z = a + v
    BY <1>4, <1>7, <1>8, <2>1
  <2> QED
    BY <1>2, <2>1, <2>2, SMT
<1> QED
  BY <1>2, <1>7, <1>9

(* The next day is the next of the same year or the first of the next.     *)
LEMMA NextDay ==
    ASSUME NEW d \in Nat, d < 365 * 79, NEW y, y = YearOf(d), NEW z, z = DayOf(d)
    PROVE  /\ z < 364 \/ (z = 364 /\ (y % 4) = 2) => YearOf(d + 1) = y /\ DayOf(d + 1) = z + 1
           /\ (z = 364 /\ (y % 4) # 2) \/ z = 365 => YearOf(d + 1) = y + 1 /\ DayOf(d + 1) = 0
<1>1. y \in 0 .. 80 /\ z \in 0 .. 365 /\ DateIs(d, y, z)
  <2>1. d < 365 * 80
    BY SMT
  <2> QED
    BY <2>1, YearDay
<1>2. PICK n \in Nat, p \in Nat : /\ n = Leaps(y) /\ 4 * n <= y + 1 /\ y + 1 <= 4 * n + 3
                                  /\ p = Leaps(y + 1) /\ 4 * p <= y + 2 /\ y + 2 <= 4 * p + 3
  BY <1>1, SMT DEF Leaps
<1>3. ASSUME z < 364 \/ (z = 364 /\ (y % 4) = 2) PROVE YearOf(d + 1) = y /\ DayOf(d + 1) = z + 1
  <2>1. z + 1 \in 0 .. 365 /\ DateIs(d + 1, y, z + 1)
    BY <1>1, <1>2, <1>3, SMT DEF DateIs
  <2> QED
    <3>1. PICK e, x : e = d + 1 /\ x = z + 1
      OBVIOUS
    <3>2. e \in Nat /\ e < 365 * 80
      BY <3>1, SMT
    <3>3. x \in 0 .. 365 /\ DateIs(e, y, x)
      BY <2>1, <3>1
    <3>4. y \in Nat
      BY <1>1, SMT
    <3>5. YearOf(e) = y /\ DayOf(e) = x
      BY <3>2, <3>3, <3>4, YearIs
    <3> QED
      BY <3>1, <3>5
<1>4. ASSUME (z = 364 /\ (y % 4) # 2) \/ z = 365 PROVE YearOf(d + 1) = y + 1 /\ DayOf(d + 1) = 0
  <2>1. (y % 4) = 2 => p = n + 1
    BY <1>1, <1>2, SMT
  <2>2. (y % 4) # 2 => p = n
    BY <1>1, <1>2, SMT
  <2>3. PICK e \in Nat, x \in Nat, o \in 0 .. 365 : e = d + 1 /\ x = y + 1 /\ o = 0
    BY <1>1, SMT
  <2>4. d = 365 * y + n + z
    BY <1>1, <1>2 DEF DateIs
  <2>5. e = 365 * x + p + o
    <3>1. (z = 364 /\ p = n) \/ (z = 365 /\ p = n + 1)
      BY <1>1, <1>4, <2>1, <2>2, Zenon DEF DateIs
    <3>2. d = 365 * y + p + 364
      BY <1>1, <1>2, <2>4, <3>1, SMT
    <3>3. y \in Nat
      BY <1>1, SMT
    <3>4. d + 1 = 365 * (y + 1) + p
      BY <3>2, <3>3, SMT
    <3> QED
      BY <2>3, <3>3, <3>4, SMT
  <2>7. e < 365 * 80 /\ o # 365
    BY <2>3, SMT
  <2>6. DateIs(e, x, o)
    BY <1>2, <2>3, <2>5, <2>7 DEF DateIs
  <2>8. YearOf(e) = x /\ DayOf(e) = o
    BY <2>6, <2>7, YearIs
  <2> QED
    BY <2>3, <2>8
<1> QED
  BY <1>3, <1>4, SMT

(* The tables of the months rise from 0.                                   *)
MonthTable(T) ==
    /\ T \in [1 .. 13 -> Nat] /\ T[1] = 0 /\ T[2] > 0 /\ T[12] = T[13] - 31
    /\ \A i \in 1 .. 12 : \A j \in (i + 1) .. 13 : T[i] < T[j]

LEMMA TablesAre ==
    /\ MonthTable(days_to_month) /\ days_to_month[13] = 365
    /\ MonthTable(days_to_month_leap) /\ days_to_month_leap[13] = 366
<1>1. PICK T : T = days_to_month
  OBVIOUS
<1>2. T \in [1 .. 13 -> Nat]
  BY <1>1, SMT DEF days_to_month
<1>3. /\ T[1] = 0 /\ T[2] = 31 /\ T[3] = 59 /\ T[4] = 90 /\ T[5] = 120 /\ T[6] = 151 /\ T[7] = 181
      /\ T[8] = 212 /\ T[9] = 243 /\ T[10] = 273 /\ T[11] = 304 /\ T[12] = 334 /\ T[13] = 365
  BY <1>1, SMT DEF days_to_month
<1>4. \A i \in 1 .. 12 : \A j \in (i + 1) .. 13 : T[i] < T[j]
  BY <1>3, SMT
<1>5. MonthTable(T)
  BY <1>2, <1>3, <1>4, SMT DEF MonthTable
<1>11. PICK U : U = days_to_month_leap
  OBVIOUS
<1>12. U \in [1 .. 13 -> Nat]
  BY <1>11, SMT DEF days_to_month_leap
<1>13. /\ U[1] = 0 /\ U[2] = 31 /\ U[3] = 60 /\ U[4] = 91 /\ U[5] = 121 /\ U[6] = 152 /\ U[7] = 182
       /\ U[8] = 213 /\ U[9] = 244 /\ U[10] = 274 /\ U[11] = 305 /\ U[12] = 335 /\ U[13] = 366
  BY <1>11, SMT DEF days_to_month_leap
<1>14. \A i \in 1 .. 12 : \A j \in (i + 1) .. 13 : U[i] < U[j]
  BY <1>13, SMT
<1>15. MonthTable(U)
  BY <1>12, <1>13, <1>14, SMT DEF MonthTable
<1> QED
  BY <1>1, <1>3, <1>5, <1>11, <1>13, <1>15

(* The month of a day.                                                     *)
InMonth(T, m, z) == T[m] <= z /\ z < T[m + 1]
MonthOf(T, z) == CHOOSE m \in 1 .. 12 : InMonth(T, m, z)

(* Every day of the table is in a month, and in one only.                  *)
LEMMA MonthExists ==
    ASSUME NEW T, MonthTable(T), NEW z \in Nat, z < T[13]
    PROVE  MonthOf(T, z) \in 1 .. 12 /\ InMonth(T, MonthOf(T, z), z)
<1>1. \E m \in 1 .. 12 : InMonth(T, m, z)
  <2> SUFFICES ASSUME \A m \in 1 .. 12 : ~InMonth(T, m, z) PROVE FALSE
    OBVIOUS
  <2>0. T[1] <= z
    BY SMT DEF MonthTable
  <2>a. T \in [1 .. 13 -> Nat]
    BY DEF MonthTable
  <2>1. \A m \in 1 .. 12 : T[m] <= z => T[m + 1] <= z
    BY <2>a, SMT DEF InMonth
  <2>2. T[2] <= z
    BY <2>0, <2>1, SMT
  <2>3. T[3] <= z
    BY <2>2, <2>1, SMT
  <2>4. T[4] <= z
    BY <2>3, <2>1, SMT
  <2>5. T[5] <= z
    BY <2>4, <2>1, SMT
  <2>6. T[6] <= z
    BY <2>5, <2>1, SMT
  <2>7. T[7] <= z
    BY <2>6, <2>1, SMT
  <2>8. T[8] <= z
    BY <2>7, <2>1, SMT
  <2>9. T[9] <= z
    BY <2>8, <2>1, SMT
  <2>10. T[10] <= z
    BY <2>9, <2>1, SMT
  <2>11. T[11] <= z
    BY <2>10, <2>1, SMT
  <2>12. T[12] <= z
    BY <2>11, <2>1, SMT
  <2>13. T[13] <= z
    BY <2>12, <2>1, SMT
  <2> QED
    BY <2>a, <2>13, SMT
<1> QED
  BY <1>1, Zenon DEF MonthOf

LEMMA MonthUnique ==
    ASSUME NEW T, MonthTable(T), NEW z \in Nat, z < T[13], NEW m \in 1 .. 12, InMonth(T, m, z)
    PROVE  MonthOf(T, z) = m
<1>1. PICK n \in 1 .. 12 : n = MonthOf(T, z) /\ InMonth(T, n, z)
  BY MonthExists
<1>2. T \in [1 .. 13 -> Nat] /\ \A i \in 1 .. 12 : \A j \in (i + 1) .. 13 : T[i] < T[j]
  BY DEF MonthTable
<1>3. ~(n < m)
  <2> SUFFICES ASSUME n < m PROVE FALSE
    OBVIOUS
  <2>1. n + 1 = m \/ T[n + 1] < T[m]
    BY <1>2, SMT
  <2> QED
    BY <1>1, <1>2, <2>1, SMT DEF InMonth
<1>4. ~(m < n)
  <2> SUFFICES ASSUME m < n PROVE FALSE
    OBVIOUS
  <2>1. m + 1 = n \/ T[m + 1] < T[n]
    BY <1>2, SMT
  <2> QED
    BY <1>1, <1>2, <2>1, SMT DEF InMonth
<1> QED
  BY <1>1, <1>3, <1>4, SMT

(* The month of the next day of the same year.                             *)
LEMMA NextMonth ==
    ASSUME NEW T, MonthTable(T), NEW z \in Nat, z + 1 < T[13], NEW m, m = MonthOf(T, z),
           NEW n, n = MonthOf(T, z + 1)
    PROVE  /\ m \in 1 .. 12
           /\ n = m \/ (n = m + 1 /\ T[n] = z + 1)
<1>1. T \in [1 .. 13 -> Nat]
  BY DEF MonthTable
<1>2. z < T[13]
  BY <1>1, SMT
<1>3. m \in 1 .. 12 /\ InMonth(T, m, z)
  BY <1>2, MonthExists
<1>4. PICK x \in Nat : x = z + 1
  BY SMT
<1>5. CASE x < T[m + 1]
  <2>1. InMonth(T, m, x)
    BY <1>1, <1>3, <1>4, <1>5, SMT DEF InMonth
  <2>2. x < T[13]
    BY <1>4
  <2>3. MonthOf(T, x) = m
    BY <1>3, <2>1, <2>2, MonthUnique
  <2> QED
    BY <1>3, <1>4, <2>3
<1>6. CASE ~(x < T[m + 1])
  <2>1. T[m + 1] = x
    BY <1>1, <1>3, <1>4, <1>6, SMT DEF InMonth
  <2>2. m + 1 \in 1 .. 12
    BY <1>1, <1>3, <1>4, <2>1, SMT
  <2>3. PICK i \in 1 .. 12 : i = m + 1
    BY <2>2
  <2>4. i + 1 \in (i + 1) .. 13
    BY SMT
  <2>5. InMonth(T, i, x)
    <3>1. T[i] < T[i + 1]
      BY <2>4 DEF MonthTable
    <3>2. T[i] = x
      BY <2>1, <2>3
    <3>3. x <= x
      BY SMT
    <3> QED
      BY <3>1, <3>2, <3>3 DEF InMonth
  <2>6. x < T[13]
    BY <1>4
  <2>7. MonthOf(T, x) = i
    BY <2>5, <2>6, MonthUnique
  <2> QED
    BY <1>3, <1>4, <2>1, <2>3, <2>7
<1> QED
  BY <1>5, <1>6

(* The last day of a year is the 31st of the twelfth month.                *)
LEMMA EndMonths ==
    ASSUME NEW T, MonthTable(T), NEW z \in Nat, z + 1 = T[13]
    PROVE  MonthOf(T, z) = 12 /\ T[12] = z - 30 
<1>1. T \in [1 .. 13 -> Nat] /\ T[1] = 0 /\ T[2] > 0 /\ T[12] = T[13] - 31
  BY DEF MonthTable
<1>2. InMonth(T, 12, z) /\ 12 \in 1 .. 12 /\ z < T[13]
  BY <1>1, SMT DEF InMonth
<1>3. MonthOf(T, z) = 12
  BY <1>2, MonthUnique
<1> QED
  BY <1>1, <1>3, SMT

(* The first day of a year is in the first month.                          *)
LEMMA FirstMonth ==
    ASSUME NEW T, MonthTable(T)
    PROVE  MonthOf(T, 0) = 1 /\ T[1] = 0
<1>1. T \in [1 .. 13 -> Nat] /\ T[1] = 0 /\ T[2] > 0 /\ T[1] < T[13]
  BY SMT DEF MonthTable
<1>2. PICK o \in Nat : o = 0
  BY SMT
<1>3. InMonth(T, 1, o) /\ o < T[13] /\ 1 \in 1 .. 12
  BY <1>1, <1>2, SMT DEF InMonth
<1>4. MonthOf(T, o) = 1
  BY <1>3, MonthUnique
<1> QED
  BY <1>1, <1>2, <1>4

LeapYear(y) == (y % 4) = 2

(* The table of the year 1970 + y; to 2050, every fourth year is leap.     *)
Tab(y) == Table(y + EPOCH_YEAR)

LEMMA YearFacts ==
    ASSUME NEW y \in 0 .. 80
    PROVE  /\ leap_years_from_epoch(y + EPOCH_YEAR) = Leaps(y)
           /\ MonthTable(Tab(y))
           /\ LeapYear(y) => Tab(y)[13] = 366
           /\ ~LeapYear(y) => Tab(y)[13] = 365
<1>1. leap_years_from_epoch(y + EPOCH_YEAR) = Leaps(y)
  BY SMT DEF EPOCH_YEAR, EPOCH_LEAP, leap_years_from_epoch, Leaps
<1>2. isleap(y + EPOCH_YEAR) <=> (y % 4) = 2
  <2>1. PICK c \in Nat : c = y + EPOCH_YEAR /\ c = y + 1970 /\ 1970 <= c /\ c <= 2050
    BY SMT DEF EPOCH_YEAR
  <2>2. (c % 4 = 0) <=> (y % 4) = 2
    BY <2>1, SMT
  <2>3. c % 100 = 0 => c = 2000
    BY <2>1, SMT
  <2>4. c = 2000 => c % 400 = 0
    BY <2>1, SMT
  <2>5. isleap(c) <=> c % 4 = 0
    BY <2>3, <2>4, SMT DEF isleap
  <2> QED
    BY <2>1, <2>2, <2>5, SMT
<1>3. Tab(y) = IF (y % 4) = 2 THEN days_to_month_leap ELSE days_to_month
  BY <1>2, Zenon DEF Tab, Table
<1> QED
  BY <1>1, <1>3, TablesAre DEF LeapYear

(* The time of the day.                                                    *)
LEMMA ClockFacts ==
    ASSUME NEW d \in Nat, d < 365 * 80, NEW s \in 0 .. SECSPERDAY - 1, NEW t, t = d * SECSPERDAY + s
    PROVE  /\ t \in Nat /\ t \div SECSPERDAY = d
           /\ (t % SECSPERDAY) \div SECSPERHOUR = s \div SECSPERHOUR
           /\ (t % SECSPERHOUR) \div SECSPERMIN = (s % SECSPERHOUR) \div SECSPERMIN
           /\ t % SECSPERMIN = s % SECSPERMIN
           /\ (s \div SECSPERHOUR) * SECSPERHOUR + ((s % SECSPERHOUR) \div SECSPERMIN) * SECSPERMIN
                 + (s % SECSPERMIN) = s
<1> USE DEF SECSPERDAY, SECSPERHOUR, SECSPERMIN
<1>0. t \in Nat /\ t = 86400 * d + s /\ 0 <= s /\ s < 86400 /\ s \in Nat
  BY SMT
<1>1. t \in Nat /\ t \div SECSPERDAY = d /\ t % SECSPERDAY = s
  <2>1. t \div 86400 = d
    BY <1>0, SMT
  <2>2. t % 86400 = s
    <3>1. PICK r \in Int : r = t % 86400 /\ t = 86400 * (t \div 86400) + r
      BY <1>0, SMT
    <3>2. 86400 * d + s = 86400 * d + r
      BY <1>0, <2>1, <3>1
    <3> QED
      BY <1>0, <3>1, <3>2, SMT
  <2> QED
    BY <1>0, <2>1, <2>2, SMT
<1>2. t % SECSPERHOUR = s % SECSPERHOUR
  BY SMT
<1>3. t % SECSPERMIN = s % SECSPERMIN
  BY SMT
<1>4. (s \div SECSPERHOUR) * SECSPERHOUR + ((s % SECSPERHOUR) \div SECSPERMIN) * SECSPERMIN
                 + (s % SECSPERMIN) = s
  BY SMT
<1> QED
  BY <1>1, <1>2, <1>3, <1>4, SMT

(* The date of second s of day d, which is day z of the year 1970 + y.     *)
Date(d, s, y, z) ==
    [year |-> y + EPOCH_YEAR - TM_YEAR_BASE, mon |-> MonthOf(Tab(y), z) - 1,
     mday |-> z - Tab(y)[MonthOf(Tab(y), z)] + 1, yday |-> z,
     hour |-> s \div SECSPERHOUR, min |-> (s % SECSPERHOUR) \div SECSPERMIN,
     sec |-> s % SECSPERMIN, wday |-> (d + EPOCH_WDAY) % 7]

(* What localtime_r computes.                                              *)
LocalYear(e) == (e - leap_years_from_epoch(e \div 365 + EPOCH_YEAR)) \div 365
LocalDay(e) == (e - leap_years_from_epoch(LocalYear(e) + EPOCH_YEAR)) % 365
LocalDate(t, e) ==
    [year |-> LocalYear(e) + EPOCH_YEAR - TM_YEAR_BASE,
     mon |-> MonthOf(Tab(LocalYear(e)), LocalDay(e)) - 1,
     mday |-> LocalDay(e) - Tab(LocalYear(e))[MonthOf(Tab(LocalYear(e)), LocalDay(e))] + 1,
     yday |-> LocalDay(e),
     hour |-> (t % SECSPERDAY) \div SECSPERHOUR, min |-> (t % SECSPERHOUR) \div SECSPERMIN,
     sec |-> t % SECSPERMIN, wday |-> (e + EPOCH_WDAY) % 7]

LEMMA LocalTime ==
    ASSUME NEW d \in Nat, d < 365 * 80, NEW s \in 0 .. SECSPERDAY - 1, NEW t, t = d * SECSPERDAY + s
    PROVE  localtime_r(t) = Date(d, s, YearOf(d), DayOf(d) % 365)
<1>1. /\ t \in Nat /\ t \div SECSPERDAY = d
      /\ (t % SECSPERDAY) \div SECSPERHOUR = s \div SECSPERHOUR
      /\ (t % SECSPERHOUR) \div SECSPERMIN = (s % SECSPERHOUR) \div SECSPERMIN
      /\ t % SECSPERMIN = s % SECSPERMIN
  BY ClockFacts
<1>2. PICK y \in 0 .. 80, z \in 0 .. 365 : y = YearOf(d) /\ z = DayOf(d) /\ DateIs(d, y, z)
  <2>1. PICK w, v : w = YearOf(d) /\ v = DayOf(d)
    OBVIOUS
  <2>2. w \in 0 .. 80 /\ v \in 0 .. 365 /\ DateIs(d, w, v)
    BY <2>1, YearDay
  <2> QED
    BY <2>1, <2>2, Zenon
<1>3. PICK g \in 0 .. 80 : g = d \div 365
  BY SMT
<1>4. y = (d - leap_years_from_epoch(g + EPOCH_YEAR)) \div 365
  BY <1>2, <1>3, YearFacts DEF YearOf
<1>5. (d - leap_years_from_epoch(y + EPOCH_YEAR)) % 365 = z % 365
  <2>1. leap_years_from_epoch(y + EPOCH_YEAR) = Leaps(y)
    BY YearFacts
  <2>2. PICK n \in Nat : n = Leaps(y)
    BY SMT DEF Leaps
  <2>3. d = 365 * y + n + z
    BY <1>2, <2>2 DEF DateIs
  <2>4. d - n = 365 * y + z
    BY <2>3, SMT
  <2>5. (365 * y + z) % 365 = z % 365
    BY SMT
  <2> QED
    BY <2>1, <2>2, <2>4, <2>5
<1>6. localtime_r(t) = Date(d, s, y, z % 365)
  <2>1. localtime_r(t) = LocalDate(t, t \div SECSPERDAY)
    BY Zenon DEF localtime_r, LocalDate, LocalYear, LocalDay, MonthOf, InMonth, Tab
  <2>2. localtime_r(t) = LocalDate(t, d)
    BY <1>1, <2>1
  <2>3. LocalYear(d) = y
    BY <1>3, <1>4 DEF LocalYear
  <2>4. LocalDay(d) = z % 365
    BY <1>5, <2>3 DEF LocalDay
  <2> QED
    BY <1>1, <2>2, <2>3, <2>4 DEF Date, LocalDate
<1> QED
  BY <1>2, <1>6

(* The days that CalendarRight leaves out are those with the number 365:   *)
(* the last days of leap years.                                            *)
LEMMA LeapEndIs ==
    ASSUME NEW d \in Nat, d < 365 * 79, sec \in 0 .. SECSPERDAY - 1
    PROVE  /\ Now(d) + SECSPERDAY = Now(d + 1)
           /\ LeapEnd(d) <=> DayOf(d) = 365
<1>1. Now(d) + SECSPERDAY = Now(d + 1)
  BY SMT DEF Now, SECSPERDAY
<1>2. localtime_r(Now(d)).yday = DayOf(d) % 365
  <2>1. PICK t, s : t = Now(d) /\ s = sec
    OBVIOUS
  <2>2. t = d * SECSPERDAY + s /\ s \in 0 .. SECSPERDAY - 1
    BY <2>1 DEF Now
  <2>3. d < 365 * 80
    BY SMT
  <2>4. localtime_r(t) = Date(d, s, YearOf(d), DayOf(d) % 365)
    BY <2>2, <2>3, LocalTime
  <2> QED
    BY <2>1, <2>4 DEF Date
<1>3. localtime_r(Now(d + 1)).yday = DayOf(d + 1) % 365
  <2>1. PICK t, s, e : t = Now(d + 1) /\ s = sec /\ e = d + 1
    OBVIOUS
  <2>2. t = e * SECSPERDAY + s /\ s \in 0 .. SECSPERDAY - 1
    BY <2>1 DEF Now
  <2>3. e \in Nat /\ e < 365 * 80
    BY <2>1, SMT
  <2>4. localtime_r(t) = Date(e, s, YearOf(e), DayOf(e) % 365)
    BY <2>2, <2>3, LocalTime
  <2> QED
    BY <2>1, <2>4 DEF Date
<1>4. PICK y, z, v : y = YearOf(d) /\ z = DayOf(d) /\ v = DayOf(d + 1)
  OBVIOUS
<1>5. /\ z < 364 \/ (z = 364 /\ (y % 4) = 2) => v = z + 1
      /\ (z = 364 /\ (y % 4) # 2) \/ z = 365 => v = 0
  BY <1>4, NextDay
<1>6. z \in 0 .. 365 /\ DateIs(d, y, z)
  <2>1. d < 365 * 80
    BY SMT
  <2> QED
    BY <1>4, <2>1, YearDay
<1>7. (z % 365 = 0 /\ v % 365 = 0) <=> z = 365
  <2>1. CASE z = 365
    BY <1>5, <2>1, SMT
  <2>2. CASE z # 365
    <3>1. z \in 0 .. 364
      BY <1>6, <2>2, SMT
    <3>2. z % 365 = 0 => z = 0
      BY <3>1, SMT
    <3>3. z = 0 => v = 1
      BY <1>5, SMT
    <3>4. v = 1 => v % 365 = 1
      BY SMT
    <3> QED
      BY <2>2, <3>2, <3>3, <3>4
  <2> QED
    BY <2>1, <2>2
<1>8. LeapEnd(d) <=> (z % 365 = 0 /\ v % 365 = 0)
  BY <1>1, <1>2, <1>3, <1>4 DEF LeapEnd
<1> QED
  BY <1>1, <1>4, <1>7, <1>8

(* mktime takes a date back to its time.                                   *)
LEMMA MktimeBack ==
    ASSUME NEW d \in Nat, d < 365 * 80, NEW s \in 0 .. SECSPERDAY - 1, NEW y \in 0 .. 80,
           NEW z \in 0 .. 364, DateIs(d, y, z)
    PROVE  mktime(Date(d, s, y, z)) = d * SECSPERDAY + s
<1>1. /\ leap_years_from_epoch(y + EPOCH_YEAR) = Leaps(y)
      /\ MonthTable(Tab(y))
      /\ Tab(y)[13] = 365 \/ Tab(y)[13] = 366
  BY YearFacts
<1>2. z \in Nat /\ z < Tab(y)[13]
  <2>1. z \in Nat /\ z < 365 /\ z < 366
    BY SMT
  <2> QED
    BY <1>1, <2>1
<1>3. PICK T : T = Tab(y)
  OBVIOUS
<1>3a. PICK m \in 1 .. 12 : m = MonthOf(T, z)
  BY <1>1, <1>2, <1>3, MonthExists
<1>4. T \in [1 .. 13 -> Nat]
  BY <1>1, <1>3 DEF MonthTable
<1>5. PICK tm : tm = Date(d, s, y, z)
  OBVIOUS
<1>6. PICK h \in Nat, i \in Nat, c \in Nat :
        /\ h = s \div SECSPERHOUR /\ i = (s % SECSPERHOUR) \div SECSPERMIN /\ c = s % SECSPERMIN
        /\ h * SECSPERHOUR + i * SECSPERMIN + c = s
  <2>1. s \div SECSPERHOUR \in Nat /\ (s % SECSPERHOUR) \div SECSPERMIN \in Nat /\ s % SECSPERMIN \in Nat
    <3>1. s \in Nat
      BY SMT DEF SECSPERDAY
    <3>2. s \div SECSPERHOUR \in Nat
      BY <3>1, SMT DEF SECSPERHOUR
    <3>3. PICK r \in Nat : r = s % SECSPERHOUR
      BY <3>1, SMT DEF SECSPERHOUR
    <3>4. r \div SECSPERMIN \in Nat
      BY <3>3, SMT DEF SECSPERMIN
    <3>5. s % SECSPERMIN \in Nat
      BY <3>1, SMT DEF SECSPERMIN
    <3> QED
      BY <3>2, <3>3, <3>4, <3>5
  <2>2. PICK t : t = d * SECSPERDAY + s
    OBVIOUS
  <2>3. (s \div SECSPERHOUR) * SECSPERHOUR + ((s % SECSPERHOUR) \div SECSPERMIN) * SECSPERMIN
                 + (s % SECSPERMIN) = s
    BY <2>2, ClockFacts
  <2> QED
    BY <2>1, <2>3, Zenon
<1>7. /\ tm.year = y + EPOCH_YEAR - TM_YEAR_BASE /\ tm.mon = m - 1 /\ tm.mday = z - T[m] + 1
      /\ tm.hour = h /\ tm.min = i /\ tm.sec = c
  BY <1>3, <1>3a, <1>5, <1>6 DEF Date
<1>8. tm.year + TM_YEAR_BASE = y + EPOCH_YEAR /\ (y + EPOCH_YEAR) - EPOCH_YEAR = y
  BY <1>7, SMT DEF EPOCH_YEAR, TM_YEAR_BASE
<1>9. tm.mon + 1 = m
  BY <1>7, SMT
<1>10. mktime(tm) = (365 * y + Leaps(y) + T[m] + tm.mday - 1) * SECSPERDAY
                      + h * SECSPERHOUR + i * SECSPERMIN + c
  <2>1. mktime(tm) =
          (365 * ((tm.year + TM_YEAR_BASE) - EPOCH_YEAR) + leap_years_from_epoch(tm.year + TM_YEAR_BASE)
             + Table(tm.year + TM_YEAR_BASE)[tm.mon + 1] + tm.mday - 1) * SECSPERDAY
            + tm.hour * SECSPERHOUR + tm.min * SECSPERMIN + tm.sec
    BY SMT DEF mktime
  <2>2. (tm.year + TM_YEAR_BASE) - EPOCH_YEAR = y
    BY <1>8
  <2>3. leap_years_from_epoch(tm.year + TM_YEAR_BASE) = Leaps(y)
    BY <1>1, <1>8
  <2>4. Table(tm.year + TM_YEAR_BASE)[tm.mon + 1] = T[m]
    BY <1>3, <1>8, <1>9 DEF Tab
  <2> QED
    BY <1>7, <2>1, <2>2, <2>3, <2>4
<1>11. PICK n \in Nat : n = Leaps(y)
  BY SMT DEF Leaps
<1>12. 365 * y + n + T[m] + tm.mday - 1 = d
  <2>1. d = 365 * y + n + z
    BY <1>11 DEF DateIs
  <2>2. PICK q \in Nat : q = T[m]
    BY <1>4, SMT
  <2>3. tm.mday = z - q + 1
    BY <1>7, <2>2
  <2>4. 365 * y + n + q + tm.mday - 1 = d
    BY <2>1, <2>3, SMT
  <2> QED
    BY <2>2, <2>4
<1>13. mktime(tm) = d * SECSPERDAY + h * SECSPERHOUR + i * SECSPERMIN + c
  BY <1>10, <1>11, <1>12
<1>14. d * SECSPERDAY + h * SECSPERHOUR + i * SECSPERMIN + c = d * SECSPERDAY + s
  <2>1. PICK p \in Nat : p = d * SECSPERDAY
    BY SMT DEF SECSPERDAY
  <2>2. PICK q \in Nat : q = h * SECSPERHOUR
    BY SMT DEF SECSPERHOUR
  <2>3. PICK r \in Nat : r = i * SECSPERMIN
    BY SMT DEF SECSPERMIN
  <2>4. q + r + c = s
    BY <1>6, <2>2, <2>3
  <2>5. p + q + r + c = p + s
    BY <2>4, SMT
  <2> QED
    BY <2>1, <2>2, <2>3, <2>5
<1> QED
  BY <1>5, <1>13, <1>14

(* The three ways from a date to the next.                                 *)
Fields(a, b, c, e, h, i, j, w) ==
    [year |-> a, mon |-> b, mday |-> c, yday |-> e, hour |-> h, min |-> i, sec |-> j, wday |-> w]

AddDay(tm) == [tm EXCEPT !.mday = @ + 1, !.yday = @ + 1, !.wday = (@ + 1) % 7]
AddMonth(tm) == [tm EXCEPT !.mday = 1, !.mon = @ + 1, !.yday = @ + 1, !.wday = (@ + 1) % 7]
AddYear(tm) == [tm EXCEPT !.mday = 1, !.mon = 0, !.year = @ + 1, !.yday = 0, !.wday = (@ + 1) % 7]

LEMMA FieldsExcept ==
    ASSUME NEW a, NEW b, NEW c, NEW e, NEW h, NEW i, NEW j, NEW w, NEW tm, tm = Fields(a, b, c, e, h, i, j, w)
    PROVE  /\ AddDay(tm) = Fields(a, b, c + 1, e + 1, h, i, j, (w + 1) % 7)
           /\ AddMonth(tm) = Fields(a, b + 1, 1, e + 1, h, i, j, (w + 1) % 7)
           /\ AddYear(tm) = Fields(a + 1, 0, 1, 0, h, i, j, (w + 1) % 7)
           /\ tm.mon = b /\ tm.mday = c
<1>1. PICK c1, e1, w1, b1, a1 : c1 = c + 1 /\ e1 = e + 1 /\ w1 = (w + 1) % 7 /\ b1 = b + 1 /\ a1 = a + 1
  OBVIOUS
<1>2. tm.year = a /\ tm.mon = b /\ tm.mday = c /\ tm.yday = e /\ tm.wday = w
  BY DEF Fields
<1>3. AddDay(tm) = Fields(a, b, c1, e1, h, i, j, w1)
  <2>1. AddDay(tm) = [[[tm EXCEPT !.mday = c1] EXCEPT !.yday = e1] EXCEPT !.wday = w1]
    BY <1>1, <1>2, Zenon DEF AddDay
  <2>2. PICK r2 : r2 = [tm EXCEPT !.mday = c1]
    OBVIOUS
  <2>3. r2 = Fields(a, b, c1, e, h, i, j, w)
    BY <2>2, SMT DEF Fields
  <2>4. PICK r4 : r4 = [r2 EXCEPT !.yday = e1]
    OBVIOUS
  <2>5. r4 = Fields(a, b, c1, e1, h, i, j, w)
    BY <2>4, <2>3, SMT DEF Fields
  <2>6. PICK r6 : r6 = [r4 EXCEPT !.wday = w1]
    OBVIOUS
  <2>7. r6 = Fields(a, b, c1, e1, h, i, j, w1)
    BY <2>6, <2>5, SMT DEF Fields
  <2> QED
    BY <2>1, <2>2, <2>3, <2>4, <2>5, <2>6, <2>7, Zenon
<1>4. AddMonth(tm) = Fields(a, b1, 1, e1, h, i, j, w1)
  <2>1. AddMonth(tm) = [[[[tm EXCEPT !.mday = 1] EXCEPT !.mon = b1] EXCEPT !.yday = e1] EXCEPT !.wday = w1]
    BY <1>1, <1>2, Zenon DEF AddMonth
  <2>2. PICK r2 : r2 = [tm EXCEPT !.mday = 1]
    OBVIOUS
  <2>3. r2 = Fields(a, b, 1, e, h, i, j, w)
    BY <2>2, SMT DEF Fields
  <2>4. PICK r4 : r4 = [r2 EXCEPT !.mon = b1]
    OBVIOUS
  <2>5. r4 = Fields(a, b1, 1, e, h, i, j, w)
    BY <2>4, <2>3, SMT DEF Fields
  <2>6. PICK r6 : r6 = [r4 EXCEPT !.yday = e1]
    OBVIOUS
  <2>7. r6 = Fields(a, b1, 1, e1, h, i, j, w)
    BY <2>6, <2>5, SMT DEF Fields
  <2>8. PICK r8 : r8 = [r6 EXCEPT !.wday = w1]
    OBVIOUS
  <2>9. r8 = Fields(a, b1, 1, e1, h, i, j, w1)
    BY <2>8, <2>7, SMT DEF Fields
  <2> QED
    BY <2>1, <2>2, <2>3, <2>4, <2>5, <2>6, <2>7, <2>8, <2>9, Zenon
<1>5. AddYear(tm) = Fields(a1, 0, 1, 0, h, i, j, w1)
  <2>1. AddYear(tm) = [[[[[tm EXCEPT !.mday = 1] EXCEPT !.mon = 0] EXCEPT !.year = a1] EXCEPT !.yday = 0]
                          EXCEPT !.wday = w1]
    BY <1>1, <1>2, Zenon DEF AddYear
  <2>2. PICK r2 : r2 = [tm EXCEPT !.mday = 1]
    OBVIOUS
  <2>3. r2 = Fields(a, b, 1, e, h, i, j, w)
    BY <2>2, SMT DEF Fields
  <2>4. PICK r4 : r4 = [r2 EXCEPT !.mon = 0]
    OBVIOUS
  <2>5. r4 = Fields(a, 0, 1, e, h, i, j, w)
    BY <2>4, <2>3, SMT DEF Fields
  <2>6. PICK r6 : r6 = [r4 EXCEPT !.year = a1]
    OBVIOUS
  <2>7. r6 = Fields(a1, 0, 1, e, h, i, j, w)
    BY <2>6, <2>5, SMT DEF Fields
  <2>8. PICK r8 : r8 = [r6 EXCEPT !.yday = 0]
    OBVIOUS
  <2>9. r8 = Fields(a1, 0, 1, 0, h, i, j, w)
    BY <2>8, <2>7, SMT DEF Fields
  <2>10. PICK r10 : r10 = [r8 EXCEPT !.wday = w1]
    OBVIOUS
  <2>11. r10 = Fields(a1, 0, 1, 0, h, i, j, w1)
    BY <2>10, <2>9, SMT DEF Fields
  <2> QED
    <3>1. AddYear(tm) = [[[[r2 EXCEPT !.mon = 0] EXCEPT !.year = a1] EXCEPT !.yday = 0] EXCEPT !.wday = w1]
      BY <2>1, <2>2, Zenon
    <3>2. AddYear(tm) = [[[r4 EXCEPT !.year = a1] EXCEPT !.yday = 0] EXCEPT !.wday = w1]
      BY <2>4, <3>1, Zenon
    <3>3. AddYear(tm) = r10
      BY <2>6, <2>8, <2>10, <3>2, Zenon
    <3> QED
      BY <2>11, <3>3
<1> QED
  BY <1>1, <1>2, <1>3, <1>4, <1>5

NextDates(tm, next) ==
    \/ next = AddDay(tm)
    \/ next = AddMonth(tm)
    \/ tm.mon = 11 /\ tm.mday = 31 /\ next = AddYear(tm)

LEMMA NextDate ==
    ASSUME NEW d \in Nat, d < 365 * 79, NEW s, NEW y, y = YearOf(d), NEW z, z = DayOf(d), z # 365,
           NEW x, x = YearOf(d + 1), NEW v, v = DayOf(d + 1), v # 365
    PROVE  NextDates(Date(d, s, y, z), Date(d + 1, s, x, v))
<1>1. /\ z < 364 \/ (z = 364 /\ (y % 4) = 2) => x = y /\ v = z + 1
      /\ (z = 364 /\ (y % 4) # 2) \/ z = 365 => x = y + 1 /\ v = 0
  BY NextDay
<1>2. y \in 0 .. 80 /\ z \in 0 .. 365 /\ DateIs(d, y, z)
  <2>1. d < 365 * 80
    BY SMT
  <2> QED
    BY <2>1, YearDay
<1>3. z \in 0 .. 364
  BY <1>2, SMT
<1>4. \/ z < 364 /\ x = y /\ v = z + 1
      \/ z = 364 /\ (y % 4) # 2 /\ x = y + 1 /\ v = 0
  <2>1. CASE z < 364
    BY <1>1, <2>1
  <2>2. CASE z = 364 /\ (y % 4) = 2
    <3>1. v = 365
      BY <1>1, <2>2, SMT
    <3> QED
      BY <3>1
  <2>3. CASE z = 364 /\ (y % 4) # 2
    BY <1>1, <2>3
  <2> QED
    BY <1>3, <2>1, <2>2, <2>3, SMT
<1>5. PICK w, u : /\ w = (d + EPOCH_WDAY) % 7 /\ u = ((d + 1) + EPOCH_WDAY) % 7
                  /\ u = (w + 1) % 7
  BY SMT DEF EPOCH_WDAY
<1>6. PICK h, i, j : h = s \div SECSPERHOUR /\ i = (s % SECSPERHOUR) \div SECSPERMIN /\ j = s % SECSPERMIN
  OBVIOUS
<1>7. PICK T, m : T = Tab(y) /\ m = MonthOf(T, z)
  OBVIOUS
<1>8. PICK a : a = y + (EPOCH_YEAR - TM_YEAR_BASE)
  OBVIOUS
<1>9. PICK tm : tm = Date(d, s, y, z)
  OBVIOUS
<1>10. PICK b, c : b = m - 1 /\ c = (z - T[m]) + 1
  OBVIOUS
<1>10a. tm = Fields(a, b, c, z, h, i, j, w)
  BY <1>5, <1>6, <1>7, <1>8, <1>9, <1>10 DEF Date, Fields
<1>10b. /\ AddDay(tm) = Fields(a, b, c + 1, z + 1, h, i, j, (w + 1) % 7)
        /\ AddMonth(tm) = Fields(a, b + 1, 1, z + 1, h, i, j, (w + 1) % 7)
        /\ AddYear(tm) = Fields(a + 1, 0, 1, 0, h, i, j, (w + 1) % 7)
        /\ tm.mon = b /\ tm.mday = c
  <2>1. AddDay(tm) = Fields(a, b, c + 1, z + 1, h, i, j, (w + 1) % 7)
    BY <1>10a, FieldsExcept
  <2>2. AddMonth(tm) = Fields(a, b + 1, 1, z + 1, h, i, j, (w + 1) % 7)
    BY <1>10a, FieldsExcept
  <2>3. AddYear(tm) = Fields(a + 1, 0, 1, 0, h, i, j, (w + 1) % 7)
    BY <1>10a, FieldsExcept
  <2>4. tm.mon = b /\ tm.mday = c
    BY <1>10a DEF Fields
  <2> QED
    BY <2>1, <2>2, <2>3, <2>4
<1>11. MonthTable(T) /\ (~LeapYear(y) => T[13] = 365) /\ (T[13] = 365 \/ T[13] = 366)
  BY <1>2, <1>7, YearFacts
<1>12. PICK next : next = Date(d + 1, s, x, v)
  OBVIOUS
<1>13. CASE z < 364 /\ x = y /\ v = z + 1
  <2>1. z + 1 < T[13] /\ z \in Nat
    <3>1. z + 1 < 365 /\ z + 1 < 366 /\ z \in Nat
      BY <1>3, <1>13, SMT
    <3> QED
      BY <1>11, <3>1
  <2>2. PICK n : n = MonthOf(T, z + 1)
    OBVIOUS
  <2>3. m \in 1 .. 12 /\ (n = m \/ (n = m + 1 /\ T[n] = z + 1))
    BY <1>7, <1>11, <2>1, <2>2, NextMonth
  <2>4. next = Fields(a, n - 1, (v - T[n]) + 1, v, h, i, j, u)
    BY <1>5, <1>6, <1>7, <1>8, <1>12, <1>13, <2>2 DEF Date, Fields
  <2>5. T \in [1 .. 13 -> Nat]
    BY <1>11 DEF MonthTable
  <2>6. CASE n = m
    <3>1. PICK q \in Nat : q = T[m]
      BY <2>3, <2>5, SMT
    <3>2. (v - q) + 1 = ((z - q) + 1) + 1
      BY <1>3, <1>13, <3>1, SMT
    <3>3. next = Fields(a, m - 1, ((z - T[m]) + 1) + 1, z + 1, h, i, j, (w + 1) % 7)
      BY <1>5, <1>13, <2>4, <2>6, <3>1, <3>2
    <3>4. next = AddDay(tm)
      BY <1>10, <1>10b, <3>3
    <3> QED
      BY <1>9, <1>12, <3>4 DEF NextDates
  <2>7. CASE n = m + 1 /\ T[n] = z + 1
    <3>1. (v - T[n]) + 1 = 1
      BY <1>3, <1>13, <2>7, SMT
    <3>2. n - 1 = (m - 1) + 1
      BY <2>3, <2>7, SMT
    <3>3. next = Fields(a, (m - 1) + 1, 1, z + 1, h, i, j, (w + 1) % 7)
      BY <1>5, <1>13, <2>4, <3>1, <3>2
    <3>4. next = AddMonth(tm)
      BY <1>10, <1>10b, <3>3
    <3> QED
      BY <1>9, <1>12, <3>4 DEF NextDates
  <2> QED
    BY <2>3, <2>6, <2>7
<1>14. CASE z = 364 /\ (y % 4) # 2 /\ x = y + 1 /\ v = 0
  <2>1. z \in Nat /\ z + 1 = T[13]
    <3>1. z \in Nat /\ z + 1 = 365
      BY <1>14, SMT
    <3> QED
      BY <1>11, <1>14, <3>1 DEF LeapYear
  <2>2. MonthOf(T, z) = 12 /\ T[12] = z - 30
    BY <1>11, <2>1, EndMonths
  <2>3. x \in 0 .. 80
    <3>1. PICK e : e = d + 1
      OBVIOUS
    <3>2. e \in Nat /\ e < 365 * 80
      BY <3>1, SMT
    <3>3. YearOf(e) \in 0 .. 80
      BY <3>2, YearDay
    <3> QED
      BY <3>1, <3>3
  <2>4. PICK U : U = Tab(x)
    OBVIOUS
  <2>5. MonthTable(U) /\ (U[13] = 365 \/ U[13] = 366)
    BY <2>3, <2>4, YearFacts
  <2>6. MonthOf(U, 0) = 1 /\ U[1] = 0
    BY <2>5, FirstMonth
  <2>7. PICK bb : bb = x + (EPOCH_YEAR - TM_YEAR_BASE)
    OBVIOUS
  <2>8. bb = a + 1
    BY <1>2, <1>8, <1>14, <2>7, SMT DEF EPOCH_YEAR, TM_YEAR_BASE
  <2>9. next = Fields(bb, 1 - 1, (0 - 0) + 1, 0, h, i, j, u)
    BY <1>5, <1>6, <1>12, <1>14, <2>4, <2>6, <2>7 DEF Date, Fields
  <2>10. 1 - 1 = 0 /\ (0 - 0) + 1 = 1
    BY SMT
  <2>11. next = Fields(a + 1, 0, 1, 0, h, i, j, (w + 1) % 7)
    BY <1>5, <2>8, <2>9, <2>10
  <2>12. m - 1 = 11 /\ (z - T[m]) + 1 = 31
    <3>1. m = 12
      BY <1>7, <2>2
    <3>2. T[m] = 364 - 30
      BY <1>14, <2>2, <3>1
    <3> QED
      BY <1>14, <3>1, <3>2, SMT
  <2>13. next = AddYear(tm)
    BY <1>10b, <2>11
  <2>14. tm.mon = 11 /\ tm.mday = 31
    BY <1>10, <1>10b, <2>12
  <2> QED
    BY <1>9, <1>12, <2>13, <2>14 DEF NextDates
<1> QED
  BY <1>4, <1>13, <1>14

(* The days that the clock shows.                                          *)
CalInv == day \in Nat /\ day <= LastDay /\ sec \in 0 .. SECSPERDAY - 1

LEMMA DaysAre == LastDay \in Nat /\ LastDay < 365 * 70
  BY CalendarAssumption, SMT DEF MaxDay

LEMMA CalInvInit == CalInit => CalInv
<1>1. 0 \in 0 .. SECSPERDAY - 1
  BY SMT DEF SECSPERDAY
<1> QED
  BY <1>1, DaysAre, SMT DEF CalInit, CalInv

LEMMA CalInvNext == CalInv /\ [CalNext]_<<day, sec>> => CalInv'
<1> SUFFICES ASSUME CalInv, [CalNext]_<<day, sec>> PROVE CalInv'
  OBVIOUS
<1>1. CASE CalNext
  <2>1. sec' \in 0 .. SECSPERDAY - 1
    BY <1>1, CalendarAssumption DEF CalNext
  <2>2. CASE day \in DOMAIN Jump
    <3>1. day' \in 0 .. LastDay
      BY <1>1, <2>2, CalendarAssumption DEF CalNext
    <3>2. day' \in Nat /\ day' <= LastDay
      BY <3>1, DaysAre, SMT
    <3> QED
      BY <2>1, <3>2 DEF CalInv
  <2>3. CASE day \notin DOMAIN Jump
    <3>1. day' = day + 1 /\ day < LastDay
      BY <1>1, <2>3 DEF CalNext
    <3>2. day' \in Nat /\ day' <= LastDay
      BY <3>1, DaysAre, SMT DEF CalInv
    <3> QED
      BY <2>1, <3>2 DEF CalInv
  <2> QED
    BY <2>2, <2>3
<1>2. CASE UNCHANGED <<day, sec>>
  BY <1>2 DEF CalInv
<1> QED
  BY <1>1, <1>2

LEMMA CalendarFollows == CalInv => CalendarRight
<1> SUFFICES ASSUME CalInv, ~LeapEnd(day) PROVE
        /\ mktime(localtime_r(Now(day))) = Now(day)
        /\ ~LeapEnd(day + 1) => NextDates(localtime_r(Now(day)), localtime_r(Now(day) + SECSPERDAY))
  BY Zenon DEF CalendarRight, NextDates, AddDay, AddMonth, AddYear
<1>1. PICK d, e, s : d = day /\ e = day + 1 /\ s = sec
  OBVIOUS
<1>2. d \in Nat /\ d < 365 * 79 /\ d < 365 * 80 /\ e \in Nat /\ e < 365 * 79 /\ e < 365 * 80
  BY <1>1, DaysAre, SMT DEF CalInv
<1>3. sec \in 0 .. SECSPERDAY - 1 /\ s \in 0 .. SECSPERDAY - 1
  BY <1>1 DEF CalInv
<1>4. Now(d) + SECSPERDAY = Now(e) /\ (LeapEnd(d) <=> DayOf(d) = 365)
  BY <1>1, <1>2, <1>3, LeapEndIs
<1>5. LeapEnd(e) <=> DayOf(e) = 365
  BY <1>2, <1>3, LeapEndIs
<1>6. Now(d) = d * SECSPERDAY + s /\ Now(e) = e * SECSPERDAY + s
  BY <1>1 DEF Now
<1>7. PICK y, z, x, v : y = YearOf(d) /\ z = DayOf(d) /\ x = YearOf(e) /\ v = DayOf(e)
  OBVIOUS
<1>8. y \in 0 .. 80 /\ z \in 0 .. 365 /\ DateIs(d, y, z)
  BY <1>2, <1>7, YearDay
<1>9. x \in 0 .. 80 /\ v \in 0 .. 365 /\ DateIs(e, x, v)
  BY <1>2, <1>7, YearDay
<1>10. z # 365
  BY <1>1, <1>4, <1>7
<1>11. z \in 0 .. 364 /\ z % 365 = z
  BY <1>8, <1>10, SMT
<1>12. localtime_r(Now(d)) = Date(d, s, y, z)
  <2>1. localtime_r(Now(d)) = Date(d, s, YearOf(d), DayOf(d) % 365)
    BY <1>2, <1>3, <1>6, LocalTime
  <2> QED
    BY <1>7, <1>11, <2>1
<1>13. mktime(localtime_r(Now(d))) = Now(d)
  <2>1. mktime(Date(d, s, y, z)) = d * SECSPERDAY + s
    BY <1>2, <1>3, <1>8, <1>11, MktimeBack
  <2> QED
    BY <1>6, <1>12, <2>1
<1>14. ASSUME ~LeapEnd(e) PROVE NextDates(localtime_r(Now(d)), localtime_r(Now(e)))
  <2>1. v # 365
    BY <1>5, <1>7, <1>14
  <2>2. v % 365 = v
    <3>1. v \in 0 .. 364
      BY <1>9, <2>1, SMT
    <3> QED
      BY <3>1, SMT
  <2>3. localtime_r(Now(e)) = Date(e, s, x, v)
    <3>1. localtime_r(Now(e)) = Date(e, s, YearOf(e), DayOf(e) % 365)
      BY <1>2, <1>3, <1>6, LocalTime
    <3> QED
      BY <1>7, <2>2, <3>1
  <2>4. NextDates(Date(d, s, y, z), Date(d + 1, s, x, v))
    BY <1>1, <1>2, <1>7, <1>10, <2>1, NextDate
  <2> QED
    BY <1>1, <1>12, <2>3, <2>4
<1> QED
  BY <1>1, <1>4, <1>13, <1>14

(* For every day to the end of a 32-bit time_t and every second of it:     *)
(* mktime takes what localtime_r makes of a time back to it, and the date  *)
(* of the next day is the next date, but for the last day of a leap year.  *)
THEOREM CalendarRightHolds == CalSpec => []CalendarRight
  BY CalInvInit, CalInvNext, CalendarFollows, PTL DEF CalSpec
=============================================================================
