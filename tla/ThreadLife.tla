----------------------------- MODULE ThreadLife -----------------------------
(***************************************************************************)
(* The life of threads (port/pthread.c: create, join, detach, cancel,      *)
(* exit) and signals (port/signal.c), with the timer interrupt that        *)
(* preempts them and may send signals itself (common/irqs-l4.c).           *)
(*                                                                         *)
(* A thread leaves every system call (arm/dispatch_syscalls.c), and every  *)
(* interrupt that it was current in, through do_signals.  frames[t] are    *)
(* the activations of do_signals on its kernel stack, innermost last; back *)
(* is where the thread goes on after it.  Signals are numbers, as in       *)
(* signal.h.  The handlers of user signals only return.                    *)
(*                                                                         *)
(* role: which threads are created and who joins whom, who is cancelled,   *)
(* which signals are sent to whom, whether the timer interrupts, and which *)
(* of the other calls are made (ops).                                      *)
(***************************************************************************)
EXTENDS KThreads

CONSTANTS
    Main,       \* mainapp_thread
    Base,       \* priority of each thread
    UserSigs,   \* user signals that are used
    SaMasks,    \* the masks their handlers are installed with
    MaxNest,    \* bound: activations of do_signals on one stack
    MAX_CLEANUP_HANDLERS,
    Roles

CANCEL_SIGNAL == 1
SLEEP_SIGNAL  == 2
WAKEUP_SIGNAL == 3
FIRST_USER_SIGNAL == 6
non_maskable_signals == {CANCEL_SIGNAL, SLEEP_SIGNAL, WAKEUP_SIGNAL}
Signals == non_maskable_signals \cup UserSigs

ASSUME LifeAssumption ==
    /\ Main \in Threads /\ Base \in [Threads -> Prios]
    /\ UserSigs \subseteq FIRST_USER_SIGNAL .. 31 /\ SaMasks \subseteq SUBSET UserSigs
    /\ MaxNest \in Nat \ {0} /\ MAX_CLEANUP_HANDLERS \in Nat
    /\ Roles \subseteq [threads : SUBSET Threads, joins : SUBSET (Threads \X Threads),
                        ops : SUBSET STRING,
                        cancel : SUBSET Threads, send : SUBSET Signals,
                        to : SUBSET Threads, irq : BOOLEAN, irqsend : SUBSET Signals]

VARIABLES
    role, k, cur,
    pc,         \* where each thread goes on when it is dispatched
    frames,     \* its activations of do_signals
    th,         \* its structure: see ThreadType
    handler,    \* signal_table of the user signals: h, sa_handler; m, sa_mask
    timer,      \* its sleep_ktimer is armed
    over        \* exit_sys was called

lvars == <<role, k, cur, pc, frames, th, handler, timer, over>>

(* "run": in the application; "join", "susp": after scheduling() in        *)
(* pthread_join_sys and sigsuspend_sys; "sig": before do_signals; "loop":  *)
(* in its loop; "hdl": in the handler of a user signal; "slp0", "slp1":    *)
(* before and after suspend_thread in SLEEP_THREAD_handler; "exit0",       *)
(* "exit1": before and after finish_thread in pthread_exit_sys.            *)
PCs    == {"run", "join", "susp", "sig", "loop", "hdl", "slp0", "slp1",
           "exit0", "exit1", "dead"}
Masked == {"join", "susp", "loop"}
Actions == [h : {"IGN", "DFL", "user"}, m : SUBSET UserSigs]

(* joining: joining_thread; nocancel: the cancel state; aos:               *)
(* activate_on_signal; obj, saved, set: locals of the blocked system call  *)
(* (the thread joined, old_mask, the set of sigwait); app: the mask that   *)
(* the application set last.                                               *)
ThreadType ==
    [joining : Threads \cup {NULL}, detach : BOOLEAN, nocancel : BOOLEAN,
     pend : SUBSET Signals, mask : SUBSET UserSigs, aos : BOOLEAN,
     top : 0 .. MAX_CLEANUP_HANDLERS, obj : Threads \cup {NULL},
     saved : SUBSET UserSigs, set : SUBSET UserSigs, app : SUBSET UserSigs]
FrameType == [left : SUBSET Signals, old : SUBSET UserSigs, back : PCs]

NewThread ==
    [joining |-> NULL, detach |-> FALSE, nocancel |-> FALSE, pend |-> {}, mask |-> {},
     aos |-> FALSE, top |-> 0, obj |-> NULL, saved |-> {}, set |-> {}, app |-> {}]

LTypeOK ==
    /\ role \in Roles /\ k \in KType /\ cur \in Threads \cup {Idle}
    /\ pc \in [Threads -> PCs] /\ over \in BOOLEAN
    /\ \A t \in Threads : /\ Len(frames[t]) <= MaxNest
                          /\ \A i \in DOMAIN frames[t] : frames[t][i] \in FrameType
    /\ th \in [Threads -> ThreadType] /\ handler \in [UserSigs -> Actions]
    /\ timer \in [Threads -> BOOLEAN]

LInit ==
    /\ role \in Roles /\ cur = Main /\ over = FALSE
    /\ k = activate_thread(Asleep({Main}, Base), Main)
    /\ pc = [t \in Threads |-> "run"] /\ frames = [t \in Threads |-> <<>>]
    /\ th = [t \in Threads |-> NewThread] 
    /\ handler = [s \in UserSigs |-> [h |-> "IGN", m |-> {s}]]
    /\ timer = [t \in Threads |-> FALSE]

At(t, p) == ~over /\ cur = t /\ pc[t] = p
Exists(t) == k.st[t] # "FREE"
Goto(t, p) == pc' = [pc EXCEPT ![t] = p]

(* do_signals is called, and then the thread goes on at b.                 *)
CallSignals(t, b) ==
    /\ Goto(t, "sig")
    /\ frames' = [frames EXCEPT ![t] = Append(@, [left |-> {}, old |-> {}, back |-> b])]

(* A system call that did not block returns.                               *)
Returns(t) == CallSignals(t, "run")
Call(t) == At(t, "run")

-----------------------------------------------------------------------------
(* Threads.                                                                *)

pthread_create_sys(t) ==
    /\ Call(t)
    /\ \E u \in role.threads :
           /\ ~Exists(u)
           /\ k' = activate_thread([k EXCEPT !.st[u] = "SUSPENDED", !.prio[u] = Base[u]], u)
           /\ th' = [th EXCEPT ![u] = NewThread]
           /\ frames' = [frames EXCEPT ![u] = <<>>,
                            ![t] = Append(@, [left |-> {}, old |-> {}, back |-> "run"])]
           /\ pc' = [pc EXCEPT ![u] = "run", ![t] = "sig"]
           /\ timer' = [timer EXCEPT ![u] = FALSE]
    /\ cur' = scheduling(k')
    /\ UNCHANGED <<role, handler, over>>

delete_pthread_struct(u) == k' = [k EXCEPT !.st[u] = "FREE"]

(* The loop of pthread_join_sys: the thread joined is FINISHED or the      *)
(* caller blocks.                                                          *)
JoinLoop(t, u) ==
    IF k.st[u] = "FINISHED"
    THEN /\ delete_pthread_struct(u) /\ Returns(t)
         /\ th' = [th EXCEPT ![t].obj = NULL] /\ UNCHANGED cur
    ELSE /\ k' = suspend_thread(k, t) /\ cur' = scheduling(k')
         /\ th' = [th EXCEPT ![u].joining = t, ![t].obj = u]
         /\ Goto(t, "join") /\ UNCHANGED frames

pthread_join_sys(t) ==
    /\ Call(t)
    /\ \E u \in Threads : <<t, u>> \in role.joins /\ Exists(u)
                          /\ ~th[u].detach              \* else EINVAL
                          /\ JoinLoop(t, u)
    /\ UNCHANGED <<role, handler, timer, over>>

(* Slip: a thread that was woken does not look at the state again.         *)
pthread_join_resumes_Once(t) ==
    /\ At(t, "join")
    /\ delete_pthread_struct(th[t].obj) /\ Returns(t)
    /\ th' = [th EXCEPT ![t].obj = NULL]
    /\ UNCHANGED <<role, cur, handler, timer, over>>

pthread_join_resumes(t) ==
    /\ At(t, "join")
    /\ IF th[th[t].obj].detach                          \* EINVAL
       THEN Returns(t) /\ th' = [th EXCEPT ![t].obj = NULL] /\ UNCHANGED <<k, cur>>
       ELSE JoinLoop(t, th[t].obj)
    /\ UNCHANGED <<role, handler, timer, over>>

(* The thread that is woken is the joiner of the caller, whichever thread  *)
(* is detached: callers that nobody joins would follow a null pointer.     *)
pthread_detach_sys(t) ==
    /\ Call(t) /\ "detach" \in role.ops /\ th[t].joining # NULL
    /\ \E u \in Threads :
           /\ Exists(u) /\ ~th[u].detach
           /\ u # t => \A v \in Threads : th[v].obj # u
           /\ th' = [th EXCEPT ![u].detach = TRUE, ![t].joining = NULL]
    /\ k' = activate_thread(k, th[t].joining)
    /\ cur' = scheduling(k') /\ Returns(t)
    /\ UNCHANGED <<role, handler, timer, over>>

pthread_setcancelstate_sys(t) ==
    /\ Call(t) /\ t \in role.cancel /\ "cancelstate" \in role.ops
    /\ th' = [th EXCEPT ![t].nocancel = ~@] /\ Returns(t)
    /\ UNCHANGED <<role, k, cur, handler, timer, over>>

pthread_cleanup_push_sys(t) ==
    /\ Call(t) /\ "cleanup" \in role.ops /\ th[t].top < MAX_CLEANUP_HANDLERS
    /\ th' = [th EXCEPT ![t].top = @ + 1] /\ Returns(t)
    /\ UNCHANGED <<role, k, cur, handler, timer, over>>

pthread_cleanup_pop_sys(t) ==
    /\ Call(t) /\ "cleanup" \in role.ops /\ th[t].top > 0
    /\ th' = [th EXCEPT ![t].top = @ - 1] /\ Returns(t)
    /\ UNCHANGED <<role, k, cur, handler, timer, over>>

pthread_yield_sys(t) ==
    /\ Call(t) /\ "yield" \in role.ops
    /\ k' = [k EXCEPT !.rq = [Without(k, t) EXCEPT ![k.prio[t]] = Append(@, t)]]
    /\ cur' = scheduling(k') /\ Returns(t)
    /\ UNCHANGED <<role, th, handler, timer, over>>

(* pthread_exit_sys is no critical section: it is FINISHED, and gone from  *)
(* the ready queues, before it wakes its joiner.                           *)
pthread_exit_sys(t) ==
    /\ Call(t) /\ Goto(t, "exit0")
    /\ UNCHANGED <<role, k, cur, frames, th, handler, timer, over>>

ExitFinishes(t) ==
    /\ At(t, "exit0") /\ Goto(t, "exit1")
    /\ timer' = [timer EXCEPT ![t] = FALSE] /\ k' = finish_thread(k, t)
    /\ UNCHANGED <<role, cur, frames, th, handler, over>>

(* Slip: the joiner is not woken if the thread was detached or cancelled.  *)
ExitWakes_NotCancelled(t) ==
    /\ At(t, "exit1") /\ Goto(t, "dead")
    /\ th' = [th EXCEPT ![t].top = 0]
    /\ k' = IF th[t].detach \/ th[t].joining = NULL \/ frames[t] # <<>> THEN k
            ELSE activate_thread(k, th[t].joining)
    /\ over' = (t = Main) /\ cur' = IF t = Main THEN cur ELSE scheduling(k')
    /\ UNCHANGED <<role, frames, handler, timer>>

ExitWakes(t) ==
    /\ At(t, "exit1") /\ Goto(t, "dead")
    /\ th' = [th EXCEPT ![t].top = 0]
    /\ k' = IF th[t].detach \/ th[t].joining = NULL THEN k
            ELSE activate_thread(k, th[t].joining)
    /\ over' = (t = Main) /\ cur' = IF t = Main THEN cur ELSE scheduling(k')
    /\ UNCHANGED <<role, frames, handler, timer>>

-----------------------------------------------------------------------------
(* Signals.                                                                *)

Blocked(u) == th[u].mask \ non_maskable_signals

(* Slip: the target is not woken when it waits in sigwait.                 *)
Kill_NoAos(u, s) ==
    /\ th' = [th EXCEPT ![u].pend = @ \cup {s}]
    /\ k' = IF (th[u].pend \cup {s}) \ Blocked(u) # {} THEN activate_thread(k, u) ELSE k

(* The target is woken for any unblocked pending signal, not only for s.   *)
Kill(u, s) ==
    /\ th' = [th EXCEPT ![u].pend = @ \cup {s}]
    /\ k' = IF (th[u].pend \cup {s}) \ Blocked(u) # {} \/ th[u].aos
            THEN activate_thread(k, u) ELSE k

pthread_kill_sys(t) ==
    /\ Call(t)
    /\ \E u \in role.to, s \in role.send : Exists(u) /\ Kill(u, s)
    /\ Returns(t)
    /\ UNCHANGED <<role, cur, handler, timer, over>>

pthread_cancel_sys(t) ==
    /\ Call(t)
    /\ \E u \in role.cancel : Exists(u) /\ Kill(u, CANCEL_SIGNAL)
    /\ Returns(t)
    /\ UNCHANGED <<role, cur, handler, timer, over>>

pthread_sigmask_sys(t) ==
    /\ Call(t) /\ t \in role.to /\ "sigmask" \in role.ops
    /\ \E m \in SUBSET UserSigs :
           /\ m # th[t].mask
           /\ th' = [th EXCEPT ![t].mask = m, ![t].app = m]
    /\ Returns(t)
    /\ UNCHANGED <<role, k, cur, handler, timer, over>>

sigaction_sys(t) ==
    /\ Call(t) /\ t \notin role.to /\ "sigaction" \in role.ops
    /\ \E s \in UserSigs, act \in [h : {"IGN", "DFL", "user"}, m : SaMasks] : handler' = [handler EXCEPT ![s] = act]
    /\ Returns(t)
    /\ UNCHANGED <<role, k, cur, th, timer, over>>

(* sigsuspend_sys with mask m; in sigwait_sys with m = set # {}.           *)
Suspend(t, m, set) ==
    /\ th' = [th EXCEPT ![t].saved = th[t].mask, ![t].mask = m, ![t].set = set,
                        ![t].aos = (set # {})]
    /\ k' = suspend_thread(k, t) /\ cur' = scheduling(k')
    /\ Goto(t, "susp") /\ UNCHANGED frames

(* It does not look at the signals that are pending already.               *)
sigsuspend_sys(t) ==
    /\ Call(t) /\ t \in role.to /\ "sigsuspend" \in role.ops
    /\ \E m \in SUBSET UserSigs : Suspend(t, m, {})
    /\ UNCHANGED <<role, handler, timer, over>>

ffs(S) == CHOOSE s \in S : \A r \in S : s <= r

TakeOne(t, S) ==
    LET hit == th[t].pend \cap S
    IN  [th[t] EXCEPT !.pend = IF hit = {} THEN @ ELSE @ \ {ffs(hit)},
                      !.set = {}, !.aos = FALSE]

sigwait_sys(t) ==
    /\ Call(t) /\ t \in role.to /\ "sigwait" \in role.ops
    /\ \E S \in SUBSET UserSigs \ {{}} :
           IF th[t].pend \cap S # {}
           THEN th' = [th EXCEPT ![t] = TakeOne(t, S)] /\ Returns(t) /\ UNCHANGED <<k, cur>>
           ELSE Suspend(t, S, S)
    /\ UNCHANGED <<role, handler, timer, over>>

(* After scheduling() the old mask is back before do_signals looks at what *)
(* woke the thread.                                                        *)
sigsuspend_resumes(t) ==
    /\ At(t, "susp")
    /\ LET r == IF th[t].set = {} THEN th[t] ELSE TakeOne(t, th[t].set)
       IN  th' = [th EXCEPT ![t] = [r EXCEPT !.mask = th[t].saved, !.saved = {}]]
    /\ Returns(t)
    /\ UNCHANGED <<role, k, cur, handler, timer, over>>

-----------------------------------------------------------------------------
(* do_signals: takes the unblocked pending signals, and holds CANCEL back  *)
(* while cancellation is disabled.                                         *)
Top(t) == frames[t][Len(frames[t])]

(* Slip: the blocked signals are cleared with those that are handled.      *)
do_signals_ClearsAll(t) ==
    /\ At(t, "sig") /\ Goto(t, "loop")
    /\ LET take == th[t].pend \ Blocked(t)
           now  == IF th[t].nocancel THEN take \ {CANCEL_SIGNAL} ELSE take
       IN  /\ th' = [th EXCEPT ![t].pend = {}]
           /\ frames' = [frames EXCEPT ![t][Len(frames[t])] =
                            [@ EXCEPT !.left = now, !.old = th[t].mask]]
    /\ UNCHANGED <<role, k, cur, handler, timer, over>>

do_signals(t) ==
    /\ At(t, "sig") /\ Goto(t, "loop")
    /\ LET take == th[t].pend \ Blocked(t)
           now  == IF th[t].nocancel THEN take \ {CANCEL_SIGNAL} ELSE take
       IN  /\ th' = [th EXCEPT ![t].pend = @ \ now]
           /\ frames' = [frames EXCEPT ![t][Len(frames[t])] =
                            [@ EXCEPT !.left = now, !.old = th[t].mask]]
    /\ UNCHANGED <<role, k, cur, handler, timer, over>>

HandlerOf(s) == IF s \in UserSigs THEN handler[s].h
                ELSE IF s = CANCEL_SIGNAL THEN "cancel"
                ELSE IF s = SLEEP_SIGNAL THEN "sleep" ELSE "IGN"

(* The next handler is called, with interrupts enabled.                    *)
SignalHandled(t) ==
    /\ At(t, "loop") /\ Top(t).left # {}
    /\ LET s == ffs(Top(t).left)
           h == HandlerOf(s)
       IN  /\ frames' = [frames EXCEPT ![t][Len(frames[t])].left = @ \ {s}]
           /\ th' = [th EXCEPT ![t].mask = IF s \in UserSigs THEN Top(t).old \cup handler[s].m \cup {s}
                                             ELSE Top(t).old]
           /\ Goto(t, CASE h = "cancel" -> "exit0" [] h = "sleep" -> "slp0"
                        [] h = "user" -> "hdl" [] OTHER -> "loop")
           /\ over' = (h = "DFL")
    /\ UNCHANGED <<role, k, cur, handler, timer>>

(* Slip: the mask of the last handler stays.                               *)
SignalsDone_KeepMask(t) ==
    /\ At(t, "loop") /\ Top(t).left = {}
    /\ frames' = [frames EXCEPT ![t] = SubSeq(@, 1, Len(@) - 1)]
    /\ Goto(t, Top(t).back)
    /\ UNCHANGED <<role, k, cur, th, handler, timer, over>>

SignalsDone(t) ==
    /\ At(t, "loop") /\ Top(t).left = {}
    /\ th' = [th EXCEPT ![t].mask = Top(t).old]
    /\ frames' = [frames EXCEPT ![t] = SubSeq(@, 1, Len(@) - 1)]
    /\ Goto(t, Top(t).back)
    /\ UNCHANGED <<role, k, cur, handler, timer, over>>

HandlerReturns(t) ==
    /\ At(t, "hdl") /\ Goto(t, "loop")
    /\ UNCHANGED <<role, k, cur, frames, th, handler, timer, over>>

SLEEP_THREAD_handler(t) ==
    /\ \/ At(t, "slp0") /\ Goto(t, "slp1") /\ k' = suspend_thread(k, t) /\ UNCHANGED cur
       \/ At(t, "slp1") /\ Goto(t, "loop") /\ UNCHANGED k /\ cur' = scheduling(k)
    /\ UNCHANGED <<role, frames, th, handler, timer, over>>

-----------------------------------------------------------------------------
LSleep(t) ==
    /\ Call(t) /\ role.irq
    /\ k' = suspend_thread(k, t) /\ timer' = [timer EXCEPT ![t] = TRUE]
    /\ cur' = scheduling(k') /\ Returns(t)
    /\ UNCHANGED <<role, th, handler, over>>

(* do_irq for the timer: it wakes a thread or sends a signal, reschedules, *)
(* and the thread that was interrupted goes through do_signals.            *)
do_irq(u) ==
    /\ ~over /\ role.irq
    /\ cur # Idle => pc[cur] \notin Masked /\ Len(frames[cur]) < MaxNest
    /\ \/ /\ timer[u] /\ timer' = [timer EXCEPT ![u] = FALSE]
          /\ k' = activate_thread(k, u) /\ UNCHANGED th
       \/ /\ u \in role.to /\ Exists(u) /\ \E s \in role.irqsend : s \notin th[u].pend /\ Kill(u, s)
          /\ UNCHANGED timer
    /\ cur' = scheduling(k')
    /\ IF cur = Idle THEN UNCHANGED <<pc, frames>> ELSE CallSignals(cur, pc[cur])
    /\ UNCHANGED <<role, handler, over>>

LStep(t) ==
    \/ pthread_create_sys(t) \/ pthread_join_sys(t) \/ pthread_join_resumes(t)
    \/ pthread_detach_sys(t) \/ pthread_setcancelstate_sys(t)
    \/ pthread_cleanup_push_sys(t) \/ pthread_cleanup_pop_sys(t)
    \/ pthread_yield_sys(t) \/ pthread_exit_sys(t) \/ ExitFinishes(t) \/ ExitWakes(t)
    \/ pthread_kill_sys(t) \/ pthread_cancel_sys(t) \/ pthread_sigmask_sys(t)
    \/ sigaction_sys(t) \/ sigsuspend_sys(t) \/ sigwait_sys(t) \/ sigsuspend_resumes(t)
    \/ do_signals(t) \/ SignalHandled(t) \/ HandlerReturns(t) \/ SignalsDone(t)
    \/ SLEEP_THREAD_handler(t) \/ LSleep(t)

LNext == \E t \in Threads : LStep(t) \/ do_irq(t)

(* The processor executes the current thread.                              *)
LFair == \A t \in Threads : WF_lvars(LStep(t))

LSpec == LInit /\ [][LNext]_lvars /\ LFair
-----------------------------------------------------------------------------
(* A joiner that sleeps is known to the thread it joins, whose structure   *)
(* is there; if that thread is FINISHED it is the running one, on its way  *)
(* to wake the joiner.  (A rescheduling interrupt in pthread_exit_sys      *)
(* takes the processor from it for ever: said without interrupts.)  And a  *)
(* structure that was freed is in no ready queue.                          *)
JoinerKnown ==
    \A t \in Threads :
        /\ pc[t] = "join" /\ k.st[t] = "SUSPENDED" =>
               LET u == th[t].obj
               IN  /\ Exists(u) /\ th[u].joining = t
                   /\ k.st[u] = "FINISHED" => cur = u \/ role.irq
        /\ ~Exists(t) => t # cur /\ \A l \in Prios : \A i \in DOMAIN k.rq[l] : k.rq[l][i] # t

(* Through nested handlers, sigsuspend and sigwait, the application always *)
(* runs with the signal mask that it set.                                  *)
MaskRestored ==
    \A t \in Threads : pc[t] = "run" /\ Exists(t) => th[t].mask = th[t].app

InFlight(t) == th[t].pend \cup UNION {frames[t][i].left : i \in DOMAIN frames[t]}

(* A signal sent to a thread is forgotten only when its handler is called, *)
(* sigwait returns it, or the thread is gone.                              *)
SignalsKept ==
    [][\A t \in Threads : \A s \in InFlight(t) \ InFlight(t)' :
           \/ cur = t /\ pc[t] = "loop" /\ s = ffs(Top(t).left)
           \/ cur = t /\ pc[t] \in {"run", "susp"} /\ th'[t].pend = th[t].pend \ {s}
           \/ ~Exists(t)]_lvars

(* The other threads leave the processor to t, if t is READY.              *)
OthersRest(t) == cur \in {t, Idle}

(* A joiner returns once the thread that it joins is FINISHED, if the      *)
(* other threads leave it the processor again and again.                   *)
JoinServed ==
    \A t \in Threads :
        []<>OthersRest(t) =>
            ((pc[t] = "join" /\ k.st[th[t].obj] = "FINISHED" /\ ~role.irq) ~>
                (pc[t] # "join" \/ over))

(* sigwait returns once a signal that it waits for is pending, if the      *)
(* other threads leave it the processor again and again.                   *)
SigwaitServed ==
    \A t \in Threads :
        []<>OthersRest(t) =>
            ((pc[t] = "susp" /\ th[t].set \cap th[t].pend # {}) ~> (pc[t] # "susp" \/ over))
=============================================================================
