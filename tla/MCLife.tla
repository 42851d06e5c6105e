------------------------------- MODULE MCLife --------------------------------
(* The uses of threads and signals explored by MCLife.cfg: Main, which     *)
(* outranks the others, joins a; R1 and R2 join, detach and cancel, R3     *)
(* signals between threads, R4 and R5 signals from interrupts.             *)
EXTENDS ThreadLife, TLC
CONSTANTS m, a, b
MCBase == (m :> 0 @@ a :> 1 @@ b :> 1)
MCSaMasks == {{}, {6, 7}}
Quiet == [threads |-> {a}, joins |-> {}, ops |-> {}, cancel |-> {}, send |-> {},
          to |-> {a}, irq |-> FALSE, irqsend |-> {}]
R1 == [Quiet EXCEPT !.threads = {a, b}, !.joins = {<<m, a>>, <<a, b>>}, !.to = {},
                    !.ops = {"cancelstate", "yield"}, !.cancel = {a, b}]
R2 == [Quiet EXCEPT !.joins = {<<m, a>>}, !.ops = {"detach", "cleanup"}, !.cancel = {a}]
R3 == [Quiet EXCEPT !.threads = {a, b}, !.joins = {<<m, b>>}, !.send = {2, 3, 6, 7},
                    !.ops = {"sigmask", "sigsuspend", "sigwait", "yield"}]
R4 == [Quiet EXCEPT !.ops = {"sigaction"}, !.irq = TRUE, !.irqsend = {6, 7}]
R5 == [Quiet EXCEPT !.ops = {"sigwait", "sigmask"}, !.send = {6}, !.irq = TRUE,
                    !.irqsend = {2, 7}]
MCRoles == {R1, R2, R3, R4, R5}
=============================================================================
