----------------------------- MODULE CountingSem -----------------------------
(***************************************************************************)
(* What a semaphore promises.  A post raises the count by one, at once or  *)
(* after it has let others run (posting), unless the count is at its       *)
(* maximum; a wait lowers it by one, at once or after it had to wait       *)
(* (waiting), and only when there is a unit to take.  Nothing else changes *)
(* the count, but for a semaphore that was destroyed while nobody used it. *)
(***************************************************************************)
EXTENDS Integers

CONSTANTS Threads, SEM_VALUE_MAX, InitValues

VARIABLES value, live, waiting, posting

vars == <<value, live, waiting, posting>>

Init == value \in InitValues /\ live = TRUE /\ waiting = {} /\ posting = {}

Post == live /\ value < SEM_VALUE_MAX /\ value' = value + 1 /\ UNCHANGED <<live, waiting, posting>>

PostBegins(t) == live /\ posting' = posting \cup {t} /\ UNCHANGED <<value, live, waiting>>

PostEnds(t) ==
    /\ live /\ t \in posting /\ posting' = posting \ {t}
    /\ value' = IF value < SEM_VALUE_MAX THEN value + 1 ELSE value
    /\ UNCHANGED <<live, waiting>>

Take == live /\ value > 0 /\ value' = value - 1 /\ UNCHANGED <<live, waiting, posting>>

WaitBegins(t) ==
    live /\ value = 0 /\ waiting' = waiting \cup {t} /\ UNCHANGED <<value, live, posting>>

WaitEnds(t) ==
    /\ live /\ t \in waiting /\ waiting' = waiting \ {t}
    /\ value > 0 /\ value' = value - 1
    /\ UNCHANGED <<live, posting>>

Destroy ==
    live /\ waiting = {} /\ posting = {} /\ live' = FALSE /\ UNCHANGED <<value, waiting, posting>>
Reuse == ~live /\ live' = TRUE /\ value' \in InitValues /\ UNCHANGED <<waiting, posting>>

Next ==
    \/ Post \/ Take \/ Destroy \/ Reuse
    \/ \E t \in Threads : PostBegins(t) \/ PostEnds(t) \/ WaitBegins(t) \/ WaitEnds(t)

Spec == Init /\ [][Next]_vars
=============================================================================
