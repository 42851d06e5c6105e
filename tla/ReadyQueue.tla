------------------------------ MODULE ReadyQueue ------------------------------
(***************************************************************************)
(* What the scheduler promises, without links and bitmaps: one sequence of *)
(* READY threads per priority.  A thread that becomes READY, or whose      *)
(* priority changes, goes to the front of its sequence; a thread that      *)
(* yields goes to the back; the processor goes to the first thread of the  *)
(* first sequence that is not empty.                                       *)
(***************************************************************************)
EXTENDS Integers, Sequences

CONSTANTS Threads, Levels

VARIABLES rq, current

rvars == <<rq, current>>

(* A queue without t, which is in it once at most.                         *)
Removed(q, t) ==
    LET n == CHOOSE i \in DOMAIN q : q[i] = t
    IN  IF \A i \in DOMAIN q : q[i] # t THEN q
        ELSE [i \in 1 .. Len(q) - 1 |-> q[IF i < n THEN i ELSE i + 1]]

Without(t) == [l \in 0 .. Levels - 1 |-> Removed(rq[l], t)]

First(q) == q[CHOOSE l \in 0 .. Levels - 1 :
                /\ q[l] # <<>>
                /\ \A m \in 0 .. l - 1 : q[m] = <<>>][1]

Init == rq = [l \in 0 .. Levels - 1 |-> <<>>] /\ current \in Threads

(* A thread becomes READY, or gets a new priority.                         *)
Enter(t, l) == rq' = [Without(t) EXCEPT ![l] = <<t>> \o @]

(* A thread is no longer READY.                                            *)
Leave(t) == rq' = Without(t)

(* A thread goes behind the others of its priority.                        *)
Yield(t) ==
    \E l \in 0 .. Levels - 1 :
        /\ \E n \in DOMAIN rq[l] : rq[l][n] = t
        /\ rq' = [Without(t) EXCEPT ![l] = Append(@, t)]

(* A change of the queues leaves the processor with its thread.            *)
Requeue ==
    /\ rq' # rq
    /\ UNCHANGED current
    /\ \/ Yield(current)
       \/ \E t \in Threads : Leave(t) \/ \E l \in 0 .. Levels - 1 : Enter(t, l)

Dispatch ==
    /\ current' # current
    /\ UNCHANGED rq
    /\ \E l \in 0 .. Levels - 1 : rq[l] # <<>>
    /\ current' = First(rq)

(* The first thread: the one that boots the system.                        *)
FirstDispatch ==
    /\ current' # current
    /\ \A l \in 0 .. Levels - 1 : rq[l] = <<>>
    /\ rq' = [rq EXCEPT ![Levels - 1] = <<current'>>]

Next == Requeue \/ Dispatch \/ FirstDispatch

Spec == Init /\ [][Next]_rvars
=============================================================================
