----------------------------- MODULE TimerHeap -----------------------------
(***************************************************************************)
(* The heap of kernel timers (port/heap.c, include/ertl_core/heap.h).  A   *)
(* heap is the sequence array[1] .. array[nelem] of timer numbers; v gives *)
(* the timer_value of each timer.                                          *)
(***************************************************************************)
EXTENDS Integers, Sequences

IS_MIN(v, a, b) == v[a] < v[b]

father(i) == i \div 2

Exchange(h, i, j) == [h EXCEPT ![i] = h[j], ![j] = h[i]]

HEAP_min(h) == h[1]

(* The element at top sinks below its smaller child, as often as it is not *)
(* smaller than that child.                                                *)
heapify(h, v, top) ==
    LET Child(s) == IF 2 * s.at < Len(h) /\ IS_MIN(v, s.a[2 * s.at + 1], s.a[2 * s.at])
                    THEN 2 * s.at + 1 ELSE 2 * s.at
        Sunk(s)  == 2 * s.at > Len(h) \/ IS_MIN(v, s.a[s.at], s.a[Child(s)])
        Sink(s)  == IF Sunk(s) THEN s
                    ELSE [a |-> Exchange(s.a, s.at, Child(s)), at |-> Child(s)]
        walk[n \in 0 .. Len(h)] ==
            IF n = 0 THEN [a |-> h, at |-> top] ELSE Sink(walk[n - 1])
    IN  walk[Len(h)].a

(* The last element takes the place of element i, and sinks.               *)
Refill(h, v, i) ==
    LET last == Len(h)
        rest == SubSeq([h EXCEPT ![i] = h[last]], 1, last - 1)
    IN  IF i = last THEN rest ELSE heapify(rest, v, i)

HEAP_remove_min(h, v) == Refill(h, v, 1)

HEAP_remove_element(h, v, k) ==
    LET at == {i \in 1 .. Len(h) : h[i] = k}
    IN  IF at = {} THEN h
        ELSE Refill(h, v, CHOOSE i \in at : \A j \in at : i <= j)

(* The new element rises from the end past every larger father; max is     *)
(* HEAP_MAX_NELEM.                                                         *)
HEAP_insert(h, v, k, max) ==
    LET Rise(s) == IF s.at > 1 /\ IS_MIN(v, k, s.a[father(s.at)])
                   THEN [a |-> Exchange(s.a, s.at, father(s.at)), at |-> father(s.at)]
                   ELSE s
        walk[n \in 0 .. Len(h)] ==
            IF n = 0 THEN [a |-> Append(h, k), at |-> Len(h) + 1] ELSE Rise(walk[n - 1])
    IN  IF Len(h) + 1 > max THEN h ELSE walk[Len(h)].a
=============================================================================
