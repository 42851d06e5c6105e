---------------------------- MODULE MCTimerHeap ----------------------------
(***************************************************************************)
(* The heap on its own: timers whose values are their numbers are inserted *)
(* and removed in any order, from the front or (Removable) from anywhere.  *)
(***************************************************************************)
EXTENDS TimerHeap

CONSTANTS
    Count,      \* number of timers
    Removable   \* timers that are disarmed before they expire

VARIABLE heap

Value == [t \in 1 .. Count |-> t]

InHeap(t) == \E i \in 1 .. Len(heap) : heap[i] = t

Insert(t) == ~InHeap(t) /\ heap' = HEAP_insert(heap, Value, t, Count + 1)

RemoveMin == heap # <<>> /\ heap' = HEAP_remove_min(heap, Value)

RemoveElement(t) == InHeap(t) /\ heap' = HEAP_remove_element(heap, Value, t)

HInit == heap = <<>>

HNext ==
    \/ RemoveMin
    \/ \E t \in 1 .. Count : Insert(t)
    \/ \E t \in Removable : RemoveElement(t)

HSpec == HInit /\ [][HNext]_heap

(* HEAP_check_min of heap.c: every timer of the heap is later than the one *)
(* HEAP_min returns (all values differ here).                              *)
HEAP_check_min == \A n \in 2 .. Len(heap) : IS_MIN(Value, heap[1], heap[n])
=============================================================================
