----------------------------- MODULE PthreadList -----------------------------
(***************************************************************************)
(* The lists of blocked threads (include/ertl_core/pthread_list.h).  Every *)
(* thread has one node per kind of list; the node is named by its thread.  *)
(***************************************************************************)
EXTENDS KThreads

init_pthread_list ==
    [head |-> NULL, next |-> [t \in Threads |-> NULL], prev |-> [t \in Threads |-> NULL]]

(* p -> prev is left as it is.                                             *)
insert_pthread_list(l, p) ==
    [head |-> p, next |-> [l.next EXCEPT ![p] = l.head],
     prev |-> IF l.head = NULL THEN l.prev ELSE [l.prev EXCEPT ![l.head] = p]]

remove_pthread_list(l, p) ==
    LET n == l.next[p]
        prev == IF n = NULL THEN l.prev ELSE [l.prev EXCEPT ![n] = l.prev[p]]
        q == prev[p]
        next == IF q = NULL THEN l.next ELSE [l.next EXCEPT ![q] = n]
    IN  [head |-> IF l.head = p THEN next[p] ELSE l.head,
         next |-> [next EXCEPT ![p] = NULL], prev |-> [prev EXCEPT ![p] = NULL]]

(* The list after the call; the thread it returns is l.head.               *)
remove_head_pthread_list(l) ==
    LET p == l.head
        h == l.next[p]
        prev == IF h = NULL THEN l.prev ELSE [l.prev EXCEPT ![h] = NULL]
    IN  IF p = NULL THEN l
        ELSE [head |-> h, next |-> [l.next EXCEPT ![p] = NULL],
              prev |-> [prev EXCEPT ![p] = NULL]]

(* The threads that remove_head_pthread_list would return, called until it *)
(* returns NULL.                                                           *)
Linked(l) ==
    LET after[i \in 0 .. Cardinality(Threads)] ==
            IF i = 0 THEN l.head
            ELSE IF after[i - 1] = NULL THEN NULL ELSE l.next[after[i - 1]]
    IN  {after[i] : i \in 0 .. Cardinality(Threads)} \ {NULL}

ListType == [head : Threads \cup {NULL}, next : [Threads -> Threads \cup {NULL}],
             prev : [Threads -> Threads \cup {NULL}]]
=============================================================================
