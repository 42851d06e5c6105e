----------------------------- MODULE SchedStruct -----------------------------
(***************************************************************************)
(* The ready structure of include/ertl_core/sched_struct.h: a matrix of    *)
(* Width x Width doubly linked lists of threads, one list per priority,    *)
(* with a two-level bitmap that says which lists are not empty.  The links *)
(* (next_matrix, prev_matrix) and the place (ss_i, ss_j) live in the       *)
(* thread structures; here they are functions over Threads.                *)
(*                                                                         *)
(* The structure is the record                                             *)
(*    head : thread_matrix          fl : flbitmap, as a set of rows        *)
(*    next : next_matrix            sl : slbitmap, a set of columns per row *)
(*    prev : prev_matrix            pos: <<ss_i, ss_j>>                     *)
(* and every function of the header is an operator from such a record to   *)
(* such a record (or to a thread).                                         *)
(***************************************************************************)
EXTENDS Integers, FiniteSets, Sequences

CONSTANTS
    Threads,    \* the thread structures the kernel can allocate
    NULL,       \* the null pointer
    Width       \* 32 in the source: lists per row, and rows

ASSUME WidthAssumption == Width \in Nat \ {0}
ASSUME NullAssumption == NULL \notin Threads
ASSUME FiniteAssumption == IsFiniteSet(Threads)

Idx    == 0 .. Width - 1
Slots  == Idx \X Idx
Levels == Width * Width         \* 1024 in the source
Ptr    == Threads \cup {NULL}
NoPos  == <<-1, -1>>

-----------------------------------------------------------------------------
(* Priorities.  prio & 0x3ff keeps a priority inside the matrix.           *)

Level(prio) == prio % Levels

prio2ij(prio) == <<Level(prio) \div Width, prio % Width>>

ij2prio(s) == s[1] * Width + s[2]

(* The first bit set: the least element of a nonempty bitmap.              *)
_ffs(bits) == CHOOSE i \in bits : \A j \in bits : i <= j

-----------------------------------------------------------------------------
(* The functions of the header.                                            *)

init_ss ==
    [head |-> [s \in Slots |-> NULL],
     next |-> [t \in Threads |-> NULL],
     prev |-> [t \in Threads |-> NULL],
     pos  |-> [t \in Threads |-> NoPos],
     fl   |-> {},
     sl   |-> [i \in Idx |-> {}]]

(* Slip: the old head of the list is not linked back to the new one.       *)
insert_ss_NoBackLink(q, t, prio) ==
    LET s == prio2ij(prio)
    IN  [q EXCEPT !.head[s] = t, !.next[t] = q.head[s], !.prev[t] = NULL,
                  !.pos[t] = s, !.fl = q.fl \cup {s[1]},
                  !.sl[s[1]] = q.sl[s[1]] \cup {s[2]}]

(* Insertion at the head of the list of the priority.                      *)
insert_ss(q, t, prio) ==
    LET s == prio2ij(prio)
        h == q.head[s]
    IN  [head |-> [q.head EXCEPT ![s] = t],
         next |-> [q.next EXCEPT ![t] = h],
         prev |-> [u \in Threads |-> IF u = h THEN t
                                     ELSE IF u = t THEN NULL ELSE q.prev[u]],
         pos  |-> [q.pos EXCEPT ![t] = s],
         fl   |-> q.fl \cup {s[1]},
         sl   |-> [q.sl EXCEPT ![s[1]] = q.sl[s[1]] \cup {s[2]}]]

(* u is a node of list s: its head, or a node with a predecessor that was  *)
(* put in s.  (A zeroed structure has ss_i = ss_j = 0 and no predecessor.) *)
InList(q, u, s) == q.head[s] = u \/ (q.pos[u] = s /\ q.prev[u] # NULL)

(* Where the walk of insert_ss_tail along next_matrix stops.               *)
TailOf(q, s) == CHOOSE u \in Threads : InList(q, u, s) /\ q.next[u] = NULL

(* Insertion at the tail of the list of the priority.                      *)
insert_ss_tail(q, t, prio) ==
    LET s    == prio2ij(prio)
        none == q.head[s] = NULL
        aux  == TailOf(q, s)
    IN  [head |-> IF none THEN [q.head EXCEPT ![s] = t] ELSE q.head,
         next |-> [u \in Threads |-> IF u = t THEN NULL
                                     ELSE IF ~none /\ u = aux THEN t
                                     ELSE q.next[u]],
         prev |-> [q.prev EXCEPT ![t] = IF none THEN NULL ELSE aux],
         pos  |-> [q.pos EXCEPT ![t] = s],
         fl   |-> q.fl \cup {s[1]},
         sl   |-> [q.sl EXCEPT ![s[1]] = q.sl[s[1]] \cup {s[2]}]]

(* The first thread of the first list that is not empty; it stays there.   *)
get_head_ss(q) ==
    IF q.fl = {} THEN NULL
    ELSE LET i == _ffs(q.fl) IN q.head[<<i, _ffs(q.sl[i])>>]

(* Unlinks the thread wherever it is; clears the bits of an emptied list.  *)
remove_ss(q, t) ==
    IF q.pos[t] = NoPos THEN q
    ELSE
    LET s   == q.pos[t]
        nx  == q.next[t]
        pv  == q.prev[t]
        hd  == IF q.head[s] = t THEN nx ELSE q.head[s]
        row == IF hd = NULL THEN q.sl[s[1]] \ {s[2]} ELSE q.sl[s[1]]
    IN  [head |-> [q.head EXCEPT ![s] = hd],
         next |-> [u \in Threads |-> IF u = t THEN NULL
                                     ELSE IF u = pv THEN nx ELSE q.next[u]],
         prev |-> [u \in Threads |-> IF u = t THEN NULL
                                     ELSE IF u = nx THEN pv ELSE q.prev[u]],
         pos  |-> [q.pos EXCEPT ![t] = NoPos],
         fl   |-> IF hd = NULL /\ row = {} THEN q.fl \ {s[1]} ELSE q.fl,
         sl   |-> [q.sl EXCEPT ![s[1]] = row]]

(* What memset leaves in a new thread structure.                           *)
zero_ss(q, t) ==
    [head |-> q.head,
     next |-> [q.next EXCEPT ![t] = NULL],
     prev |-> [q.prev EXCEPT ![t] = NULL],
     pos  |-> [q.pos EXCEPT ![t] = <<0, 0>>],
     fl   |-> q.fl,
     sl   |-> q.sl]

-----------------------------------------------------------------------------
(* Walking a list: ListOf(q, s) is the sequence of threads that following  *)
(* next_matrix from thread_matrix[i][j] meets (cut after as many nodes as  *)
(* there are threads, so that a corrupted, cyclic list has a value too).   *)

ListOf(q, s) ==
    LET node[n \in 0 .. Cardinality(Threads)] ==
            IF n = 0 THEN q.head[s]
            ELSE IF node[n - 1] = NULL THEN NULL ELSE q.next[node[n - 1]]
        len == CHOOSE n \in 0 .. Cardinality(Threads) + 1 :
                   /\ \A m \in 0 .. n - 1 : node[m] # NULL
                   /\ n = Cardinality(Threads) + 1 \/ node[n] = NULL
    IN  [n \in 1 .. len |-> node[n - 1]]

(* The lists of the matrix in the order of their priorities.               *)
Queues(q) == [l \in 0 .. Levels - 1 |-> ListOf(q, prio2ij(l))]

-----------------------------------------------------------------------------
(* What the structure has to be like to hold exactly the threads of S,     *)
(* thread t in the list of prio[t], in the order of rank.                  *)

StructType ==
    [head : [Slots -> Ptr], next : [Threads -> Ptr], prev : [Threads -> Ptr],
     pos : [Threads -> Slots \cup {NoPos}], fl : SUBSET Idx,
     sl : [Idx -> SUBSET Idx]]

(* A bit is set exactly when its list, or its row, is not empty.           *)
BitmapExact(q) ==
    /\ \A i \in Idx : i \in q.fl <=> q.sl[i] # {}
    /\ \A i \in Idx, j \in Idx : j \in q.sl[i] <=> q.head[<<i, j>>] # NULL

(* Threads outside S carry no links that could be followed.                *)
OutsideClean(q, S) ==
    \A t \in Threads \ S : /\ q.next[t] = NULL
                           /\ q.prev[t] = NULL
                           /\ \A s \in Slots : q.head[s] # t

(* The links of the members agree with each other.                         *)
LinksAgree(q, S, prio) ==
    /\ \A s \in Slots : q.head[s] # NULL =>
            /\ q.head[s] \in S
            /\ q.pos[q.head[s]] = s
            /\ q.prev[q.head[s]] = NULL
    /\ \A t \in S :
         /\ q.pos[t] = prio2ij(prio[t])
         /\ q.prev[t] = NULL => q.head[q.pos[t]] = t
         /\ q.prev[t] # NULL => q.prev[t] \in S /\ q.next[q.prev[t]] = t
         /\ q.next[t] # NULL => /\ q.next[t] \in S
                                /\ q.prev[q.next[t]] = t
                                /\ q.pos[q.next[t]] = q.pos[t]

(* rank orders each list: the head first, a successor right after its      *)
(* predecessor, the node without successor last.                           *)
Ranked(q, S, rank) ==
    /\ \A t, u \in S : q.pos[t] = q.pos[u] /\ rank[t] = rank[u] => t = u
    /\ \A t, u \in S : q.pos[t] = q.pos[u] =>
         /\ q.head[q.pos[t]] # NULL
         /\ q.head[q.pos[t]] = t => rank[t] <= rank[u]
         /\ q.next[t] = NULL => rank[u] <= rank[t]
         /\ q.next[t] # NULL => /\ rank[t] < rank[q.next[t]]
                                /\ rank[u] <= rank[t] \/ rank[u] >= rank[q.next[t]]

Holds(q, S, prio, rank) ==
    /\ BitmapExact(q)
    /\ OutsideClean(q, S)
    /\ LinksAgree(q, S, prio)
    /\ Ranked(q, S, rank)
=============================================================================
