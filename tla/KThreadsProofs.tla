--------------------------- MODULE KThreadsProofs ---------------------------
(***************************************************************************)
(* What the proofs about Semaphore, MutexCond and ThreadLife need to know  *)
(* of KThreads and PthreadList: the ready queues hold exactly the READY    *)
(* threads, scheduling() chooses one of the highest priority, and a list   *)
(* of blocked threads is a sequence of different threads.                  *)
(*                                                                         *)
(* Induction is by least counterexample (LeastNat), and what a recursive   *)
(* function computes follows from the existence of the iteration it        *)
(* describes (Iterate).                                                    *)
(***************************************************************************)
EXTENDS PthreadList, FiniteSetTheorems, TLAPS

LessThan == {p \in Nat \X Nat : p[1] < p[2]}

(* A nonempty set of natural numbers has a least element.                  *)
LEMMA LeastNat ==
    ASSUME NEW T \in SUBSET Nat, T # {}
    PROVE  \E n \in T : \A m \in T : n <= m
<1>1. IsWellFoundedOn(LessThan, Nat)
  BY NatLessThanWellFounded DEF OpToRel, LessThan
<1>2. PICK n \in T : \A m \in T : ~(<<m, n>> \in LessThan)
  BY <1>1, WFMin
<1>3. \A m \in T : ~(m < n)
  BY <1>2 DEF LessThan
<1> QED
  BY <1>3

(* Induction, for a set of numbers.                                        *)
LEMMA Induct ==
    ASSUME NEW T \in SUBSET Nat, 0 \in T, \A n \in Nat : n \in T => n + 1 \in T
    PROVE  T = Nat
<1> SUFFICES ASSUME Nat \ T # {} PROVE FALSE
  OBVIOUS
<1>1. PICK n \in Nat \ T : \A m \in Nat \ T : n <= m
  BY LeastNat
<1>2. n - 1 \in Nat /\ n - 1 \in T
  BY <1>1
<1> QED
  BY <1>1, <1>2

(* A function g on S can be iterated, and the iterates stay in S.          *)
Iterates(S, x, g, N) ==
    \E f \in [0 .. N -> S] : f[0] = x /\ \A i \in 1 .. N : f[i] = g[f[i - 1]]

LEMMA Iterate ==
    ASSUME NEW S, NEW x \in S, NEW g \in [S -> S], NEW N \in Nat
    PROVE  Iterates(S, x, g, N)
<1> DEFINE Goes(n) == \E f \in [0 .. n -> S] : f[0] = x /\ \A i \in 1 .. n : f[i] = g[f[i - 1]]
           T == {n \in Nat : Goes(n)}
<1>1. Goes(0)
  <2> DEFINE h == [i \in 0 .. 0 |-> x]
  <2>1. h \in [0 .. 0 -> S] /\ h[0] = x /\ \A i \in 1 .. 0 : h[i] = g[h[i - 1]]
    OBVIOUS
  <2> QED
    BY <2>1
<1>2. ASSUME NEW n \in Nat, Goes(n) PROVE Goes(n + 1)
  <2>1. PICK f \in [0 .. n -> S] : f[0] = x /\ \A i \in 1 .. n : f[i] = g[f[i - 1]]
    BY <1>2
  <2> DEFINE h == [i \in 0 .. n + 1 |-> IF i = n + 1 THEN g[f[n]] ELSE f[i]]
  <2>2. h \in [0 .. n + 1 -> S]
    BY <2>1
  <2>3. h[0] = x /\ \A i \in 1 .. n + 1 : h[i] = g[h[i - 1]]
    BY <2>1
  <2> QED
    BY <2>2, <2>3
<1>3. T = Nat
  <2> HIDE DEF Goes
  <2>1. 0 \in T /\ \A n \in Nat : n \in T => n + 1 \in T
    BY <1>1, <1>2
  <2> QED
    BY <2>1, Induct
<1> QED
  BY <1>3 DEF Iterates

-----------------------------------------------------------------------------
(* The ready queues.                                                       *)

InQueue(q, t) == \E i \in 1 .. Len(q) : q[i] = t
Distinct(q)   == \A i, j \in 1 .. Len(q) : q[i] = q[j] => i = j

(* Removed takes the thread out of a queue, and nothing else.              *)
LEMMA RemovedSound ==
    ASSUME NEW q \in Seq(Threads), Distinct(q), NEW t
    PROVE  /\ Removed(q, t) \in Seq(Threads) /\ Distinct(Removed(q, t))
           /\ \A u \in Threads : InQueue(Removed(q, t), u) <=> InQueue(q, u) /\ u # t
<1>0. Len(q) \in Nat /\ DOMAIN q = 1 .. Len(q) /\ \A i \in 1 .. Len(q) : q[i] \in Threads
  OBVIOUS
<1>1. CASE \A i \in DOMAIN q : q[i] # t
  <2>1. Removed(q, t) = q
    BY <1>1 DEF Removed
  <2> QED
    BY <1>0, <1>1, <2>1 DEF InQueue
<1>2. CASE ~\A i \in DOMAIN q : q[i] # t
  <2> DEFINE n == CHOOSE i \in DOMAIN q : q[i] = t
             r == [i \in 1 .. Len(q) - 1 |-> q[IF i < n THEN i ELSE i + 1]]
  <2>1. n \in 1 .. Len(q) /\ q[n] = t
    BY <1>0, <1>2
  <2>2. Removed(q, t) = r
    BY <1>2 DEF Removed
  <2> HIDE DEF n
  <2>3. Len(q) - 1 \in Nat
    BY <1>0, <2>1
  <2>4. \A i \in 1 .. Len(q) - 1 : (IF i < n THEN i ELSE i + 1) \in 1 .. Len(q)
    BY <1>0, <2>1
  <2>5. r \in Seq(Threads) /\ Len(r) = Len(q) - 1
    BY <1>0, <2>3, <2>4
  <2>6. Distinct(r)
    BY <1>0, <2>1, <2>3, <2>4, <2>5 DEF Distinct
  <2>7. ASSUME NEW u \in Threads, InQueue(r, u) PROVE InQueue(q, u) /\ u # t
    <3>1. PICK i \in 1 .. Len(q) - 1 : r[i] = u
      BY <2>5, <2>7 DEF InQueue
    <3>2. r[i] = q[IF i < n THEN i ELSE i + 1]
      BY <3>1
    <3>3. (IF i < n THEN i ELSE i + 1) # n
      BY <3>1, <2>1
    <3> QED
      BY <3>1, <3>2, <3>3, <2>1, <2>4 DEF InQueue, Distinct
  <2>8. ASSUME NEW u \in Threads, InQueue(q, u), u # t PROVE InQueue(r, u)
    <3>1. PICK j \in 1 .. Len(q) : q[j] = u
      BY <2>8 DEF InQueue
    <3>2. j # n
      BY <3>1, <2>1, <2>8
    <3>3. CASE j < n
      <4>1. j \in 1 .. Len(q) - 1 /\ r[j] = q[j]
        BY <3>3, <2>1, <1>0
      <4> QED
        BY <4>1, <3>1, <2>5 DEF InQueue
    <3>4. CASE j > n
      <4>1. j - 1 \in 1 .. Len(q) - 1 /\ r[j - 1] = q[j]
        BY <3>4, <2>1, <1>0
      <4> QED
        BY <4>1, <3>1, <2>5 DEF InQueue
    <3> QED
      BY <3>2, <3>3, <3>4, <2>1
  <2> QED
    BY <2>2, <2>5, <2>6, <2>7, <2>8
<1> QED
  BY <1>1, <1>2

(* A thread that is put in front of a queue.                               *)
LEMMA FrontSound ==
    ASSUME NEW q \in Seq(Threads), Distinct(q), NEW t \in Threads, ~InQueue(q, t)
    PROVE  /\ <<t>> \o q \in Seq(Threads) /\ Distinct(<<t>> \o q)
           /\ \A u \in Threads : InQueue(<<t>> \o q, u) <=> InQueue(q, u) \/ u = t
<1> DEFINE r == <<t>> \o q
<1>1. r \in Seq(Threads) /\ Len(r) = Len(q) + 1 /\ Len(q) \in Nat
  OBVIOUS
<1>2. r[1] = t /\ \A i \in 1 .. Len(q) : r[i + 1] = q[i]
  OBVIOUS
<1> HIDE DEF r
<1>3. \A i \in 1 .. Len(r) : i # 1 => i - 1 \in 1 .. Len(q) /\ r[i] = q[i - 1]
  <2> SUFFICES ASSUME NEW i \in 1 .. Len(r), i # 1
               PROVE  i - 1 \in 1 .. Len(q) /\ r[i] = q[i - 1]
    OBVIOUS
  <2>1. i - 1 \in 1 .. Len(q)
    BY <1>1
  <2> QED
    BY <2>1, <1>2
<1>4. Distinct(r)
  <2> SUFFICES ASSUME NEW i \in 1 .. Len(r), NEW j \in 1 .. Len(r), r[i] = r[j] PROVE i = j
    BY DEF Distinct
  <2>1. CASE i = 1 \/ j = 1
    BY <2>1, <1>2, <1>3 DEF InQueue
  <2>2. CASE i # 1 /\ j # 1
    <3>1. i - 1 \in 1 .. Len(q) /\ j - 1 \in 1 .. Len(q) /\ q[i - 1] = q[j - 1]
      BY <2>2, <1>3
    <3>2. i - 1 = j - 1
      BY <3>1 DEF Distinct
    <3> QED
      BY <3>2
  <2> QED
    BY <2>1, <2>2
<1>5. ASSUME NEW u \in Threads PROVE InQueue(r, u) <=> InQueue(q, u) \/ u = t
  <2>1. ASSUME InQueue(q, u) PROVE InQueue(r, u)
    <3>1. PICK i \in 1 .. Len(q) : q[i] = u
      BY <2>1 DEF InQueue
    <3>2. i + 1 \in 1 .. Len(r)
      BY <1>1
    <3> QED
      BY <3>1, <3>2, <1>2 DEF InQueue
  <2>2. InQueue(r, t)
    BY <1>1, <1>2 DEF InQueue
  <2>3. ASSUME InQueue(r, u), u # t PROVE InQueue(q, u)
    BY <2>3, <1>2, <1>3 DEF InQueue
  <2> QED
    BY <2>1, <2>2, <2>3
<1> QED
  BY <1>1, <1>4, <1>5 DEF r

LEMMA BackSound ==
    ASSUME NEW q \in Seq(Threads), Distinct(q), NEW t \in Threads, ~InQueue(q, t)
    PROVE  /\ Append(q, t) \in Seq(Threads) /\ Distinct(Append(q, t))
           /\ \A u \in Threads : InQueue(Append(q, t), u) <=> InQueue(q, u) \/ u = t
<1> DEFINE r == Append(q, t)
           n == Len(q)
<1>1. r \in Seq(Threads) /\ Len(r) = n + 1 /\ n \in Nat
  OBVIOUS
<1>2. r[n + 1] = t /\ \A i \in 1 .. n : r[i] = q[i]
  OBVIOUS
<1> HIDE DEF r, n
<1>3. \A i \in 1 .. n + 1 : i \in 1 .. n \/ i = n + 1
  BY <1>1
<1>4. Distinct(r)
  BY <1>1, <1>2, <1>3 DEF Distinct, InQueue, n
<1>5. \A u \in Threads : InQueue(r, u) <=> InQueue(q, u) \/ u = t
  BY <1>1, <1>2, <1>3 DEF InQueue, n
<1> QED
  BY <1>1, <1>4, <1>5 DEF r

(* The queue of each priority holds the READY threads that have it.        *)
QueuesSound(kk) ==
    \A l \in Prios :
        /\ Distinct(kk.rq[l])
        /\ \A t \in Threads : InQueue(kk.rq[l], t) <=> kk.st[t] = "READY" /\ kk.prio[t] = l

KSound(kk) == kk \in KType /\ QueuesSound(kk)

(* r holds the READY threads but t.                                        *)
AllBut(kk, t, r) ==
    /\ r \in [Prios -> Seq(Threads)]
    /\ \A l \in Prios :
           /\ Distinct(r[l])
           /\ \A u \in Threads : InQueue(r[l], u) <=> u # t /\ kk.st[u] = "READY" /\ kk.prio[u] = l

(* r holds the READY threads, and t in the queue of priority p.            *)
With(kk, t, p, r) ==
    /\ r \in [Prios -> Seq(Threads)]
    /\ \A l \in Prios :
           /\ Distinct(r[l])
           /\ \A u \in Threads :
                  InQueue(r[l], u) <=> IF u = t THEN l = p ELSE kk.st[u] = "READY" /\ kk.prio[u] = l

LEMMA WithoutSound ==
    ASSUME NEW kk, KSound(kk), NEW t
    PROVE  AllBut(kk, t, Without(kk, t))
<1> SUFFICES ASSUME NEW l \in Prios
             PROVE  /\ Without(kk, t)[l] \in Seq(Threads) /\ Distinct(Without(kk, t)[l])
                    /\ \A u \in Threads : InQueue(Without(kk, t)[l], u)
                                             <=> u # t /\ kk.st[u] = "READY" /\ kk.prio[u] = l
  BY DEF AllBut, Without
<1>1. kk.rq[l] \in Seq(Threads) /\ Distinct(kk.rq[l])
  BY DEF KSound, KType, QueuesSound
<1>2. Without(kk, t)[l] = Removed(kk.rq[l], t)
  BY DEF Without
<1> QED
  BY <1>1, <1>2, RemovedSound DEF KSound, QueuesSound

LEMMA AtHeadSound ==
    ASSUME NEW kk, NEW t \in Threads, NEW r, AllBut(kk, t, r), NEW p \in Prios
    PROVE  With(kk, t, p, AtHead(r, t, p))
<1>1. r[p] \in Seq(Threads) /\ Distinct(r[p]) /\ ~InQueue(r[p], t)
  BY DEF AllBut
<1>2. /\ AtHead(r, t, p)[p] = <<t>> \o r[p]
      /\ \A l \in Prios : l # p => AtHead(r, t, p)[l] = r[l]
      /\ DOMAIN AtHead(r, t, p) = Prios /\ AtHead(r, t, p) = [l \in Prios |-> AtHead(r, t, p)[l]]
  BY DEF AtHead, AllBut
<1>3. /\ <<t>> \o r[p] \in Seq(Threads) /\ Distinct(<<t>> \o r[p])
      /\ \A u \in Threads : InQueue(<<t>> \o r[p], u) <=> InQueue(r[p], u) \/ u = t
  BY <1>1, FrontSound
<1>4. ASSUME NEW l \in Prios
      PROVE  /\ AtHead(r, t, p)[l] \in Seq(Threads) /\ Distinct(AtHead(r, t, p)[l])
             /\ \A u \in Threads :
                    InQueue(AtHead(r, t, p)[l], u)
                      <=> IF u = t THEN l = p ELSE kk.st[u] = "READY" /\ kk.prio[u] = l
  <2>1. CASE l = p
    BY <2>1, <1>2, <1>3 DEF AllBut
  <2>2. CASE l # p
    BY <2>2, <1>2 DEF AllBut
  <2> QED
    BY <2>1, <2>2
<1> QED
  BY <1>2, <1>4 DEF With

-----------------------------------------------------------------------------
(* The functions of the scheduler keep the queues sound, and change states *)
(* and priorities as they say.                                             *)

LEMMA SuspendSound ==
    ASSUME NEW kk, KSound(kk), NEW t \in Threads
    PROVE  LET r == suspend_thread(kk, t)
           IN  /\ KSound(r) /\ r.prio = kk.prio
               /\ r.st = [kk.st EXCEPT ![t] = IF @ = "FINISHED" THEN @ ELSE "SUSPENDED"]
<1> DEFINE r == suspend_thread(kk, t)
<1>1. AllBut(kk, t, Without(kk, t))
  BY WithoutSound
<1>2. kk \in KType
  BY DEF KSound
<1>3. r.rq = Without(kk, t) /\ r.prio = kk.prio
  BY <1>2 DEF suspend_thread, KType
<1>4. r.st = [kk.st EXCEPT ![t] = IF @ = "FINISHED" THEN @ ELSE "SUSPENDED"]
  BY <1>2 DEF suspend_thread, KType
<1>5. r \in KType
  <2>1. Without(kk, t) \in [Prios -> Seq(Threads)]
    BY <1>1 DEF AllBut
  <2> QED
    BY <1>2, <2>1 DEF suspend_thread, KType, States
<1>6. r.st[t] # "READY" /\ \A u \in Threads : u # t => r.st[u] = kk.st[u]
  BY <1>2, <1>4 DEF KType
<1> HIDE DEF r
<1>7. QueuesSound(r)
  BY <1>1, <1>3, <1>6 DEF QueuesSound, AllBut
<1> QED
  BY <1>3, <1>4, <1>5, <1>7 DEF KSound, r

LEMMA ActivateSound ==
    ASSUME NEW kk, KSound(kk), NEW t \in Threads
    PROVE  LET r == activate_thread(kk, t)
           IN  /\ KSound(r) /\ r.prio = kk.prio
               /\ r.st = [kk.st EXCEPT ![t] = IF @ = "FINISHED" THEN @ ELSE "READY"]
<1> DEFINE r == activate_thread(kk, t)
           h == AtHead(kk.rq, t, kk.prio[t])
<1>1. kk \in KType /\ kk.st \in [Threads -> States]
  BY DEF KSound, KType
<1>2. CASE kk.st[t] \in {"FINISHED", "READY"}
  <2>1. r = kk
    BY <1>2 DEF activate_thread
  <2>2. kk.st = [kk.st EXCEPT ![t] = IF @ = "FINISHED" THEN @ ELSE "READY"]
    BY <1>1, <1>2
  <2> QED
    BY <2>1, <2>2
<1>3. CASE kk.st[t] \notin {"FINISHED", "READY"}
  <2>1. r.rq = h /\ r.prio = kk.prio /\ r.st = [kk.st EXCEPT ![t] = "READY"]
    BY <1>1, <1>3 DEF activate_thread, KType
  <2>2. AllBut(kk, t, kk.rq)
    BY <1>1, <1>3 DEF AllBut, KSound, KType, QueuesSound
  <2>3. PICK p \in Prios : p = kk.prio[t]
    BY <1>1 DEF KType
  <2>4. With(kk, t, p, h)
    BY <2>2, <2>3, AtHeadSound, Zenon
  <2>5. r \in KType
    BY <1>1, <1>3, <2>4 DEF activate_thread, KType, States, With
  <2>6. r.st[t] = "READY" /\ \A u \in Threads : u # t => r.st[u] = kk.st[u]
    BY <1>1, <2>1
  <2> HIDE DEF r, h
  <2>7. QueuesSound(r)
    BY <2>1, <2>3, <2>4, <2>6 DEF QueuesSound, With
  <2>8. [kk.st EXCEPT ![t] = "READY"] = [kk.st EXCEPT ![t] = IF @ = "FINISHED" THEN @ ELSE "READY"]
    BY <1>1, <1>3
  <2> QED
    BY <2>1, <2>5, <2>7, <2>8 DEF KSound, r
<1> QED
  BY <1>2, <1>3

LEMMA ChangePrioSound ==
    ASSUME NEW kk, KSound(kk), NEW t \in Threads, NEW p \in Prios
    PROVE  LET r == change_thread_prio(kk, t, p)
           IN  KSound(r) /\ r.prio = [kk.prio EXCEPT ![t] = p] /\ r.st = kk.st
<1> DEFINE r == change_thread_prio(kk, t, p)
           h == AtHead(Without(kk, t), t, p)
<1>1. kk \in KType
  BY DEF KSound
<1>2. /\ r.rq = (IF kk.st[t] = "READY" THEN h ELSE Without(kk, t))
      /\ r.prio = [kk.prio EXCEPT ![t] = p] /\ r.st = kk.st
  BY <1>1 DEF change_thread_prio, KType
<1>3. AllBut(kk, t, Without(kk, t))
  BY WithoutSound
<1>4. r.prio[t] = p /\ \A u \in Threads : u # t => r.prio[u] = kk.prio[u]
  BY <1>1, <1>2 DEF KType
<1>5. With(kk, t, p, h)
  BY <1>3, AtHeadSound, Zenon
<1>6. r \in KType
  <2>1. Without(kk, t) \in [Prios -> Seq(Threads)]
    BY <1>3 DEF AllBut
  <2> QED
    BY <1>1, <1>5, <2>1 DEF change_thread_prio, KType, With
<1> HIDE DEF r, h
<1>7. QueuesSound(r)
  <2>1. CASE kk.st[t] = "READY"
    BY <1>2, <1>4, <1>5, <2>1 DEF QueuesSound, With
  <2>2. CASE kk.st[t] # "READY"
    BY <1>2, <1>3, <1>4, <2>2 DEF QueuesSound, AllBut
  <2> QED
    BY <2>1, <2>2
<1> QED
  BY <1>2, <1>6, <1>7 DEF KSound, r

LEMMA FinishSound ==
    ASSUME NEW kk, KSound(kk), NEW t \in Threads
    PROVE  LET r == finish_thread(kk, t)
           IN  KSound(r) /\ r.prio = kk.prio /\ r.st = [kk.st EXCEPT ![t] = "FINISHED"]
<1> DEFINE r == finish_thread(kk, t)
<1>1. AllBut(kk, t, Without(kk, t))
  BY WithoutSound
<1>2. kk \in KType
  BY DEF KSound
<1>3. r.rq = Without(kk, t) /\ r.prio = kk.prio /\ r.st = [kk.st EXCEPT ![t] = "FINISHED"]
  BY <1>2 DEF finish_thread, KType
<1>4. r \in KType
  <2>1. Without(kk, t) \in [Prios -> Seq(Threads)]
    BY <1>1 DEF AllBut
  <2> QED
    BY <1>2, <2>1 DEF finish_thread, KType, States
<1>5. r.st[t] # "READY" /\ \A u \in Threads : u # t => r.st[u] = kk.st[u]
  BY <1>2, <1>3 DEF KType
<1> HIDE DEF r
<1>6. QueuesSound(r)
  BY <1>1, <1>3, <1>5 DEF QueuesSound, AllBut
<1> QED
  BY <1>3, <1>4, <1>6 DEF KSound, r

(* A thread structure is made, or released; both happen to threads that    *)
(* are in no queue.                                                        *)
LEMMA MadeSound ==
    ASSUME NEW kk, KSound(kk), NEW t \in Threads, kk.st[t] # "READY", NEW p \in Prios
    PROVE  LET r == [kk EXCEPT !.st[t] = "SUSPENDED", !.prio[t] = p]
           IN  KSound(r) /\ r.st = [kk.st EXCEPT ![t] = "SUSPENDED"]
<1> DEFINE r == [kk EXCEPT !.st[t] = "SUSPENDED", !.prio[t] = p]
<1>1. kk \in KType
  BY DEF KSound
<1>2. r.rq = kk.rq /\ r.prio = [kk.prio EXCEPT ![t] = p] /\ r.st = [kk.st EXCEPT ![t] = "SUSPENDED"]
  BY <1>1 DEF KType
<1>3. r \in KType
  BY <1>1 DEF KType, States
<1>4. /\ r.st[t] # "READY"
      /\ \A u \in Threads : u # t => r.st[u] = kk.st[u] /\ r.prio[u] = kk.prio[u]
  BY <1>1, <1>2 DEF KType
<1> HIDE DEF r
<1>5. QueuesSound(r)
  BY <1>2, <1>4 DEF QueuesSound, KSound
<1> QED
  BY <1>2, <1>3, <1>5 DEF KSound, r

LEMMA FreedSound ==
    ASSUME NEW kk, KSound(kk), NEW t \in Threads, kk.st[t] # "READY"
    PROVE  LET r == [kk EXCEPT !.st[t] = "FREE"]
           IN  KSound(r) /\ r.st = [kk.st EXCEPT ![t] = "FREE"]
<1> DEFINE r == [kk EXCEPT !.st[t] = "FREE"]
<1>1. kk \in KType
  BY DEF KSound
<1>2. r.rq = kk.rq /\ r.prio = kk.prio /\ r.st = [kk.st EXCEPT ![t] = "FREE"]
  BY <1>1 DEF KType
<1>3. r \in KType
  BY <1>1 DEF KType, States
<1>4. r.st[t] # "READY" /\ \A u \in Threads : u # t => r.st[u] = kk.st[u]
  BY <1>1, <1>2 DEF KType
<1> HIDE DEF r
<1>5. QueuesSound(r)
  BY <1>2, <1>4 DEF QueuesSound, KSound
<1> QED
  BY <1>2, <1>3, <1>5 DEF KSound, r

(* A thread goes to the end of the queue of its priority.                  *)
AtTail(kk, t) == [Without(kk, t) EXCEPT ![kk.prio[t]] = Append(@, t)]

LEMMA YieldSound ==
    ASSUME NEW kk, KSound(kk), NEW t \in Threads, kk.st[t] = "READY"
    PROVE  LET r == [kk EXCEPT !.rq = AtTail(kk, t)] IN KSound(r) /\ r.st = kk.st
<1> DEFINE w == Without(kk, t)
           h == AtTail(kk, t)
           r == [kk EXCEPT !.rq = h]
<1>1. kk \in KType /\ AllBut(kk, t, w)
  BY WithoutSound DEF KSound
<1>2. PICK p \in Prios : p = kk.prio[t]
  BY <1>1 DEF KType
<1>3. w[p] \in Seq(Threads) /\ Distinct(w[p]) /\ ~InQueue(w[p], t) /\ w \in [Prios -> Seq(Threads)]
  BY <1>1 DEF AllBut
<1>4. h = [w EXCEPT ![p] = Append(w[p], t)]
  BY <1>2 DEF AtTail
<1>5. h[p] = Append(w[p], t) /\ \A l \in Prios : l # p => h[l] = w[l]
  BY <1>3, <1>4
<1>6. /\ h[p] \in Seq(Threads) /\ Distinct(h[p])
      /\ \A u \in Threads : InQueue(h[p], u) <=> InQueue(w[p], u) \/ u = t
  BY <1>3, <1>5, BackSound
<1>7. h \in [Prios -> Seq(Threads)]
  BY <1>3, <1>4
<1> HIDE DEF h, w
<1>8. r.rq = h /\ r.prio = kk.prio /\ r.st = kk.st /\ r \in KType
  BY <1>1, <1>7 DEF KType
<1>9. \A l \in Prios : Distinct(h[l])
  BY <1>1, <1>5, <1>6 DEF AllBut
<1>10. ASSUME NEW l \in Prios, NEW u \in Threads
       PROVE  InQueue(h[l], u) <=> kk.st[u] = "READY" /\ kk.prio[u] = l
  <2>1. CASE l = p
    BY <1>1, <1>2, <1>6, <2>1 DEF AllBut
  <2>2. CASE l # p
    BY <1>1, <1>2, <1>5, <2>2 DEF AllBut
  <2> QED
    BY <2>1, <2>2
<1> HIDE DEF r
<1>11. QueuesSound(r)
  BY <1>8, <1>9, <1>10 DEF QueuesSound
<1> QED
  BY <1>8, <1>11 DEF KSound, r, h

LEMMA AsleepSound ==
    ASSUME NEW S, NEW prio \in [Threads -> Prios]
    PROVE  KSound(Asleep(S, prio))
<1>1. Asleep(S, prio) \in KType
  BY DEF Asleep, KType, States
<1>2. \A l \in Prios : Asleep(S, prio).rq[l] = <<>>
  BY DEF Asleep
<1>3. \A t \in Threads : Asleep(S, prio).st[t] # "READY"
  BY DEF Asleep
<1> QED
  BY <1>1, <1>2, <1>3 DEF KSound, QueuesSound, Distinct, InQueue

(* scheduling() gives the processor to a READY thread of the highest       *)
(* priority, and to the idle thread if there is none.                      *)
LEMMA SchedulingSound ==
    ASSUME NEW kk, KSound(kk)
    PROVE  LET s == scheduling(kk)
           IN  /\ s \in Threads \cup {Idle}
               /\ s = Idle => \A u \in Threads : kk.st[u] # "READY"
               /\ s # Idle => /\ kk.st[s] = "READY"
                              /\ \A u \in Threads : kk.st[u] = "READY" => kk.prio[s] <= kk.prio[u]
<1> DEFINE busy == {l \in Prios : kk.rq[l] # <<>>}
<1>1. /\ kk.st \in [Threads -> States] /\ kk.prio \in [Threads -> Prios]
      /\ kk.rq \in [Prios -> Seq(Threads)] /\ QueuesSound(kk)
  BY DEF KSound, KType
<1>2. Prios \subseteq Nat
  BY KThreadsAssumption DEF Prios
<1>3. \A u \in Threads : kk.st[u] = "READY" => kk.prio[u] \in busy
  <2> SUFFICES ASSUME NEW u \in Threads, kk.st[u] = "READY" PROVE kk.prio[u] \in busy
    OBVIOUS
  <2>1. InQueue(kk.rq[kk.prio[u]], u)
    BY <1>1 DEF QueuesSound
  <2> QED
    BY <1>1, <2>1 DEF InQueue
<1>4. CASE busy = {}
  <2>1. scheduling(kk) = Idle
    BY <1>4 DEF scheduling
  <2> QED
    BY <1>3, <1>4, <2>1
<1>5. CASE busy # {}
  <2> DEFINE l == CHOOSE n \in busy : \A m \in busy : n <= m
  <2>1. l \in busy /\ \A m \in busy : l <= m
    BY <1>2, <1>5, LeastNat
  <2>2. scheduling(kk) = Head(kk.rq[l])
    BY <1>5 DEF scheduling
  <2> HIDE DEF l
  <2>3. kk.rq[l] \in Seq(Threads) /\ kk.rq[l] # <<>>
    BY <1>1, <2>1
  <2>4. Head(kk.rq[l]) = kk.rq[l][1] /\ 1 \in 1 .. Len(kk.rq[l]) /\ Head(kk.rq[l]) \in Threads
    BY <2>3
  <2>5. InQueue(kk.rq[l], scheduling(kk))
    BY <2>2, <2>4 DEF InQueue
  <2>6. kk.st[scheduling(kk)] = "READY" /\ kk.prio[scheduling(kk)] = l
    BY <1>1, <2>1, <2>2, <2>4, <2>5 DEF QueuesSound
  <2> QED
    BY <1>3, <2>1, <2>2, <2>4, <2>6, KThreadsAssumption
<1> QED
  BY <1>4, <1>5
LEMMA SchedulingType ==
    ASSUME NEW kk, KSound(kk) PROVE scheduling(kk) \in Threads \cup {Idle}
BY SchedulingSound

(* The states after the functions of the scheduler, thread by thread.      *)
LEMMA SuspendStates ==
    ASSUME NEW kk, KSound(kk), NEW t \in Threads, kk.st[t] # "FINISHED"
    PROVE  \A u \in Threads : suspend_thread(kk, t).st[u] = IF u = t THEN "SUSPENDED" ELSE kk.st[u]
<1>1. kk.st \in [Threads -> States]
  BY DEF KSound, KType
<1>2. suspend_thread(kk, t).st = [kk.st EXCEPT ![t] = IF @ = "FINISHED" THEN @ ELSE "SUSPENDED"]
  BY SuspendSound
<1> QED
  BY <1>1, <1>2

LEMMA ActivateStates ==
    ASSUME NEW kk, KSound(kk), NEW t \in Threads, kk.st[t] # "FINISHED"
    PROVE  \A u \in Threads : activate_thread(kk, t).st[u] = IF u = t THEN "READY" ELSE kk.st[u]
<1>1. kk.st \in [Threads -> States]
  BY DEF KSound, KType
<1>2. activate_thread(kk, t).st = [kk.st EXCEPT ![t] = IF @ = "FINISHED" THEN @ ELSE "READY"]
  BY ActivateSound
<1> QED
  BY <1>1, <1>2

LEMMA ChangePrioStates ==
    ASSUME NEW kk, KSound(kk), NEW t \in Threads, NEW p \in Prios
    PROVE  change_thread_prio(kk, t, p).st = kk.st
BY ChangePrioSound

-----------------------------------------------------------------------------
(* The lists of blocked threads.  Chain: the list l consists of the nodes  *)
(* f[1], ..., f[n]; a node outside it has no neighbours.                   *)
Chain(l, n, f) ==
    /\ l \in ListType /\ n \in Nat /\ f \in [1 .. n -> Threads]
    /\ \A i, j \in 1 .. n : f[i] = f[j] => i = j
    /\ l.head = IF n = 0 THEN NULL ELSE f[1]
    /\ \A i \in 1 .. n : /\ l.next[f[i]] = IF i = n THEN NULL ELSE f[i + 1]
                         /\ l.prev[f[i]] = IF i = 1 THEN NULL ELSE f[i - 1]
    /\ \A t \in Threads : (\A i \in 1 .. n : f[i] # t) => l.next[t] = NULL /\ l.prev[t] = NULL

ListSound(l) == \E n, f : Chain(l, n, f)

(* A list has at most as many nodes as there are threads.                  *)
LEMMA ChainBound ==
    ASSUME NEW l, NEW n, NEW f, Chain(l, n, f)
    PROVE  Cardinality(Threads) \in Nat /\ n <= Cardinality(Threads)
<1>1. n \in Nat /\ f \in [1 .. n -> Threads] /\ \A i, j \in 1 .. n : f[i] = f[j] => i = j
  BY DEF Chain
<1>2. f \in Injection(1 .. n, Threads)
  BY <1>1 DEF Injection, IsInjective
<1>3. Cardinality(1 .. n) <= Cardinality(Threads)
  BY <1>2, FS_Injection, KThreadsAssumption
<1>4. Cardinality(1 .. n) = n
  BY <1>1, FS_Interval
<1>5. Cardinality(Threads) \in Nat
  BY FS_CardinalityType, KThreadsAssumption
<1> QED
  BY <1>3, <1>4, <1>5

(* Linked, which follows the links from the head, finds the nodes.         *)
LEMMA LinkedChain ==
    ASSUME NEW l, NEW n, NEW f, Chain(l, n, f)
    PROVE  Linked(l) = {f[i] : i \in 1 .. n}
<1> DEFINE N == Cardinality(Threads)
           Walk(g) == [i \in 0 .. N |-> IF i = 0 THEN l.head
                                        ELSE IF g[i - 1] = NULL THEN NULL ELSE l.next[g[i - 1]]]
           after == CHOOSE g : g = Walk(g)
           w == [i \in 0 .. N |-> IF i < n THEN f[i + 1] ELSE NULL]
<1>1. Linked(l) = {after[i] : i \in 0 .. N} \ {NULL}
  BY DEF Linked
<1>2. N \in Nat /\ n \in Nat /\ n <= N
  <2>1. n \in Nat
    BY DEF Chain
  <2>2. Cardinality(Threads) \in Nat /\ n <= Cardinality(Threads)
    BY ChainBound
  <2> QED
    BY <2>1, <2>2
<1> HIDE DEF N
<1>3. \A i \in 1 .. n : f[i] \in Threads /\ f[i] # NULL
  BY KThreadsAssumption DEF Chain
<1>4. \A i \in 0 .. N : w[i] = Walk(w)[i]
  <2> SUFFICES ASSUME NEW i \in 0 .. N PROVE w[i] = Walk(w)[i]
    OBVIOUS
  <2>1. CASE i = 0
    BY <1>2, <2>1 DEF Chain
  <2>2. CASE i # 0 /\ i <= n
    <3>1. i \in 1 .. n /\ i - 1 \in 0 .. N /\ w[i - 1] = f[i]
      BY <1>2, <2>2
    <3>2. Walk(w)[i] = l.next[f[i]]
      BY <1>3, <2>2, <3>1
    <3> QED
      BY <1>2, <2>2, <3>1, <3>2 DEF Chain
  <2>3. CASE i # 0 /\ ~(i <= n)
    BY <1>2, <2>3
  <2> QED
    BY <2>1, <2>2, <2>3
<1>5. w = Walk(w)
  BY <1>4
<1>6. after = Walk(after)
  <2> HIDE DEF Walk, w
  <2> QED
    BY <1>5
<1>7. \A i \in 0 .. N : after[i] = w[i]
  <2> DEFINE T == {i \in Nat : i \in 0 .. N => after[i] = w[i]}
  <2> HIDE DEF after, w
  <2>1. after[0] = w[0]
    BY <1>2, <1>5, <1>6
  <2>2. ASSUME NEW i \in Nat, i \in T PROVE i + 1 \in T
    <3> SUFFICES ASSUME i + 1 \in 0 .. N PROVE after[i + 1] = w[i + 1]
      OBVIOUS
    <3>1. i \in 0 .. N /\ after[i] = w[i]
      BY <1>2, <2>2
    <3>2. Walk(after)[i + 1] = (IF after[i] = NULL THEN NULL ELSE l.next[after[i]])
      BY <1>2
    <3>3. Walk(w)[i + 1] = (IF w[i] = NULL THEN NULL ELSE l.next[w[i]])
      BY <1>2
    <3> QED
      BY <1>5, <1>6, <3>1, <3>2, <3>3
  <2>3. 0 \in T
    BY <2>1
  <2>4. T = Nat
    <3> HIDE DEF T
    <3>1. T \in SUBSET Nat
      BY DEF T
    <3> QED
      BY <2>2, <2>3, <3>1, Induct
  <2> QED
    BY <1>2, <2>4
<1>8. {w[i] : i \in 0 .. N} \ {NULL} = {f[i] : i \in 1 .. n}
  <2>1. ASSUME NEW i \in 0 .. N, w[i] # NULL PROVE w[i] \in {f[j] : j \in 1 .. n}
    BY <1>2, <2>1
  <2>2. ASSUME NEW j \in 1 .. n PROVE f[j] # NULL /\ \E i \in 0 .. N : f[j] = w[i]
    <3>1. j - 1 \in 0 .. N /\ w[j - 1] = f[j]
      BY <1>2
    <3> QED
      BY <1>3, <3>1
  <2> QED
    BY <2>1, <2>2
<1> HIDE DEF after, w
<1>9. {after[i] : i \in 0 .. N} = {w[i] : i \in 0 .. N}
  BY <1>7
<1> QED
  BY <1>1, <1>8, <1>9

(* An empty list, and the head of a list.                                  *)
LEMMA HeadSound ==
    ASSUME NEW l, ListSound(l)
    PROVE  /\ l \in ListType /\ Linked(l) \subseteq Threads
           /\ l.head = NULL => Linked(l) = {}
           /\ l.head # NULL => l.head \in Linked(l)
<1>1. PICK n, f : Chain(l, n, f)
  BY DEF ListSound
<1>2. Linked(l) = {f[i] : i \in 1 .. n}
  BY <1>1, LinkedChain
<1>3. n \in Nat /\ f \in [1 .. n -> Threads] /\ NULL \notin Threads
  BY <1>1, KThreadsAssumption DEF Chain
<1>4. CASE n = 0
  BY <1>1, <1>2, <1>3, <1>4 DEF Chain
<1>5. CASE n # 0
  BY <1>1, <1>2, <1>3, <1>5 DEF Chain
<1> QED
  BY <1>4, <1>5

LEMMA InitListSound ==
    ListSound(init_pthread_list) /\ Linked(init_pthread_list) = {} /\ init_pthread_list.head = NULL
<1> DEFINE f == [i \in 1 .. 0 |-> NULL]
<1>1. Chain(init_pthread_list, 0, f)
  BY DEF Chain, init_pthread_list, ListType
<1>2. ListSound(init_pthread_list) /\ init_pthread_list.head = NULL
  BY <1>1 DEF ListSound, init_pthread_list
<1> QED
  BY <1>2, HeadSound

LEMMA InsertSound ==
    ASSUME NEW l, ListSound(l), NEW p \in Threads, p \notin Linked(l)
    PROVE  /\ ListSound(insert_pthread_list(l, p))
           /\ Linked(insert_pthread_list(l, p)) = Linked(l) \cup {p}
<1>1. PICK n, f : Chain(l, n, f)
  BY DEF ListSound
<1>2. Linked(l) = {f[i] : i \in 1 .. n}
  BY <1>1, LinkedChain
<1>3. /\ n \in Nat /\ f \in [1 .. n -> Threads] /\ l \in ListType /\ NULL \notin Threads
      /\ \A i \in 1 .. n : f[i] # p /\ f[i] \in Threads /\ f[i] # NULL
  BY <1>1, <1>2, KThreadsAssumption DEF Chain
<1> DEFINE r == insert_pthread_list(l, p)
           h == [i \in 1 .. n + 1 |-> IF i = 1 THEN p ELSE f[i - 1]]
<1>4. r.head = p /\ r.next = [l.next EXCEPT ![p] = l.head]
  BY DEF insert_pthread_list
<1>5. r.prev = IF n = 0 THEN l.prev ELSE [l.prev EXCEPT ![f[1]] = p]
  <2>1. l.head = NULL <=> n = 0
    BY <1>1, <1>3 DEF Chain
  <2> QED
    BY <2>1, <1>1 DEF insert_pthread_list, Chain
<1>6. r \in ListType
  BY <1>3 DEF insert_pthread_list, ListType
<1>7. h \in [1 .. n + 1 -> Threads] /\ n + 1 \in Nat
  BY <1>3
<1>8. \A i, j \in 1 .. n + 1 : h[i] = h[j] => i = j
  <2>1. \A i \in 1 .. n + 1 : i # 1 => i - 1 \in 1 .. n /\ h[i] = f[i - 1]
    BY <1>3
  <2>2. h[1] = p
    BY <1>3
  <2> HIDE DEF h
  <2>3. ASSUME NEW i \in 1 .. n + 1, NEW j \in 1 .. n + 1, h[i] = h[j] PROVE i = j
    <3>1. CASE i = 1 \/ j = 1
      BY <1>3, <2>1, <2>2, <2>3, <3>1
    <3>2. CASE i # 1 /\ j # 1
      <4>1. i - 1 = j - 1
        BY <1>1, <2>1, <2>3, <3>2 DEF Chain
      <4> QED
        BY <4>1
    <3> QED
      BY <3>1, <3>2
  <2> QED
    BY <2>3
<1>9. \A i \in 1 .. n + 1 : /\ r.next[h[i]] = IF i = n + 1 THEN NULL ELSE h[i + 1]
                            /\ r.prev[h[i]] = IF i = 1 THEN NULL ELSE h[i - 1]
  <2> SUFFICES ASSUME NEW i \in 1 .. n + 1
               PROVE  /\ r.next[h[i]] = IF i = n + 1 THEN NULL ELSE h[i + 1]
                      /\ r.prev[h[i]] = IF i = 1 THEN NULL ELSE h[i - 1]
    OBVIOUS
  <2>0. l.next \in [Threads -> Threads \cup {NULL}] /\ l.prev \in [Threads -> Threads \cup {NULL}]
    BY <1>3 DEF ListType
  <2> HIDE DEF r
  <2>1. CASE i = 1
    <3>1. h[i] = p /\ r.next[p] = l.head
      BY <1>3, <1>4, <2>0, <2>1
    <3>2. r.next[h[i]] = IF i = n + 1 THEN NULL ELSE h[i + 1]
      BY <1>1, <1>3, <2>1, <3>1 DEF Chain
    <3>3. r.prev[p] = l.prev[p]
      BY <1>3, <1>5, <2>0
    <3>4. l.prev[p] = NULL
      BY <1>1, <1>3 DEF Chain
    <3> QED
      BY <2>1, <3>1, <3>2, <3>3, <3>4
  <2>2. CASE i # 1
    <3>1. i - 1 \in 1 .. n /\ h[i] = f[i - 1] /\ f[i - 1] # p /\ f[i - 1] \in Threads
      BY <1>3, <2>2
    <3>2. r.next[h[i]] = l.next[f[i - 1]]
      BY <1>4, <2>0, <3>1
    <3>3. r.next[h[i]] = IF i = n + 1 THEN NULL ELSE h[i + 1]
      BY <1>1, <1>3, <2>2, <3>1, <3>2 DEF Chain
    <3>4. CASE i = 2
      BY <1>3, <1>5, <2>0, <2>2, <3>1, <3>3, <3>4
    <3>5. CASE i # 2
      <4>1. f[i - 1] # f[1]
        BY <1>1, <3>1, <3>5 DEF Chain
      <4>2. r.prev[h[i]] = l.prev[f[i - 1]]
        BY <1>3, <1>5, <2>0, <3>1, <4>1
      <4>3. l.prev[f[i - 1]] = f[i - 2] /\ h[i - 1] = f[i - 2]
        BY <1>1, <1>3, <2>2, <3>1, <3>5 DEF Chain
      <4> QED
        BY <2>2, <3>3, <4>2, <4>3
    <3> QED
      BY <3>4, <3>5
  <2> QED
    BY <2>1, <2>2
<1>10. \A t \in Threads : (\A i \in 1 .. n + 1 : h[i] # t) => r.next[t] = NULL /\ r.prev[t] = NULL
  <2> SUFFICES ASSUME NEW t \in Threads, \A i \in 1 .. n + 1 : h[i] # t
               PROVE  r.next[t] = NULL /\ r.prev[t] = NULL
    OBVIOUS
  <2>1. t # p
    BY <1>3
  <2>2. \A i \in 1 .. n : f[i] # t
    <3> SUFFICES ASSUME NEW i \in 1 .. n PROVE f[i] # t
      OBVIOUS
    <3>1. i + 1 \in 1 .. n + 1 /\ h[i + 1] = f[i]
      BY <1>3
    <3> QED
      BY <3>1
  <2>3. l.next[t] = NULL /\ l.prev[t] = NULL
    BY <1>1, <2>2 DEF Chain
  <2>4. l.next \in [Threads -> Threads \cup {NULL}] /\ l.prev \in [Threads -> Threads \cup {NULL}]
    BY <1>3 DEF ListType
  <2> HIDE DEF r, h
  <2> QED
    BY <1>3, <1>4, <1>5, <2>1, <2>2, <2>3, <2>4
<1>11. r.head = IF n + 1 = 0 THEN NULL ELSE h[1]
  BY <1>3, <1>4
<1>12. {h[i] : i \in 1 .. n + 1} = {f[i] : i \in 1 .. n} \cup {p}
  <2>1. \A i \in 1 .. n + 1 : h[i] \in {f[j] : j \in 1 .. n} \cup {p}
    BY <1>3
  <2>2. ASSUME NEW j \in 1 .. n PROVE f[j] \in {h[i] : i \in 1 .. n + 1}
    <3>1. j + 1 \in 1 .. n + 1 /\ h[j + 1] = f[j]
      BY <1>3
    <3> QED
      BY <3>1
  <2>3. 1 \in 1 .. n + 1 /\ h[1] = p
    BY <1>3
  <2> QED
    BY <2>1, <2>2, <2>3
<1> HIDE DEF r, h
<1>13. Chain(r, n + 1, h)
  BY <1>6, <1>7, <1>8, <1>9, <1>10, <1>11 DEF Chain
<1>14. ListSound(r)
  BY <1>13 DEF ListSound
<1>15. Linked(r) = {h[i] : i \in 1 .. n + 1}
  BY <1>13, LinkedChain
<1> QED
  BY <1>2, <1>12, <1>14, <1>15 DEF r

LEMMA RemoveSound ==
    ASSUME NEW l, ListSound(l), NEW p \in Threads
    PROVE  /\ ListSound(remove_pthread_list(l, p))
           /\ Linked(remove_pthread_list(l, p)) = Linked(l) \ {p}
<1>1. PICK n, f : Chain(l, n, f)
  BY DEF ListSound
<1>2. Linked(l) = {f[i] : i \in 1 .. n}
  BY <1>1, LinkedChain
<1>3. /\ n \in Nat /\ f \in [1 .. n -> Threads] /\ l \in ListType /\ NULL \notin Threads
      /\ \A i \in 1 .. n : f[i] \in Threads /\ f[i] # NULL
  BY <1>1, KThreadsAssumption DEF Chain
<1>4. l.next \in [Threads -> Threads \cup {NULL}] /\ l.prev \in [Threads -> Threads \cup {NULL}]
  BY <1>3 DEF ListType
<1> DEFINE r == remove_pthread_list(l, p)
<1>5. CASE \A i \in 1 .. n : f[i] # p
  <2>1. l.next[p] = NULL /\ l.prev[p] = NULL /\ l.head # p
    BY <1>1, <1>3, <1>5 DEF Chain
  <2>2. [l.next EXCEPT ![p] = NULL] = l.next /\ [l.prev EXCEPT ![p] = NULL] = l.prev
    BY <1>4, <2>1
  <2>3. r = [head |-> l.head, next |-> l.next, prev |-> l.prev]
    BY <2>1, <2>2 DEF remove_pthread_list
  <2>4. r = l
    BY <1>3, <2>3 DEF ListType
  <2>5. p \notin Linked(l)
    BY <1>2, <1>5
  <2> QED
    BY <2>4, <2>5
<1>6. ASSUME NEW m \in 1 .. n, f[m] = p
      PROVE  ListSound(r) /\ Linked(r) = Linked(l) \ {p}
  <2> DEFINE nx == IF m = n THEN NULL ELSE f[m + 1]
             pv == IF m = 1 THEN NULL ELSE f[m - 1]
             prev == IF m = n THEN l.prev ELSE [l.prev EXCEPT ![f[m + 1]] = pv]
             next == IF m = 1 THEN l.next ELSE [l.next EXCEPT ![f[m - 1]] = nx]
             h == [i \in 1 .. n - 1 |-> IF i < m THEN f[i] ELSE f[i + 1]]
  <2>1. l.next[p] = nx /\ l.prev[p] = pv
    BY <1>1, <1>6 DEF Chain
  <2>2. \A i, j \in 1 .. n : f[i] = f[j] => i = j
    BY <1>1 DEF Chain
  <2>3. nx \in Threads \cup {NULL} /\ pv \in Threads \cup {NULL}
    BY <1>3
  <2>4. nx # p /\ pv # p
    BY <1>3, <1>6, <2>2
  <2>5. prev[p] = pv
    BY <1>3, <1>4, <1>6, <2>1, <2>2, <2>4
  <2>6. next[p] = nx
    BY <1>3, <1>4, <1>6, <2>1, <2>2, <2>4
  <2>7. l.head = p <=> m = 1
    BY <1>1, <1>3, <1>6, <2>2 DEF Chain
  <2>8. /\ r.next = [next EXCEPT ![p] = NULL] /\ r.prev = [prev EXCEPT ![p] = NULL]
        /\ r.head = IF m = 1 THEN nx ELSE l.head
        /\ r = [head |-> r.head, next |-> r.next, prev |-> r.prev]
    <3>1. (l.next[p] = NULL <=> m = n) /\ (prev[p] = NULL <=> m = 1)
      BY <1>3, <1>6, <2>1, <2>5
    <3>2. prev = IF l.next[p] = NULL THEN l.prev ELSE [l.prev EXCEPT ![l.next[p]] = l.prev[p]]
      BY <2>1, <3>1
    <3>3. next = IF prev[p] = NULL THEN l.next ELSE [l.next EXCEPT ![prev[p]] = l.next[p]]
      BY <2>1, <2>5, <3>1
    <3> HIDE DEF prev, next
    <3>4. r = [head |-> IF l.head = p THEN next[p] ELSE l.head,
               next |-> [next EXCEPT ![p] = NULL], prev |-> [prev EXCEPT ![p] = NULL]]
      BY <3>2, <3>3 DEF remove_pthread_list
    <3> QED
      BY <2>6, <2>7, <3>4
  <2>9. /\ next \in [Threads -> Threads \cup {NULL}] /\ prev \in [Threads -> Threads \cup {NULL}]
        /\ \A t \in Threads : /\ (m = 1 \/ t # f[m - 1]) => next[t] = l.next[t]
                              /\ (m = n \/ t # f[m + 1]) => prev[t] = l.prev[t]
    BY <1>3, <1>4, <2>3
  <2>10. (m # 1 => next[f[m - 1]] = nx) /\ (m # n => prev[f[m + 1]] = pv)
    BY <1>3, <1>4
  <2> HIDE DEF r, nx, pv, prev, next
  <2>11. r \in ListType
    BY <1>3, <2>3, <2>8, <2>9 DEF ListType
  <2>12. /\ r.next[p] = NULL /\ r.prev[p] = NULL
         /\ \A t \in Threads : t # p => r.next[t] = next[t] /\ r.prev[t] = prev[t]
    BY <2>8, <2>9
  <2>13. \A i \in 1 .. n : i # m =>
             /\ r.next[f[i]] = IF i = m - 1 THEN nx ELSE IF i = n THEN NULL ELSE f[i + 1]
             /\ r.prev[f[i]] = IF i = m + 1 THEN pv ELSE IF i = 1 THEN NULL ELSE f[i - 1]
    <3> SUFFICES ASSUME NEW i \in 1 .. n, i # m
                 PROVE  /\ r.next[f[i]] = IF i = m - 1 THEN nx ELSE IF i = n THEN NULL ELSE f[i + 1]
                        /\ r.prev[f[i]] = IF i = m + 1 THEN pv ELSE IF i = 1 THEN NULL ELSE f[i - 1]
      OBVIOUS
    <3>1. f[i] \in Threads /\ f[i] # p /\ n \in Nat
      BY <1>3, <1>6, <2>2
    <3>2. r.next[f[i]] = next[f[i]] /\ r.prev[f[i]] = prev[f[i]]
      BY <2>12, <3>1
    <3>3. /\ l.next[f[i]] = IF i = n THEN NULL ELSE f[i + 1]
          /\ l.prev[f[i]] = IF i = 1 THEN NULL ELSE f[i - 1]
      BY <1>1 DEF Chain
    <3>4. CASE i = m - 1
      BY <2>9, <2>10, <3>1, <3>2, <3>3, <3>4, <2>2
    <3>5. CASE i = m + 1
      BY <2>9, <2>10, <3>1, <3>2, <3>3, <3>5, <2>2
    <3>6. CASE i # m - 1 /\ i # m + 1
      <4>1. m = 1 \/ f[i] # f[m - 1]
        BY <2>2, <3>1, <3>6
      <4>2. m = n \/ f[i] # f[m + 1]
        BY <2>2, <3>1, <3>6
      <4> QED
        BY <2>9, <3>1, <3>2, <3>3, <3>6, <4>1, <4>2
    <3> QED
      BY <3>4, <3>5, <3>6
  <2>14. n - 1 \in Nat /\ h \in [1 .. n - 1 -> Threads]
    BY <1>3
  <2>15. \A i \in 1 .. n - 1 : \E j \in 1 .. n : j # m /\ h[i] = f[j] /\ j = IF i < m THEN i ELSE i + 1
    BY <1>3
  <2>16. \A i, j \in 1 .. n - 1 : h[i] = h[j] => i = j
    <3> SUFFICES ASSUME NEW i \in 1 .. n - 1, NEW j \in 1 .. n - 1, h[i] = h[j] PROVE i = j
      OBVIOUS
    <3>1. PICK a \in 1 .. n : h[i] = f[a] /\ a = IF i < m THEN i ELSE i + 1
      BY <2>15
    <3>2. PICK b \in 1 .. n : h[j] = f[b] /\ b = IF j < m THEN j ELSE j + 1
      BY <2>15
    <3>3. a = b
      BY <2>2, <3>1, <3>2
    <3> QED
      BY <3>1, <3>2, <3>3
  <2>17. \A i \in 1 .. n - 1 : /\ r.next[h[i]] = IF i = n - 1 THEN NULL ELSE h[i + 1]
                               /\ r.prev[h[i]] = IF i = 1 THEN NULL ELSE h[i - 1]
    <3> SUFFICES ASSUME NEW i \in 1 .. n - 1
                 PROVE  /\ r.next[h[i]] = IF i = n - 1 THEN NULL ELSE h[i + 1]
                        /\ r.prev[h[i]] = IF i = 1 THEN NULL ELSE h[i - 1]
      OBVIOUS
    <3>1. CASE i < m
      <4>1. h[i] = f[i] /\ i \in 1 .. n /\ i # m
        BY <1>3, <3>1
      <4>2. r.next[h[i]] = IF i = n - 1 THEN NULL ELSE h[i + 1]
        BY <1>3, <2>13, <3>1, <4>1 DEF nx
      <4>3. r.prev[h[i]] = IF i = 1 THEN NULL ELSE h[i - 1]
        BY <1>3, <2>13, <3>1, <4>1
      <4> QED
        BY <4>2, <4>3
    <3>2. CASE ~(i < m)
      <4>1. h[i] = f[i + 1] /\ i + 1 \in 1 .. n /\ i + 1 # m
        BY <1>3, <3>2
      <4>2. r.next[h[i]] = IF i = n - 1 THEN NULL ELSE h[i + 1]
        BY <1>3, <2>13, <3>2, <4>1
      <4>3. r.prev[h[i]] = IF i = 1 THEN NULL ELSE h[i - 1]
        BY <1>3, <2>13, <3>2, <4>1 DEF pv
      <4> QED
        BY <4>2, <4>3
    <3> QED
      BY <3>1, <3>2
  <2>18. \A j \in 1 .. n : j # m => \E i \in 1 .. n - 1 : h[i] = f[j]
    <3> SUFFICES ASSUME NEW j \in 1 .. n, j # m PROVE \E i \in 1 .. n - 1 : h[i] = f[j]
      OBVIOUS
    <3>1. CASE j < m
      <4>1. j \in 1 .. n - 1 /\ h[j] = f[j]
        BY <1>3, <3>1
      <4> QED
        BY <4>1
    <3>2. CASE j > m
      <4>1. j - 1 \in 1 .. n - 1 /\ h[j - 1] = f[j]
        BY <1>3, <3>2
      <4> QED
        BY <4>1
    <3> QED
      BY <1>3, <3>1, <3>2
  <2>19. r.head = IF n - 1 = 0 THEN NULL ELSE h[1]
    BY <1>1, <1>3, <2>8 DEF Chain, nx
  <2> HIDE DEF h
  <2>20. \A t \in Threads : (\A i \in 1 .. n - 1 : h[i] # t) => r.next[t] = NULL /\ r.prev[t] = NULL
    <3> SUFFICES ASSUME NEW t \in Threads, \A i \in 1 .. n - 1 : h[i] # t, t # p
                 PROVE  r.next[t] = NULL /\ r.prev[t] = NULL
      BY <2>12
    <3>1. \A j \in 1 .. n : f[j] # t
      BY <1>6, <2>18
    <3>2. l.next[t] = NULL /\ l.prev[t] = NULL
      BY <1>1, <3>1 DEF Chain
    <3>3. (m = 1 \/ t # f[m - 1]) /\ (m = n \/ t # f[m + 1])
      BY <1>3, <3>1
    <3> QED
      BY <2>9, <2>12, <3>2, <3>3
  <2>21. Chain(r, n - 1, h)
    BY <2>11, <2>14, <2>16, <2>17, <2>19, <2>20 DEF Chain
  <2>22. Linked(r) = {h[i] : i \in 1 .. n - 1}
    BY <2>21, LinkedChain
  <2>23. {h[i] : i \in 1 .. n - 1} = {f[i] : i \in 1 .. n} \ {p}
    BY <1>6, <2>2, <2>15, <2>18
  <2> QED
    BY <1>2, <2>21, <2>22, <2>23 DEF ListSound
<1> QED
  BY <1>5, <1>6

LEMMA RemoveHeadSound ==
    ASSUME NEW l, ListSound(l)
    PROVE  /\ ListSound(remove_head_pthread_list(l))
           /\ Linked(remove_head_pthread_list(l)) = Linked(l) \ {l.head}
<1>1. CASE l.head = NULL
  <2>1. remove_head_pthread_list(l) = l
    BY <1>1 DEF remove_head_pthread_list
  <2> QED
    BY <1>1, <2>1, HeadSound
<1>2. CASE l.head # NULL
  <2>1. l.head \in Threads /\ l \in ListType
    BY <1>2, HeadSound DEF ListType
  <2>2. PICK p \in Threads : p = l.head
    BY <2>1
  <2>3. l.prev[p] = NULL /\ l.next[p] # p
    BY <1>2, <2>2, KThreadsAssumption DEF ListSound, Chain
  <2>4. l.prev \in [Threads -> Threads \cup {NULL}]
    BY <2>1 DEF ListType
  <2> DEFINE h == l.next[p]
             prev == IF h = NULL THEN l.prev ELSE [l.prev EXCEPT ![h] = NULL]
  <2>5. prev[p] = NULL
    BY <2>3, <2>4
  <2>6. remove_head_pthread_list(l) = [head |-> h, next |-> [l.next EXCEPT ![p] = NULL],
                                       prev |-> [prev EXCEPT ![p] = NULL]]
    BY <1>2, <2>2 DEF remove_head_pthread_list
  <2>7. remove_pthread_list(l, p) = [head |-> h, next |-> [l.next EXCEPT ![p] = NULL],
                                     prev |-> [prev EXCEPT ![p] = NULL]]
    BY <2>2, <2>3, <2>5 DEF remove_pthread_list
  <2> QED
    BY <2>2, <2>6, <2>7, RemoveSound
<1> QED
  BY <1>1, <1>2

LEMMA InsertType ==
    ASSUME NEW l \in ListType, NEW p \in Threads
    PROVE  insert_pthread_list(l, p) \in ListType
BY DEF insert_pthread_list, ListType

LEMMA RemoveType ==
    ASSUME NEW l \in ListType, NEW p \in Threads
    PROVE  remove_pthread_list(l, p) \in ListType
BY DEF remove_pthread_list, ListType

LEMMA RemoveHeadType ==
    ASSUME NEW l \in ListType
    PROVE  remove_head_pthread_list(l) \in ListType
BY DEF remove_head_pthread_list, ListType
=============================================================================
