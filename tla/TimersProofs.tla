---------------------------- MODULE TimersProofs ----------------------------
(***************************************************************************)
(* Proofs about Timers: for every set of threads, length of timer_array,   *)
(* word size and clock, and for any delays and periods, the heap holds the *)
(* armed timers and who sleeps has an armed timer; and, for as long as at  *)
(* most five timers are armed and their times are of the clock's word, the *)
(* hardware timer is set for the first of them and sleeping is exact.      *)
(***************************************************************************)
EXTENDS Timers, SequenceTheorems, FiniteSetTheorems, TLAPS

LessThan == {p \in Nat \X Nat : p[1] < p[2]}

(* A nonempty set of natural numbers has a least element.                  *)
LEMMA LeastNat ==
    ASSUME NEW T \in SUBSET Nat, T # {}
    PROVE  \E n \in T : \A m \in T : n <= m
<1>1. IsWellFoundedOn(LessThan, Nat)
  BY NatLessThanWellFounded DEF OpToRel, LessThan
<1>2. PICK n \in T : \A m \in T : ~(<<m, n>> \in LessThan)
  BY <1>1, WFMin
<1>3. \A m \in T : ~(m < n)
  BY <1>2 DEF LessThan
<1> QED
  BY <1>3

(* Induction, for a set of numbers.                                        *)
LEMMA Induct ==
    ASSUME NEW T \in SUBSET Nat, 0 \in T, \A n \in Nat : n \in T => n + 1 \in T
    PROVE  T = Nat
<1> SUFFICES ASSUME Nat \ T # {} PROVE FALSE
  OBVIOUS
<1>1. PICK n \in Nat \ T : \A m \in Nat \ T : n <= m
  BY LeastNat
<1>2. n - 1 \in Nat /\ n - 1 \in T
  BY <1>1
<1> QED
  BY <1>1, <1>2

(* A function g on S can be iterated, and the iterates stay in S.          *)
Iterates(S, x, g, N) ==
    \E f \in [0 .. N -> S] : f[0] = x /\ \A i \in 1 .. N : f[i] = g[f[i - 1]]

LEMMA Iterate ==
    ASSUME NEW S, NEW x \in S, NEW g \in [S -> S], NEW N \in Nat
    PROVE  Iterates(S, x, g, N)
<1> DEFINE Goes(n) == \E f \in [0 .. n -> S] : f[0] = x /\ \A i \in 1 .. n : f[i] = g[f[i - 1]]
           T == {n \in Nat : Goes(n)}
<1>1. Goes(0)
  <2> DEFINE h == [i \in 0 .. 0 |-> x]
  <2>1. h \in [0 .. 0 -> S] /\ h[0] = x /\ \A i \in 1 .. 0 : h[i] = g[h[i - 1]]
    OBVIOUS
  <2> QED
    BY <2>1
<1>2. ASSUME NEW n \in Nat, Goes(n) PROVE Goes(n + 1)
  <2>1. PICK f \in [0 .. n -> S] : f[0] = x /\ \A i \in 1 .. n : f[i] = g[f[i - 1]]
    BY <1>2
  <2> DEFINE h == [i \in 0 .. n + 1 |-> IF i = n + 1 THEN g[f[n]] ELSE f[i]]
  <2>2. h \in [0 .. n + 1 -> S]
    BY <2>1
  <2>3. h[0] = x /\ \A i \in 1 .. n + 1 : h[i] = g[h[i - 1]]
    BY <2>1
  <2> QED
    BY <2>2, <2>3
<1>3. T = Nat
  <2> HIDE DEF Goes
  <2>1. 0 \in T /\ \A n \in Nat : n \in T => n + 1 \in T
    BY <1>1, <1>2
  <2> QED
    BY <2>1, Induct
<1> QED
  BY <1>3 DEF Iterates

-----------------------------------------------------------------------------
(* h has each element of S exactly once.                                   *)
HeapOf(h, S) ==
    /\ h \in Seq(TimerIds) /\ S \subseteq TimerIds
    /\ \A i \in 1 .. Len(h) : h[i] \in S
    /\ \A x \in S : \E i \in 1 .. Len(h) : h[i] = x
    /\ \A i, j \in 1 .. Len(h) : h[i] = h[j] => i = j

TimerType ==
    [use : BOOLEAN, armed : BOOLEAN, abs : BOOLEAN, value : Int, interval : Nat,
     owner : Threads \cup {Idle}, act : {"wakeup", "kill"}]
KType ==
    [tm : [TimerIds -> TimerType], heap : Seq(TimerIds), asleep : SUBSET Threads, fault : BOOLEAN]

Armed(tm) == {i \in TimerIds : tm[i].armed}

(* A timer by itself; sl are the sleep timers of the threads.              *)
TimerOK(i, x, asleep, sl) ==
    /\ x.armed => x.use
    /\ x.act = "wakeup" => x.interval = 0
    /\ x.armed /\ x.act = "wakeup" => x.owner \in asleep /\ sl[x.owner] = i

(* The sleep timer of a thread.                                            *)
OwnTimer(x, t) == x.use /\ x.act = "wakeup" /\ x.owner = t

KSound(kk, sl) ==
    /\ kk \in KType /\ HeapOf(kk.heap, Armed(kk.tm))
    /\ \A i \in TimerIds : TimerOK(i, kk.tm[i], kk.asleep, sl)
    /\ \A t \in kk.asleep : sl[t] # NoThread /\ kk.tm[sl[t]].armed
    /\ \A t \in Threads : sl[t] # NoThread => sl[t] \in TimerIds /\ OwnTimer(kk.tm[sl[t]], t)

(* The timer that a call of timer_settime_sys is about to arm.             *)
ToArm(x, t) == x.use /\ x.act = "kill" /\ x.owner = t /\ ~x.armed

TodoType ==
    {Done, [op |-> "update"], [op |-> "sleep"]}
    \cup [op : {"arm"}, timer : TimerIds, value : Nat, interval : Nat]

(* Every call of timer_settime_sys in progress has its timer.              *)
Arms(tm, td) == \A t \in Threads : td[t].op = "arm" => ToArm(tm[td[t].timer], t)

Sound(kk, sl, td, c) ==
    /\ KSound(kk, sl) /\ Arms(kk.tm, td)
    /\ sl \in [Threads -> TimerIds \cup {NoThread}] /\ td \in [Threads -> TodoType]
    /\ c \in Threads => sl[c] # NoThread
    /\ c \in kk.asleep => td[c].op = "sleep"

TimersInv == ~k.fault => Sound(k, slp, todo, cur) /\ ticks \in Nat

(* One timer replaced; the tables of the kernel replaced.                  *)
Put(tm, i, x) == [tm EXCEPT ![i] = x]
SetKernel(kk, h, tm) == [kk EXCEPT !.heap = h, !.tm = tm]

-----------------------------------------------------------------------------
(* The heap: its functions keep its elements.                              *)

LEMMA Sizes == MAX_TIMERS \in Nat \ {0} /\ HEAP_MAX_NELEM = MAX_TIMERS + 1
BY TimersAssumption DEF HEAP_MAX_NELEM

LEMMA HeapLen ==
    ASSUME NEW h, NEW S, HeapOf(h, S)
    PROVE  Len(h) \in Nat /\ Len(h) <= MAX_TIMERS
<1>1. h \in Seq(TimerIds) /\ Len(h) \in Nat /\ h \in [1 .. Len(h) -> TimerIds]
  BY DEF HeapOf
<1>2. h \in Injection(1 .. Len(h), TimerIds)
  BY <1>1 DEF HeapOf, Injection, IsInjective
<1>3. IsFiniteSet(TimerIds) /\ Cardinality(TimerIds) = MAX_TIMERS
  BY Sizes, FS_Interval DEF TimerIds
<1>4. Cardinality(1 .. Len(h)) = Len(h)
  BY <1>1, FS_Interval
<1>5. Cardinality(1 .. Len(h)) <= Cardinality(TimerIds)
  BY <1>2, <1>3, FS_Injection
<1> QED
  BY <1>1, <1>3, <1>4, <1>5

LEMMA ExchangeHeap ==
    ASSUME NEW h, NEW S, HeapOf(h, S), NEW i \in 1 .. Len(h), NEW j \in 1 .. Len(h),
           NEW r, r = Exchange(h, i, j)
    PROVE  HeapOf(r, S) /\ Len(r) = Len(h)
<1>1. h \in Seq(TimerIds) /\ Len(h) \in Nat /\ h \in [1 .. Len(h) -> TimerIds]
  BY DEF HeapOf
<1>2. PICK n \in Nat : n = Len(h)
  BY <1>1
<1>3. r = [m \in 1 .. n |-> IF m = j THEN h[i] ELSE IF m = i THEN h[j] ELSE h[m]]
  BY <1>1, <1>2 DEF Exchange
<1>4. r \in Seq(TimerIds) /\ Len(r) = n
  BY <1>1, <1>2, <1>3, IsASeq
<1>5. /\ \A m \in 1 .. n : h[m] \in S
      /\ \A x \in S : \E l \in 1 .. n : h[l] = x
      /\ \A l, m \in 1 .. n : h[l] = h[m] => l = m
  BY <1>2 DEF HeapOf
<1>6. \A m \in 1 .. n : r[m] = IF m = j THEN h[i] ELSE IF m = i THEN h[j] ELSE h[m]
  BY <1>3
<1>7. \A m \in 1 .. n : r[m] \in S
  BY <1>2, <1>5, <1>6
<1>8. ASSUME NEW x \in S PROVE \E m \in 1 .. n : r[m] = x
  <2>1. PICK l \in 1 .. n : h[l] = x
    BY <1>5
  <2>2. CASE l = i
    <3>1. j \in 1 .. n /\ r[j] = x
      BY <1>2, <1>6, <2>1, <2>2
    <3> QED
      BY <3>1
  <2>3. CASE l = j
    <3>1. i \in 1 .. n /\ r[i] = x
      BY <1>2, <1>6, <2>1, <2>3
    <3> QED
      BY <3>1
  <2>4. CASE l # i /\ l # j
    BY <1>6, <2>1, <2>4
  <2> QED
    BY <2>2, <2>3, <2>4
<1>9. \A l, m \in 1 .. n : r[l] = r[m] => l = m
  BY <1>2, <1>5, <1>6
<1> QED
  BY <1>2, <1>4, <1>7, <1>8, <1>9 DEF HeapOf

(* A loop that keeps a set of states ends in it.                           *)
LEMMA AlongLoop ==
    ASSUME NEW S, NEW N \in Nat, NEW f, f[0] \in S,
           \A n \in 1 .. N : f[n - 1] \in S => f[n] \in S
    PROVE  f[N] \in S
<1> DEFINE T == {n \in Nat : n <= N => f[n] \in S}
<1>1. 0 \in T
  OBVIOUS
<1>2. ASSUME NEW n \in Nat, n \in T PROVE n + 1 \in T
  <2>1. CASE n + 1 <= N
    <3>1. n + 1 \in 1 .. N /\ (n + 1) - 1 = n
      BY <2>1
    <3>2. f[(n + 1) - 1] \in S
      BY <1>2, <2>1, <3>1
    <3> QED
      BY <3>1, <3>2
  <2>2. CASE ~(n + 1 <= N)
    BY <2>2
  <2> QED
    BY <2>1, <2>2
<1>3. T = Nat
  BY <1>1, <1>2, Induct
<1> QED
  BY <1>3

(* What sinks or rises through the heap.                                   *)
Trips(S, n) == {s \in [a : Seq(TimerIds), at : 1 .. n] : HeapOf(s.a, S) /\ Len(s.a) = n}

LEMMA TripGoes ==
    ASSUME NEW S, NEW n \in Nat, NEW s, s \in Trips(S, n), NEW c \in 1 .. n
    PROVE  [a |-> Exchange(s.a, s.at, c), at |-> c] \in Trips(S, n)
<1>1. HeapOf(s.a, S) /\ Len(s.a) = n /\ s.at \in 1 .. n
  BY DEF Trips
<1>2. PICK r : r = Exchange(s.a, s.at, c)
  OBVIOUS
<1>3. HeapOf(r, S) /\ Len(r) = n
  BY <1>1, <1>2, ExchangeHeap
<1>4. r \in Seq(TimerIds)
  BY <1>3 DEF HeapOf
<1>5. [a |-> r, at |-> c] \in Trips(S, n)
  BY <1>3, <1>4 DEF Trips
<1> QED
  BY <1>2, <1>5

(* The loops of heapify and HEAP_insert, step by step.                     *)
LesserChild(s, v, n) ==
    IF 2 * s.at < n /\ IS_MIN(v, s.a[2 * s.at + 1], s.a[2 * s.at]) THEN 2 * s.at + 1 ELSE 2 * s.at
Sunk(s, v, n) == 2 * s.at > n \/ IS_MIN(v, s.a[s.at], s.a[LesserChild(s, v, n)])
Sink(s, v, n) ==
    IF Sunk(s, v, n) THEN s
    ELSE [a |-> Exchange(s.a, s.at, LesserChild(s, v, n)), at |-> LesserChild(s, v, n)]
Rise(s, v, e) ==
    IF s.at > 1 /\ IS_MIN(v, e, s.a[father(s.at)])
    THEN [a |-> Exchange(s.a, s.at, father(s.at)), at |-> father(s.at)] ELSE s

HeapifyLoop(w, h, S, v, top, n) ==
    /\ w[0] = [a |-> h, at |-> top] /\ \A i \in 1 .. n : w[i] = Sink(w[i - 1], v, n)
    /\ \A i \in 0 .. n : w[i] \in Trips(S, n)

LEMMA HeapifyWalk ==
    ASSUME NEW h, NEW S, HeapOf(h, S), NEW v, NEW top \in 1 .. Len(h), NEW n, n = Len(h)
    PROVE  \E w : HeapifyLoop(w, h, S, v, top, n) /\ heapify(h, v, top) = w[n].a
<1> DEFINE x == [a |-> h, at |-> top]
           Walk(w) == [m \in 0 .. n |-> IF m = 0 THEN x ELSE Sink(w[m - 1], v, n)]
           walk == CHOOSE w : w = Walk(w)
           T == Trips(S, n)
           g == [s \in T |-> Sink(s, v, n)]
<1>1. heapify(h, v, top) = walk[n].a
  BY DEF heapify, Sink, Sunk, LesserChild
<1>2. h \in Seq(TimerIds) /\ n \in Nat
  BY DEF HeapOf
<1>3. x \in T
  BY <1>2 DEF Trips
<1>4. ASSUME NEW s \in T PROVE Sink(s, v, n) \in T
  <2>1. s.at \in 1 .. n
    BY DEF Trips
  <2>2. CASE Sunk(s, v, n)
    BY <2>2 DEF Sink
  <2>3. CASE ~Sunk(s, v, n)
    <3>1. PICK c : c = LesserChild(s, v, n)
      OBVIOUS
    <3>2. 2 * s.at <= n
      BY <1>2, <2>1, <2>3 DEF Sunk
    <3>3. c \in 1 .. n
      BY <1>2, <2>1, <3>1, <3>2 DEF LesserChild
    <3>4. Sink(s, v, n) = [a |-> Exchange(s.a, s.at, c), at |-> c]
      BY <2>3, <3>1 DEF Sink
    <3> QED
      BY <1>2, <3>3, <3>4, TripGoes
  <2> QED
    BY <2>2, <2>3
<1> HIDE DEF T, x
<1>5. g \in [T -> T]
  BY <1>4
<1>6. PICK f \in [0 .. n -> T] : f[0] = x /\ \A i \in 1 .. n : f[i] = g[f[i - 1]]
  <2> HIDE DEF g
  <2>1. Iterates(T, x, g, n)
    BY <1>2, <1>3, <1>5, Iterate
  <2> QED
    BY <2>1 DEF Iterates
<1>7. \A i \in 1 .. n : f[i] = Sink(f[i - 1], v, n)
  <2> SUFFICES ASSUME NEW i \in 1 .. n PROVE f[i] = Sink(f[i - 1], v, n)
    OBVIOUS
  <2>1. f[i - 1] \in T
    BY <1>2, <1>6
  <2> QED
    BY <1>6, <2>1
<1>8. f = Walk(f)
  <2>1. \A i \in 0 .. n : f[i] = Walk(f)[i]
    <3> SUFFICES ASSUME NEW i \in 0 .. n PROVE f[i] = Walk(f)[i]
      OBVIOUS
    <3>1. CASE i = 0
      BY <1>6, <3>1
    <3>2. CASE i # 0
      <4>1. i \in 1 .. n
        BY <1>2, <3>2
      <4> QED
        BY <1>7, <3>2, <4>1
    <3> QED
      BY <3>1, <3>2
  <2> QED
    BY <1>6, <2>1
<1>9. walk = Walk(walk)
  BY <1>8
<1> HIDE DEF walk
<1>10. walk[0] = x /\ \A i \in 1 .. n : walk[i] = Sink(walk[i - 1], v, n)
  <2>1. 0 \in 0 .. n /\ \A i \in 1 .. n : i \in 0 .. n /\ i # 0
    BY <1>2
  <2>2. \A i \in 0 .. n : walk[i] = Walk(walk)[i]
    BY <1>9
  <2>3. \A i \in 0 .. n : Walk(walk)[i] = IF i = 0 THEN x ELSE Sink(walk[i - 1], v, n)
    OBVIOUS
  <2> QED
    BY <2>1, <2>2, <2>3
<1>11. ASSUME NEW j \in 0 .. n PROVE walk[j] \in T
  <2>1. walk[0] \in T
    BY <1>3, <1>10
  <2>2. ASSUME NEW i \in 1 .. j, walk[i - 1] \in T PROVE walk[i] \in T
    <3>1. i \in 1 .. n
      BY <1>2
    <3> QED
      BY <1>4, <1>10, <2>2, <3>1
  <2>3. j \in Nat
    BY <1>2
  <2> HIDE DEF Walk
  <2> QED
    BY <2>1, <2>2, <2>3, AlongLoop
<1> QED
  BY <1>1, <1>10, <1>11 DEF T, x, HeapifyLoop

InsertLoop(w, h, S, v, e, n) ==
    /\ w[0] = [a |-> Append(h, e), at |-> n + 1] /\ \A i \in 1 .. n : w[i] = Rise(w[i - 1], v, e)
    /\ \A i \in 0 .. n : w[i] \in Trips(S \cup {e}, n + 1)

LEMMA InsertWalk ==
    ASSUME NEW h, NEW S, HeapOf(h, S), NEW v, NEW e \in TimerIds \ S, NEW n, n = Len(h)
    PROVE  \E w : InsertLoop(w, h, S, v, e, n) /\ HEAP_insert(h, v, e, HEAP_MAX_NELEM) = w[n].a
<1> DEFINE R == S \cup {e}
           x == [a |-> Append(h, e), at |-> n + 1]
           Walk(w) == [m \in 0 .. n |-> IF m = 0 THEN x ELSE Rise(w[m - 1], v, e)]
           walk == CHOOSE w : w = Walk(w)
           T == Trips(R, n + 1)
           g == [s \in T |-> Rise(s, v, e)]
<1>2. h \in Seq(TimerIds) /\ n \in Nat
  BY DEF HeapOf
<1>1. HEAP_insert(h, v, e, HEAP_MAX_NELEM) = walk[n].a
  <2>1. ~(n + 1 > HEAP_MAX_NELEM)
    BY <1>2, HeapLen, Sizes
  <2> QED
    BY <2>1 DEF HEAP_insert, Rise
<1>3. x \in T
  <2>1. PICK b : b = Append(h, e)
    OBVIOUS
  <2>2. b \in Seq(TimerIds) /\ Len(b) = n + 1 /\ b[n + 1] = e /\ \A i \in 1 .. n : b[i] = h[i]
    BY <1>2, <2>1
  <2>3. \A i \in 1 .. n + 1 : i \in 1 .. n \/ i = n + 1
    BY <1>2
  <2>4. n + 1 \in 1 .. n + 1 /\ \A i \in 1 .. n : i \in 1 .. n + 1
    BY <1>2
  <2>5. /\ \A i \in 1 .. n : h[i] \in S
        /\ \A y \in S : \E i \in 1 .. n : h[i] = y
        /\ \A i, l \in 1 .. n : h[i] = h[l] => i = l
    BY DEF HeapOf
  <2>6. \A i \in 1 .. n + 1 : b[i] \in R
    BY <2>2, <2>3, <2>5
  <2>7. ASSUME NEW y \in R PROVE \E i \in 1 .. n + 1 : b[i] = y
    <3>1. CASE y = e
      BY <2>2, <2>4, <3>1
    <3>2. CASE y \in S
      <4>1. PICK i \in 1 .. n : h[i] = y
        BY <2>5, <3>2
      <4> QED
        BY <2>2, <2>4, <4>1
    <3> QED
      BY <3>1, <3>2
  <2>8. \A i, l \in 1 .. n + 1 : b[i] = b[l] => i = l
    BY <2>2, <2>3, <2>5
  <2>9. HeapOf(b, R)
    <3>1. R \subseteq TimerIds
      BY DEF HeapOf
    <3> QED
      BY <2>2, <2>6, <2>7, <2>8, <3>1 DEF HeapOf
  <2> QED
    BY <2>1, <2>2, <2>4, <2>9 DEF Trips
<1>4. ASSUME NEW s \in T PROVE Rise(s, v, e) \in T
  <2>1. s.at \in 1 .. n + 1
    BY DEF Trips
  <2>2. CASE s.at > 1
    <3>1. PICK c : c = father(s.at)
      OBVIOUS
    <3>2. c \in 1 .. n + 1
      BY <1>2, <2>1, <2>2, <3>1 DEF father
    <3>3. [a |-> Exchange(s.a, s.at, c), at |-> c] \in T
      BY <1>2, <3>2, TripGoes
    <3> QED
      BY <3>1, <3>3 DEF Rise
  <2>3. CASE ~(s.at > 1)
    BY <2>3 DEF Rise
  <2> QED
    BY <2>2, <2>3
<1> HIDE DEF T, x
<1>5. g \in [T -> T]
  BY <1>4
<1>6. PICK f \in [0 .. n -> T] : f[0] = x /\ \A i \in 1 .. n : f[i] = g[f[i - 1]]
  <2> HIDE DEF g
  <2>1. Iterates(T, x, g, n)
    BY <1>2, <1>3, <1>5, Iterate
  <2> QED
    BY <2>1 DEF Iterates
<1>7. \A i \in 1 .. n : f[i] = Rise(f[i - 1], v, e)
  <2> SUFFICES ASSUME NEW i \in 1 .. n PROVE f[i] = Rise(f[i - 1], v, e)
    OBVIOUS
  <2>1. f[i - 1] \in T
    BY <1>2, <1>6
  <2> QED
    BY <1>6, <2>1
<1>8. f = Walk(f)
  <2>1. \A i \in 0 .. n : f[i] = Walk(f)[i]
    <3> SUFFICES ASSUME NEW i \in 0 .. n PROVE f[i] = Walk(f)[i]
      OBVIOUS
    <3>1. CASE i = 0
      BY <1>6, <3>1
    <3>2. CASE i # 0
      <4>1. i \in 1 .. n
        BY <1>2, <3>2
      <4> QED
        BY <1>7, <3>2, <4>1
    <3> QED
      BY <3>1, <3>2
  <2> QED
    BY <1>6, <2>1
<1>9. walk = Walk(walk)
  BY <1>8
<1> HIDE DEF walk
<1>10. walk[0] = x /\ \A i \in 1 .. n : walk[i] = Rise(walk[i - 1], v, e)
  <2>1. 0 \in 0 .. n /\ \A i \in 1 .. n : i \in 0 .. n /\ i # 0
    BY <1>2
  <2>2. \A i \in 0 .. n : walk[i] = Walk(walk)[i]
    BY <1>9
  <2>3. \A i \in 0 .. n : Walk(walk)[i] = IF i = 0 THEN x ELSE Rise(walk[i - 1], v, e)
    OBVIOUS
  <2> QED
    BY <2>1, <2>2, <2>3
<1>11. ASSUME NEW j \in 0 .. n PROVE walk[j] \in T
  <2>1. walk[0] \in T
    BY <1>3, <1>10
  <2>2. ASSUME NEW i \in 1 .. j, walk[i - 1] \in T PROVE walk[i] \in T
    <3>1. i \in 1 .. n
      BY <1>2
    <3> QED
      BY <1>4, <1>10, <2>2, <3>1
  <2>3. j \in Nat
    BY <1>2
  <2> HIDE DEF Walk
  <2> QED
    BY <2>1, <2>2, <2>3, AlongLoop
<1> QED
  BY <1>1, <1>10, <1>11 DEF T, x, InsertLoop

LEMMA HeapifyHeap ==
    ASSUME NEW h, NEW S, HeapOf(h, S), NEW v, NEW top \in 1 .. Len(h)
    PROVE  HeapOf(heapify(h, v, top), S)
<1>1. PICK n \in Nat : n = Len(h)
  BY DEF HeapOf
<1>2. PICK w : HeapifyLoop(w, h, S, v, top, n) /\ heapify(h, v, top) = w[n].a
  BY <1>1, HeapifyWalk
<1>3. n \in 0 .. n
  BY <1>1
<1>4. w[n] \in Trips(S, n)
  BY <1>2, <1>3 DEF HeapifyLoop
<1> QED
  BY <1>2, <1>4 DEF Trips

LEMMA InsertHeap ==
    ASSUME NEW h, NEW S, HeapOf(h, S), NEW v, NEW e \in TimerIds \ S
    PROVE  HeapOf(HEAP_insert(h, v, e, HEAP_MAX_NELEM), S \cup {e})
<1>1. PICK n \in Nat : n = Len(h)
  BY DEF HeapOf
<1>2. PICK w : InsertLoop(w, h, S, v, e, n) /\ HEAP_insert(h, v, e, HEAP_MAX_NELEM) = w[n].a
  BY <1>1, InsertWalk
<1>3. n \in 0 .. n
  BY <1>1
<1>4. w[n] \in Trips(S \cup {e}, n + 1)
  BY <1>2, <1>3 DEF InsertLoop
<1> QED
  BY <1>2, <1>4 DEF Trips

(* The last element fills a gap.                                           *)
RestOf(h, i) == SubSeq([h EXCEPT ![i] = h[Len(h)]], 1, Len(h) - 1)

LEMMA RestHeap ==
    ASSUME NEW h, NEW S, HeapOf(h, S), NEW i \in 1 .. Len(h), NEW r, r = RestOf(h, i)
    PROVE  /\ HeapOf(r, S \ {h[i]}) /\ Len(r) = Len(h) - 1
           /\ \A m \in 1 .. Len(h) - 1 : r[m] = IF m = i THEN h[Len(h)] ELSE h[m]
<1>1. h \in Seq(TimerIds) /\ Len(h) \in Nat
  BY DEF HeapOf
<1>2. PICK n \in Nat : n = Len(h) /\ i \in 1 .. n /\ n - 1 \in Nat
  BY <1>1
<1>3. PICK b : b = [h EXCEPT ![i] = h[n]]
  OBVIOUS
<1>4. /\ \A m \in 1 .. n : h[m] \in S /\ h[m] \in TimerIds
      /\ \A x \in S : \E m \in 1 .. n : h[m] = x
      /\ \A l, m \in 1 .. n : h[l] = h[m] => l = m
  BY <1>1, <1>2 DEF HeapOf
<1>5. b \in Seq(TimerIds) /\ Len(b) = n /\ \A m \in 1 .. n : b[m] = IF m = i THEN h[n] ELSE h[m]
  <2>1. n \in 1 .. n /\ h[n] \in TimerIds
    BY <1>2, <1>4
  <2> QED
    BY <1>1, <1>2, <1>3, <2>1, ExceptSeq
<1>6. r = SubSeq(b, 1, n - 1)
  BY <1>2, <1>3 DEF RestOf
<1>7. r \in Seq(TimerIds) /\ Len(r) = n - 1 /\ \A m \in 1 .. n - 1 : r[m] = b[m]
  BY <1>2, <1>5, <1>6, SubSeqProperties
<1>8. \A m \in 1 .. n - 1 : m \in 1 .. n /\ m # n
  BY <1>2
<1>9. \A m \in 1 .. n : m \in 1 .. n - 1 \/ m = n
  BY <1>2
<1>10. n \in 1 .. n
  BY <1>2
<1>11. \A m \in 1 .. n - 1 : r[m] = IF m = i THEN h[n] ELSE h[m]
  BY <1>5, <1>7, <1>8
<1>12. HeapOf(r, S \ {h[i]})
  <2>1. ASSUME NEW m \in 1 .. n - 1 PROVE r[m] \in S \ {h[i]}
    <3>1. CASE m = i
      <4>1. r[m] = h[n] /\ n # i /\ n \in 1 .. n
        BY <1>8, <1>10, <1>11, <3>1
      <4> QED
        BY <1>2, <1>4, <4>1
    <3>2. CASE m # i
      <4>1. r[m] = h[m] /\ m \in 1 .. n
        BY <1>8, <1>11, <3>2
      <4> QED
        BY <1>2, <1>4, <3>2, <4>1
    <3> QED
      BY <3>1, <3>2
  <2>2. ASSUME NEW x \in S \ {h[i]} PROVE \E m \in 1 .. n - 1 : r[m] = x
    <3>1. PICK m \in 1 .. n : h[m] = x /\ m # i
      BY <1>4
    <3>2. CASE m = n
      <4>1. i \in 1 .. n - 1 /\ r[i] = x
        BY <1>2, <1>9, <1>11, <3>1, <3>2
      <4> QED
        BY <4>1
    <3>3. CASE m # n
      <4>1. m \in 1 .. n - 1 /\ r[m] = x
        BY <1>9, <1>11, <3>1, <3>3
      <4> QED
        BY <4>1
    <3> QED
      BY <3>2, <3>3
  <2>3. ASSUME NEW l \in 1 .. n - 1, NEW m \in 1 .. n - 1, r[l] = r[m] PROVE l = m
    <3>1. PICK a, c : a = (IF l = i THEN n ELSE l) /\ c = (IF m = i THEN n ELSE m)
      OBVIOUS
    <3>2. a \in 1 .. n /\ c \in 1 .. n
      BY <1>8, <1>10, <3>1
    <3>3. h[a] = h[c]
      BY <1>11, <2>3, <3>1
    <3>4. a = c
      BY <1>4, <3>2, <3>3
    <3> QED
      BY <1>8, <3>1, <3>4
  <2>4. S \ {h[i]} \subseteq TimerIds
    BY DEF HeapOf
  <2> QED
    BY <1>7, <2>1, <2>2, <2>3, <2>4 DEF HeapOf
<1> QED
  BY <1>2, <1>7, <1>11, <1>12

LEMMA RefillHeap ==
    ASSUME NEW h, NEW S, HeapOf(h, S), NEW v, NEW i \in 1 .. Len(h)
    PROVE  HeapOf(Refill(h, v, i), S \ {h[i]})
<1>1. PICK n \in Nat : n = Len(h) /\ i \in 1 .. n
  BY DEF HeapOf
<1>2. PICK b, R : b = RestOf(h, i) /\ R = S \ {h[i]}
  OBVIOUS
<1>3. HeapOf(b, R) /\ Len(b) = n - 1
  <2>1. /\ HeapOf(b, S \ {h[i]}) /\ Len(b) = Len(h) - 1
        /\ \A m \in 1 .. Len(h) - 1 : b[m] = IF m = i THEN h[Len(h)] ELSE h[m]
    BY <1>2, RestHeap
  <2> QED
    BY <1>1, <1>2, <2>1
<1>4. Refill(h, v, i) = IF i = n THEN b ELSE heapify(b, v, i)
  BY <1>1, <1>2 DEF Refill, RestOf
<1>5. CASE i = n
  BY <1>2, <1>3, <1>4, <1>5
<1>6. CASE i # n
  <2>1. i \in 1 .. Len(b)
    BY <1>1, <1>3, <1>6
  <2>2. HeapOf(heapify(b, v, i), R)
    BY <1>3, <2>1, HeapifyHeap
  <2> QED
    BY <1>2, <1>4, <1>6, <2>2
<1> QED
  BY <1>5, <1>6

LEMMA RemoveMinHeap ==
    ASSUME NEW h, NEW S, HeapOf(h, S), NEW v, h # <<>>
    PROVE  /\ HEAP_min(h) \in S
           /\ HeapOf(HEAP_remove_min(h, v), S \ {HEAP_min(h)})
<1>1. 1 \in 1 .. Len(h)
  BY DEF HeapOf
<1>2. h[1] \in S
  BY <1>1 DEF HeapOf
<1>3. HeapOf(Refill(h, v, 1), S \ {h[1]})
  BY <1>1, RefillHeap
<1> QED
  BY <1>2, <1>3 DEF HEAP_min, HEAP_remove_min

LEMMA RemoveHeap ==
    ASSUME NEW h, NEW S, HeapOf(h, S), NEW v, NEW e
    PROVE  HeapOf(HEAP_remove_element(h, v, e), S \ {e})
<1> DEFINE at == {i \in 1 .. Len(h) : h[i] = e}
<1>1. Len(h) \in Nat
  BY DEF HeapOf
<1>2. CASE at = {}
  <2>1. S \ {e} = S
    BY <1>2 DEF HeapOf
  <2> QED
    BY <1>2, <2>1 DEF HEAP_remove_element
<1>3. CASE at # {}
  <2>1. \E i \in at : \A j \in at : i <= j
    <3>1. at \in SUBSET Nat
      BY <1>1
    <3> QED
      BY <1>3, <3>1, LeastNat
  <2>2. PICK i : i = CHOOSE a \in at : \A j \in at : a <= j
    OBVIOUS
  <2>3. i \in 1 .. Len(h) /\ h[i] = e
    BY <2>1, <2>2
  <2>4. HEAP_remove_element(h, v, e) = Refill(h, v, i)
    BY <1>3, <2>2 DEF HEAP_remove_element
  <2> QED
    BY <2>3, <2>4, RefillHeap
<1> QED
  BY <1>2, <1>3

-----------------------------------------------------------------------------
(* timer_array.                                                            *)

(* One timer changes, the heap follows, and so do the threads that sleep   *)
(* or have it for their sleep timer.                                       *)
HeapFollows(kk, r, i, x) ==
    /\ x.armed => HeapOf(r.heap, Armed(kk.tm) \cup {i})
    /\ ~x.armed => HeapOf(r.heap, Armed(kk.tm) \ {i})

Follows(kk, r, i, x, sl, sl2) ==
    /\ TimerOK(i, x, r.asleep, sl2)
    /\ \A t \in Threads : sl2[t] = i => OwnTimer(x, t)
    /\ \A t \in Threads : sl2[t] \notin {i, NoThread} => sl2[t] = sl[t]
    /\ \A t \in r.asleep : sl2[t] # NoThread
    /\ \A t \in r.asleep : sl2[t] = i => x.armed
    /\ \A t \in r.asleep : sl2[t] # i => t \in kk.asleep
    /\ \A t \in kk.asleep : sl[t] # i => t \in r.asleep /\ sl2[t] = sl[t]

LEMMA Update ==
    ASSUME NEW kk, NEW sl, KSound(kk, sl), NEW i \in TimerIds, NEW x \in TimerType,
           NEW r, r \in KType, NEW sl2, r.tm = Put(kk.tm, i, x),
           HeapFollows(kk, r, i, x), Follows(kk, r, i, x, sl, sl2)
    PROVE  KSound(r, sl2)
<1> USE DEF HeapFollows, Follows
<1>1. /\ kk \in KType /\ kk.tm \in [TimerIds -> TimerType] /\ kk.asleep \in SUBSET Threads
      /\ r.asleep \in SUBSET Threads
  BY DEF KSound, KType
<1>2. r.tm[i] = x /\ \A j \in TimerIds \ {i} : r.tm[j] = kk.tm[j]
  BY <1>1 DEF Put
<1>3. HeapOf(r.heap, Armed(r.tm))
  <2>1. CASE x.armed
    <3>1. Armed(r.tm) = Armed(kk.tm) \cup {i}
      BY <1>2, <2>1 DEF Armed
    <3> QED
      BY <2>1, <3>1
  <2>2. CASE ~x.armed
    <3>1. Armed(r.tm) = Armed(kk.tm) \ {i}
      BY <1>2, <2>2 DEF Armed
    <3> QED
      BY <2>2, <3>1
  <2> QED
    BY <2>1, <2>2
<1>4. ASSUME NEW j \in TimerIds PROVE TimerOK(j, r.tm[j], r.asleep, sl2)
  <2>1. CASE j = i
    BY <1>2, <2>1
  <2>2. CASE j # i
    <3>1. r.tm[j] = kk.tm[j] /\ TimerOK(j, kk.tm[j], kk.asleep, sl)
      BY <1>2, <2>2 DEF KSound
    <3> QED
      BY <2>2, <3>1 DEF TimerOK
  <2> QED
    BY <2>1, <2>2
<1>5. ASSUME NEW t \in r.asleep PROVE sl2[t] # NoThread /\ r.tm[sl2[t]].armed
  <2>1. CASE sl2[t] = i
    BY <1>2, <2>1
  <2>2. CASE sl2[t] # i
    <3>1. t \in kk.asleep /\ sl2[t] = sl[t] /\ sl[t] \in TimerIds /\ kk.tm[sl[t]].armed
      BY <1>1, <2>2 DEF KSound
    <3> QED
      BY <1>2, <2>2, <3>1
  <2> QED
    BY <2>1, <2>2
<1>6. ASSUME NEW t \in Threads, sl2[t] # NoThread
      PROVE  sl2[t] \in TimerIds /\ OwnTimer(r.tm[sl2[t]], t)
  <2>1. CASE sl2[t] = i
    BY <1>2, <2>1
  <2>2. CASE sl2[t] # i
    <3>1. sl2[t] = sl[t] /\ sl[t] \in TimerIds /\ OwnTimer(kk.tm[sl[t]], t)
      BY <1>6, <2>2 DEF KSound
    <3> QED
      BY <1>2, <2>2, <3>1
  <2> QED
    BY <2>1, <2>2
<1> QED
  BY <1>3, <1>4, <1>5, <1>6 DEF KSound

(* The same when no thread gets another sleep timer or falls asleep.       *)
SleepFollows(kk, r, i, x, sl) ==
    /\ TimerOK(i, x, r.asleep, sl)
    /\ \A t \in Threads : sl[t] = i => OwnTimer(x, t)
    /\ \A t \in r.asleep : t \in kk.asleep
    /\ \A t \in r.asleep : sl[t] = i => x.armed
    /\ \A t \in kk.asleep : sl[t] # i => t \in r.asleep

LEMMA UpdateSame ==
    ASSUME NEW kk, NEW sl, KSound(kk, sl), NEW i \in TimerIds, NEW x \in TimerType,
           NEW r, r \in KType, r.tm = Put(kk.tm, i, x),
           HeapFollows(kk, r, i, x), SleepFollows(kk, r, i, x, sl)
    PROVE  KSound(r, sl)
<1>1. \A t \in r.asleep : sl[t] # NoThread
  BY DEF KSound, SleepFollows
<1>2. Follows(kk, r, i, x, sl, sl)
  BY <1>1 DEF SleepFollows, Follows
<1> QED
  BY <1>2, Update

LEMMA KindOf ==
    ASSUME NEW kk, kk \in KType
    PROVE  /\ kk.tm \in [TimerIds -> TimerType] /\ kk.heap \in Seq(TimerIds)
           /\ kk.asleep \in SUBSET Threads /\ kk.fault \in BOOLEAN
BY DEF KType

LEMMA SetTables ==
    ASSUME NEW kk, kk \in KType, NEW y \in [TimerIds -> TimerType], NEW h \in Seq(TimerIds),
           NEW r, r = SetKernel(kk, h, y)
    PROVE  r \in KType /\ r.tm = y /\ r.heap = h /\ r.asleep = kk.asleep /\ r.fault = kk.fault
BY DEF KType, SetKernel

LEMMA SetTimer ==
    ASSUME NEW kk, kk \in KType, NEW i \in TimerIds, NEW x \in TimerType, NEW h \in Seq(TimerIds),
           NEW r, r = SetKernel(kk, h, Put(kk.tm, i, x))
    PROVE  /\ r \in KType /\ r.tm = Put(kk.tm, i, x) /\ r.heap = h
           /\ r.asleep = kk.asleep /\ r.fault = kk.fault
<1>1. kk.tm \in [TimerIds -> TimerType]
  BY KindOf
<1>2. Put(kk.tm, i, x) \in [TimerIds -> TimerType]
  BY <1>1 DEF Put
<1>3. PICK y \in [TimerIds -> TimerType] : y = Put(kk.tm, i, x)
  BY <1>2
<1>4. r = SetKernel(kk, h, y)
  BY <1>3
<1>5. r \in KType /\ r.tm = y /\ r.heap = h /\ r.asleep = kk.asleep /\ r.fault = kk.fault
  BY <1>4, SetTables
<1> QED
  BY <1>3, <1>5

LEMMA FirstFree ==
    ASSUME NEW tm, Free(tm) # {}
    PROVE  alloc_index(tm) \in Free(tm)
<1>1. Free(tm) \in SUBSET Nat
  BY Sizes DEF Free, TimerIds
<1>2. \E i \in Free(tm) : \A j \in Free(tm) : i <= j
  BY <1>1, LeastNat
<1> QED
  BY <1>2 DEF alloc_index

(* alloc_ktimer: no timer was left, or a free one is taken.                *)
NewTimer(owner, act) == [Unused EXCEPT !.use = TRUE, !.owner = owner, !.act = act]

LEMMA AllocTimer ==
    ASSUME NEW kk, kk \in KType, NEW owner \in Threads, NEW act \in {"wakeup", "kill"},
           NEW r, r = alloc_ktimer(kk, owner, act), ~r.fault
    PROVE  /\ alloc_index(kk.tm) \in TimerIds /\ ~kk.tm[alloc_index(kk.tm)].use
           /\ r \in KType /\ r.heap = kk.heap /\ r.asleep = kk.asleep
           /\ r.tm = Put(kk.tm, alloc_index(kk.tm), NewTimer(owner, act))
           /\ NewTimer(owner, act) \in TimerType
<1>1. /\ kk.tm \in [TimerIds -> TimerType] /\ kk.heap \in Seq(TimerIds)
      /\ kk.asleep \in SUBSET Threads /\ kk.fault \in BOOLEAN
  BY KindOf
<1>2. PICK i : i = alloc_index(kk.tm)
  OBVIOUS
<1>3. i # -1
  <2>1. CASE i = -1
    <3>1. r = [kk EXCEPT !.fault = TRUE]
      BY <1>2, <2>1 DEF alloc_ktimer
    <3>2. r.fault = TRUE
      BY <3>1 DEF KType
    <3> QED
      BY <3>2
  <2> QED
    BY <2>1
<1>4. i \in TimerIds /\ ~kk.tm[i].use
  <2>1. Free(kk.tm) # {}
    BY <1>2, <1>3 DEF alloc_index
  <2> QED
    BY <1>2, <2>1, FirstFree DEF Free
<1>5. PICK x : x = NewTimer(owner, act)
  OBVIOUS
<1>6. r = [kk EXCEPT !.tm[i] = x]
  BY <1>2, <1>3, <1>5 DEF alloc_ktimer, NewTimer
<1>7. x \in TimerType
  <2>1. x = [use |-> TRUE, armed |-> FALSE, abs |-> FALSE, value |-> 0, interval |-> 0,
             owner |-> owner, act |-> act]
    BY <1>5 DEF NewTimer, Unused
  <2> QED
    BY <2>1 DEF TimerType
<1>8. r = SetKernel(kk, kk.heap, Put(kk.tm, i, x))
  BY <1>6 DEF KType, SetKernel, Put
<1>9. /\ r.tm = Put(kk.tm, i, x) /\ r.heap = kk.heap /\ r.asleep = kk.asleep
      /\ r \in KType
  BY <1>1, <1>4, <1>7, <1>8, SetTimer
<1> QED
  BY <1>2, <1>4, <1>5, <1>7, <1>9

(* free_ktimer and disarm_timer.                                           *)
Flags == BOOLEAN
FreedTimer(x) == [x EXCEPT !.use = FALSE, !.armed = FALSE, !.abs = FALSE]
DisarmedTimer(x, abs) == [x EXCEPT !.armed = FALSE, !.abs = abs]
Disarmed(kk, i, abs) == [(IF kk.tm[i].armed THEN disarm_timer(kk, i) ELSE kk) EXCEPT !.tm[i].abs = abs]

LEMMA FreeShape ==
    ASSUME NEW kk, kk \in KType, NEW i \in TimerIds
    PROVE  free_ktimer(kk, i) = SetKernel(kk, Unheap(kk, i), Put(kk.tm, i, FreedTimer(kk.tm[i])))
<1>1. PICK h, r : h = Unheap(kk, i) /\ r = free_ktimer(kk, i)
  OBVIOUS
<1>2. r = [kk EXCEPT !.heap = h, !.tm[i].use = FALSE, !.tm[i].armed = FALSE, !.tm[i].abs = FALSE]
  BY <1>1 DEF free_ktimer
<1>3. r = [kk EXCEPT !.heap = h,
                     !.tm[i] = [kk.tm[i] EXCEPT !.use = FALSE, !.armed = FALSE, !.abs = FALSE]]
  BY <1>2 DEF KType, TimerType
<1> QED
  BY <1>1, <1>3 DEF KType, SetKernel, Put, FreedTimer

LEMMA DisarmShape ==
    ASSUME NEW kk, kk \in KType, NEW i \in TimerIds, NEW abs \in Flags
    PROVE  /\ kk.tm[i].armed =>
                Disarmed(kk, i, abs)
                = SetKernel(kk, Unheap(kk, i), Put(kk.tm, i, DisarmedTimer(kk.tm[i], abs)))
           /\ ~kk.tm[i].armed =>
                Disarmed(kk, i, abs) = SetKernel(kk, kk.heap, Put(kk.tm, i, DisarmedTimer(kk.tm[i], abs)))
<1> USE DEF Flags
<1>1. PICK h, r : h = Unheap(kk, i) /\ r = Disarmed(kk, i, abs)
  OBVIOUS
<1>2. ASSUME kk.tm[i].armed PROVE r = SetKernel(kk, h, Put(kk.tm, i, DisarmedTimer(kk.tm[i], abs)))
  <2>1. r = [kk EXCEPT !.heap = h, !.tm[i].armed = FALSE, !.tm[i].abs = abs]
    BY <1>1, <1>2 DEF disarm_timer, Disarmed
  <2>2. r = [kk EXCEPT !.heap = h, !.tm[i] = [kk.tm[i] EXCEPT !.armed = FALSE, !.abs = abs]]
    BY <2>1 DEF KType, TimerType
  <2> QED
    BY <2>2 DEF KType, SetKernel, Put, DisarmedTimer
<1>3. ASSUME ~kk.tm[i].armed
      PROVE  r = SetKernel(kk, kk.heap, Put(kk.tm, i, DisarmedTimer(kk.tm[i], abs)))
  <2>1. r = [kk EXCEPT !.tm[i].abs = abs]
    BY <1>1, <1>3 DEF Disarmed
  <2>2. kk.tm[i] \in TimerType
    BY KindOf
  <2>3. [kk.tm[i] EXCEPT !.armed = FALSE, !.abs = abs] = [kk.tm[i] EXCEPT !.abs = abs]
    BY <1>3, <2>2 DEF TimerType
  <2>4. r = [kk EXCEPT !.tm[i] = [kk.tm[i] EXCEPT !.abs = abs]]
    BY <2>1 DEF KType
  <2>5. r = [kk EXCEPT !.heap = kk.heap, !.tm[i] = [kk.tm[i] EXCEPT !.armed = FALSE, !.abs = abs]]
    BY <2>3, <2>4 DEF KType
  <2> QED
    BY <2>5 DEF KType, SetKernel, Put, DisarmedTimer
<1> QED
  BY <1>1, <1>2, <1>3

LEMMA FreeTimer ==
    ASSUME NEW kk, kk \in KType, HeapOf(kk.heap, Armed(kk.tm)), NEW i \in TimerIds,
           NEW r, r = free_ktimer(kk, i), NEW x, x = FreedTimer(kk.tm[i])
    PROVE  /\ x \in TimerType /\ ~x.use /\ ~x.armed /\ x.interval = kk.tm[i].interval
           /\ x.act = kk.tm[i].act
           /\ r \in KType /\ r.tm = Put(kk.tm, i, x) /\ r.asleep = kk.asleep
           /\ HeapOf(r.heap, Armed(kk.tm) \ {i})
<1>1. kk.tm[i] \in TimerType
  BY KindOf
<1>2. PICK h : h = Unheap(kk, i)
  OBVIOUS
<1>3. HeapOf(h, Armed(kk.tm) \ {i})
  BY <1>2, RemoveHeap DEF Unheap
<1>4. r = SetKernel(kk, h, Put(kk.tm, i, x))
  BY <1>2, FreeShape
<1>5. x \in TimerType
  BY <1>1 DEF TimerType, FreedTimer
<1>6. ~x.use /\ ~x.armed /\ x.interval = kk.tm[i].interval /\ x.act = kk.tm[i].act
  BY <1>1 DEF TimerType, FreedTimer
<1>7. h \in Seq(TimerIds)
  BY <1>3 DEF HeapOf
<1>8. r \in KType /\ r.tm = Put(kk.tm, i, x) /\ r.heap = h /\ r.asleep = kk.asleep
  BY <1>4, <1>5, <1>7, SetTimer
<1> QED
  BY <1>3, <1>5, <1>6, <1>8

LEMMA DisarmTimer ==
    ASSUME NEW kk, kk \in KType, HeapOf(kk.heap, Armed(kk.tm)), NEW i \in TimerIds,
           NEW abs \in Flags,
           NEW r, r = Disarmed(kk, i, abs), NEW x, x = DisarmedTimer(kk.tm[i], abs)
    PROVE  /\ x \in TimerType /\ (kk.tm[i].use => x.use) /\ ~x.armed /\ x.interval = kk.tm[i].interval
           /\ x.act = kk.tm[i].act /\ x.owner = kk.tm[i].owner
           /\ r \in KType /\ r.tm = Put(kk.tm, i, x) /\ r.asleep = kk.asleep
           /\ HeapOf(r.heap, Armed(kk.tm) \ {i})
<1>1. kk.tm[i] \in TimerType /\ kk.heap \in Seq(TimerIds)
  BY KindOf
<1>2. PICK h : h = IF kk.tm[i].armed THEN Unheap(kk, i) ELSE kk.heap
  OBVIOUS
<1>3. HeapOf(h, Armed(kk.tm) \ {i})
  <2>1. CASE kk.tm[i].armed
    BY <1>2, <2>1, RemoveHeap DEF Unheap
  <2>2. CASE ~kk.tm[i].armed
    <3>1. Armed(kk.tm) \ {i} = Armed(kk.tm)
      BY <2>2 DEF Armed
    <3> QED
      BY <1>2, <2>2, <3>1
  <2> QED
    BY <2>1, <2>2
<1>4. r = SetKernel(kk, h, Put(kk.tm, i, x))
  BY <1>2, DisarmShape
<1>5. x \in TimerType
  BY <1>1 DEF TimerType, DisarmedTimer, Flags
<1>6. /\ (kk.tm[i].use => x.use) /\ ~x.armed /\ x.interval = kk.tm[i].interval
      /\ x.act = kk.tm[i].act /\ x.owner = kk.tm[i].owner
  BY <1>1 DEF TimerType, DisarmedTimer, Flags
<1>7. h \in Seq(TimerIds)
  BY <1>3 DEF HeapOf
<1>8. r \in KType /\ r.tm = Put(kk.tm, i, x) /\ r.heap = h /\ r.asleep = kk.asleep
  BY <1>4, <1>5, <1>7, SetTimer
<1> QED
  BY <1>3, <1>5, <1>6, <1>8

(* arm_timer.                                                              *)
ArmedTimer(x, v, p) == [x EXCEPT !.value = v, !.armed = TRUE, !.interval = p]

LEMMA EnheapTimer ==
    ASSUME NEW kk, kk \in KType, NEW S, HeapOf(kk.heap, S), NEW i \in TimerIds \ S,
           NEW r, r = Enheap(kk, i)
    PROVE  r \in KType /\ r.tm = kk.tm /\ r.asleep = kk.asleep /\ HeapOf(r.heap, S \cup {i})
<1>1. PICK h : h = HEAP_insert(kk.heap, Values(kk.tm), i, HEAP_MAX_NELEM)
  OBVIOUS
<1>2. HeapOf(h, S \cup {i})
  BY <1>1, InsertHeap
<1>3. h \in Seq(TimerIds)
  BY <1>2 DEF HeapOf
<1>4. PICK f \in BOOLEAN : f = (kk.fault \/ Len(kk.heap) + 1 = HEAP_MAX_NELEM)
  OBVIOUS
<1>5. r = [kk EXCEPT !.heap = h, !.fault = f]
  BY <1>1, <1>4 DEF Enheap
<1>6. r \in KType
  BY <1>3, <1>5 DEF KType
<1>7. r.tm = kk.tm /\ r.asleep = kk.asleep /\ r.heap = h
  BY <1>5 DEF KType
<1> QED
  BY <1>2, <1>6, <1>7

LEMMA NowInt ==
    ASSUME ticks \in Nat
    PROVE  Now \in Int
<1>1. TicksPer \in Nat \ {0} /\ NsecPer \in Nat
  BY TimersAssumption
<1>2. PICK q \in Int : q = ticks \div TicksPer
  BY <1>1
<1>3. q * NsecPer \in Int
  BY <1>1
<1> QED
  BY <1>2, <1>3 DEF Now, nsec

LEMMA ArmShape ==
    ASSUME NEW kk, kk \in KType, NEW i \in TimerIds, kk.tm[i].use, NEW value, NEW p
    PROVE  \E v \in {value, value + Now} :
             arm_timer(kk, i, value, p)
             = Enheap(SetKernel(kk, kk.heap, Put(kk.tm, i, ArmedTimer(kk.tm[i], v, p))), i)
<1>1. PICK v \in {value, value + Now} : v = IF kk.tm[i].abs THEN value ELSE value + Now
  OBVIOUS
<1>2. PICK r : r = [kk EXCEPT !.tm[i].value = v, !.tm[i].armed = TRUE, !.tm[i].interval = p]
  OBVIOUS
<1>3. arm_timer(kk, i, value, p) = Enheap(r, i)
  BY <1>1, <1>2 DEF arm_timer
<1>4. r = [kk EXCEPT !.tm[i] = [kk.tm[i] EXCEPT !.value = v, !.armed = TRUE, !.interval = p]]
  BY <1>2 DEF KType, TimerType
<1>5. r = SetKernel(kk, kk.heap, Put(kk.tm, i, ArmedTimer(kk.tm[i], v, p)))
  BY <1>4 DEF KType, SetKernel, Put, ArmedTimer
<1> QED
  BY <1>3, <1>5

LEMMA ArmTimer ==
    ASSUME NEW kk, kk \in KType, HeapOf(kk.heap, Armed(kk.tm)), NEW i \in TimerIds,
           kk.tm[i].use, ~kk.tm[i].armed, NEW value \in Nat, NEW p \in Nat, ticks \in Nat,
           NEW r, r = arm_timer(kk, i, value, p)
    PROVE  \E x \in TimerType :
             /\ x.use /\ x.armed /\ x.interval = p /\ x.act = kk.tm[i].act
             /\ x.owner = kk.tm[i].owner
             /\ r \in KType /\ r.tm = Put(kk.tm, i, x) /\ r.asleep = kk.asleep
             /\ HeapOf(r.heap, Armed(kk.tm) \cup {i})
<1>1. kk.tm[i] \in TimerType /\ kk.heap \in Seq(TimerIds)
  BY KindOf
<1>2. PICK v \in {value, value + Now} :
        r = Enheap(SetKernel(kk, kk.heap, Put(kk.tm, i, ArmedTimer(kk.tm[i], v, p))), i)
  BY ArmShape
<1>3. v \in Int
  BY NowInt
<1>4. PICK x : x = ArmedTimer(kk.tm[i], v, p)
  OBVIOUS
<1>5. x \in TimerType
  BY <1>1, <1>3, <1>4 DEF TimerType, ArmedTimer
<1>6. x.use /\ x.armed /\ x.interval = p /\ x.act = kk.tm[i].act /\ x.owner = kk.tm[i].owner
  BY <1>1, <1>4 DEF TimerType, ArmedTimer
<1>7. PICK k1 : k1 = SetKernel(kk, kk.heap, Put(kk.tm, i, x))
  OBVIOUS
<1>8. k1 \in KType /\ k1.tm = Put(kk.tm, i, x) /\ k1.heap = kk.heap /\ k1.asleep = kk.asleep
  BY <1>1, <1>5, <1>7, SetTimer
<1>9. r = Enheap(k1, i)
  BY <1>2, <1>4, <1>7
<1>10. i \in TimerIds \ Armed(kk.tm)
  BY DEF Armed
<1>11. /\ r \in KType /\ r.tm = k1.tm /\ r.asleep = k1.asleep
       /\ HeapOf(r.heap, Armed(kk.tm) \cup {i})
  BY <1>8, <1>9, <1>10, EnheapTimer
<1> QED
  BY <1>5, <1>6, <1>8, <1>11

(* One round of update_hwtimer.                                            *)
SetAsleep(kk, a) == [kk EXCEPT !.asleep = a]
Stopped(x) == [x EXCEPT !.armed = FALSE]
Rearmed(x, v) == [x EXCEPT !.armed = TRUE, !.value = v]
WakesUp(kk, x) == IF x.act = "wakeup" \/ SignalWakes THEN kk.asleep \ {x.owner} ELSE kk.asleep
GoesOn(x) == x.interval > 0 /\ x.owner \in Alive

LEMMA ExpireShape ==
    ASSUME NEW kk, kk \in KType, NEW i \in TimerIds, i = HEAP_min(kk.heap),
           NEW h, h = HEAP_remove_min(kk.heap, Values(kk.tm)), NEW x, x = kk.tm[i],
           NEW ks, ks = SetAsleep(kk, WakesUp(kk, x))
    PROVE  /\ ~GoesOn(x) => Expire(kk) = SetKernel(ks, h, Put(kk.tm, i, Stopped(x)))
           /\ GoesOn(x) => Expire(kk) = Enheap(SetKernel(ks, h, Put(kk.tm, i, Rearmed(x, x.interval + Now))), i)
<1>1. PICK a : a = WakesUp(kk, x)
  OBVIOUS
<1>2. ks = [kk EXCEPT !.asleep = a]
  BY <1>1 DEF SetAsleep
<1>3. ASSUME ~GoesOn(x) PROVE Expire(kk) = SetKernel(ks, h, Put(kk.tm, i, Stopped(x)))
  <2>1. Expire(kk) = [kk EXCEPT !.asleep = a, !.heap = h, !.tm[i].armed = FALSE]
    BY <1>1, <1>3 DEF Expire, GoesOn, WakesUp
  <2>2. Expire(kk) = [kk EXCEPT !.asleep = a, !.heap = h, !.tm[i] = [kk.tm[i] EXCEPT !.armed = FALSE]]
    BY <2>1 DEF KType, TimerType
  <2> QED
    BY <1>2, <2>2 DEF KType, SetKernel, Put, Stopped
<1>4. ASSUME GoesOn(x)
      PROVE  Expire(kk) = Enheap(SetKernel(ks, h, Put(kk.tm, i, Rearmed(x, x.interval + Now))), i)
  <2>1. PICK v : v = x.interval + Now
    OBVIOUS
  <2>2. PICK k1 : k1 = [kk EXCEPT !.asleep = a, !.heap = h, !.tm[i].armed = TRUE]
    OBVIOUS
  <2>3. PICK k2 : k2 = [k1 EXCEPT !.tm[i].value = v]
    OBVIOUS
  <2>4. Expire(kk) = Enheap(k2, i)
    BY <1>1, <1>4, <2>1, <2>2, <2>3 DEF Expire, GoesOn, WakesUp
  <2>5. k2 = [kk EXCEPT !.asleep = a, !.heap = h, !.tm[i] = [kk.tm[i] EXCEPT !.armed = TRUE, !.value = v]]
    BY <2>2, <2>3 DEF KType, TimerType
  <2>6. k2 = SetKernel(ks, h, Put(kk.tm, i, Rearmed(x, v)))
    BY <1>2, <2>5 DEF KType, SetKernel, Put, Rearmed
  <2> QED
    BY <2>1, <2>4, <2>6
<1> QED
  BY <1>3, <1>4

(* What update_hwtimer keeps of the kernel state k0 it starts from: only   *)
(* armed timers change, and nobody falls asleep.                           *)
Kept(kk, k0) ==
    /\ KSound(kk, slp) /\ kk.asleep \subseteq k0.asleep
    /\ \A j \in TimerIds : ~k0.tm[j].armed => kk.tm[j] = k0.tm[j]

LEMMA ExpireKept ==
    ASSUME ~SignalWakes, ticks \in Nat, NEW kk, NEW k0, Kept(kk, k0), kk.heap # <<>>
    PROVE  Kept(Expire(kk), k0)
<1>1. KSound(kk, slp) /\ kk \in KType /\ HeapOf(kk.heap, Armed(kk.tm))
  BY DEF Kept, KSound
<1>2. PICK i, h : i = HEAP_min(kk.heap) /\ h = HEAP_remove_min(kk.heap, Values(kk.tm))
  OBVIOUS
<1>3. i \in Armed(kk.tm) /\ HeapOf(h, Armed(kk.tm) \ {i}) /\ h \in Seq(TimerIds)
  <2>1. i \in Armed(kk.tm) /\ HeapOf(h, Armed(kk.tm) \ {i})
    BY <1>1, <1>2, RemoveMinHeap
  <2> QED
    BY <2>1 DEF HeapOf
<1>4. PICK x : x = kk.tm[i]
  OBVIOUS
<1>5. i \in TimerIds /\ x.armed /\ x \in TimerType /\ i # NoThread
  <2>1. i \in TimerIds /\ x.armed
    BY <1>3, <1>4 DEF Armed
  <2>2. x \in TimerType
    BY <1>1, <1>4, <2>1, KindOf
  <2> QED
    BY <2>1, <2>2, Sizes DEF TimerIds, NoThread
<1>6. TimerOK(i, x, kk.asleep, slp)
  BY <1>1, <1>4, <1>5 DEF KSound
<1>7. PICK a : a = WakesUp(kk, x)
  OBVIOUS
<1>8. /\ x.act = "wakeup" => a = kk.asleep \ {x.owner} /\ slp[x.owner] = i
      /\ x.act # "wakeup" => a = kk.asleep
      /\ x.act = "wakeup" => x.interval = 0
  BY <1>5, <1>6, <1>7 DEF WakesUp, TimerOK
<1>9. kk.asleep \in SUBSET Threads /\ a \in SUBSET kk.asleep
  BY <1>1, <1>8, KindOf
<1>10. PICK ks : ks = SetAsleep(kk, a)
  OBVIOUS
<1>11. ks \in KType /\ ks.tm = kk.tm /\ ks.asleep = a
  BY <1>1, <1>9, <1>10 DEF KType, SetAsleep
<1>12. \A t \in Threads : slp[t] = i => OwnTimer(x, t)
  BY <1>1, <1>4, <1>5 DEF KSound
<1>13. \A t \in kk.asleep : slp[t] # NoThread
  BY <1>1 DEF KSound
<1>14. PICK r : r = Expire(kk)
  OBVIOUS
<1>15. \E y \in TimerType :
         /\ r \in KType /\ r.tm = Put(kk.tm, i, y) /\ r.asleep = a
         /\ y.use = x.use /\ y.act = x.act /\ y.owner = x.owner /\ y.interval = x.interval
         /\ y.armed => x.interval > 0
         /\ y.armed => HeapOf(r.heap, Armed(kk.tm) \cup {i})
         /\ ~y.armed => HeapOf(r.heap, Armed(kk.tm) \ {i})
  <2>1. CASE ~GoesOn(x)
    <3>1. PICK y : y = Stopped(x)
      OBVIOUS
    <3>2. y \in TimerType
      BY <1>5, <3>1 DEF Stopped, TimerType
    <3>3. /\ y.use = x.use /\ y.act = x.act /\ y.owner = x.owner /\ y.interval = x.interval
          /\ ~y.armed
      BY <1>5, <3>1 DEF Stopped, TimerType
    <3>4. r = SetKernel(ks, h, Put(ks.tm, i, y))
      BY <1>1, <1>2, <1>4, <1>5, <1>7, <1>10, <1>11, <1>14, <2>1, <3>1, ExpireShape
    <3>5. r \in KType /\ r.tm = Put(ks.tm, i, y) /\ r.heap = h /\ r.asleep = ks.asleep
      BY <1>3, <1>5, <1>11, <3>2, <3>4, SetTimer
    <3> QED
      BY <1>3, <1>11, <3>2, <3>3, <3>5
  <2>2. CASE GoesOn(x)
    <3>1. PICK v : v = x.interval + Now
      OBVIOUS
    <3>2. PICK y : y = Rearmed(x, v)
      OBVIOUS
    <3>3. v \in Int
      <4>1. x.interval \in Nat
        BY <1>5 DEF TimerType
      <4> QED
        BY <3>1, <4>1, NowInt
    <3>4. y \in TimerType
      BY <1>5, <3>2, <3>3 DEF Rearmed, TimerType
    <3>5. /\ y.use = x.use /\ y.act = x.act /\ y.owner = x.owner /\ y.interval = x.interval
          /\ y.armed
      BY <1>5, <3>2 DEF Rearmed, TimerType
    <3>6. PICK k1 : k1 = SetKernel(ks, h, Put(ks.tm, i, y))
      OBVIOUS
    <3>7. r = Enheap(k1, i)
      BY <1>1, <1>2, <1>4, <1>5, <1>7, <1>10, <1>11, <1>14, <2>2, <3>1, <3>2, <3>6, ExpireShape
    <3>8. k1 \in KType /\ k1.tm = Put(ks.tm, i, y) /\ k1.heap = h /\ k1.asleep = ks.asleep
      BY <1>3, <1>5, <1>11, <3>4, <3>6, SetTimer
    <3>9. i \in TimerIds \ (Armed(kk.tm) \ {i})
      BY <1>5
    <3>10. /\ r \in KType /\ r.tm = k1.tm /\ r.asleep = k1.asleep
           /\ HeapOf(r.heap, (Armed(kk.tm) \ {i}) \cup {i})
      <4>1. PICK S : S = Armed(kk.tm) \ {i}
        OBVIOUS
      <4>2. HeapOf(k1.heap, S) /\ i \in TimerIds \ S
        BY <1>3, <3>8, <3>9, <4>1
      <4>3. r \in KType /\ r.tm = k1.tm /\ r.asleep = k1.asleep /\ HeapOf(r.heap, S \cup {i})
        BY <3>7, <3>8, <4>2, EnheapTimer
      <4> QED
        BY <4>1, <4>3
    <3>11. (Armed(kk.tm) \ {i}) \cup {i} = Armed(kk.tm) \cup {i}
      OBVIOUS
    <3>12. x.interval > 0
      BY <2>2 DEF GoesOn
    <3> QED
      BY <1>11, <3>4, <3>5, <3>8, <3>10, <3>11, <3>12
  <2> QED
    BY <2>1, <2>2
<1>16. PICK y \in TimerType :
         /\ r \in KType /\ r.tm = Put(kk.tm, i, y) /\ r.asleep = a
         /\ y.use = x.use /\ y.act = x.act /\ y.owner = x.owner /\ y.interval = x.interval
         /\ y.armed => x.interval > 0
         /\ y.armed => HeapOf(r.heap, Armed(kk.tm) \cup {i})
         /\ ~y.armed => HeapOf(r.heap, Armed(kk.tm) \ {i})
  BY <1>15
<1>17. y.armed => y.act # "wakeup"
  BY <1>8, <1>16
<1>18. TimerOK(i, y, r.asleep, slp)
  <2>1. x.use
    BY <1>5, <1>6 DEF TimerOK
  <2>2. y.use
    BY <1>16, <2>1
  <2>3. y.act = "wakeup" => y.interval = 0
    BY <1>8, <1>16
  <2> QED
    BY <1>17, <2>2, <2>3 DEF TimerOK
<1>19. \A t \in Threads : slp[t] = i => OwnTimer(y, t)
  BY <1>12, <1>16 DEF OwnTimer
<1>20. \A t \in r.asleep : slp[t] # NoThread /\ t \in kk.asleep
  BY <1>9, <1>13, <1>16
<1>21. \A t \in r.asleep : slp[t] = i => y.armed
  BY <1>8, <1>9, <1>12, <1>16 DEF OwnTimer
<1>22. \A t \in kk.asleep : slp[t] # i => t \in r.asleep
  BY <1>8, <1>16
<1>23. KSound(r, slp)
  <2>1. r \in KType /\ r.tm = Put(kk.tm, i, y)
    BY <1>16
  <2>2. HeapFollows(kk, r, i, y)
    BY <1>16 DEF HeapFollows
  <2>3. SleepFollows(kk, r, i, y, slp)
    BY <1>18, <1>19, <1>20, <1>21, <1>22 DEF SleepFollows
  <2> QED
    BY <1>1, <1>5, <2>1, <2>2, <2>3, UpdateSame
<1>24. \A j \in TimerIds : ~k0.tm[j].armed => r.tm[j] = k0.tm[j]
  <2> SUFFICES ASSUME NEW j \in TimerIds, ~k0.tm[j].armed PROVE r.tm[j] = k0.tm[j]
    OBVIOUS
  <2>1. kk.tm[j] = k0.tm[j] /\ j # i
    BY <1>4, <1>5 DEF Kept
  <2>2. kk.tm \in [TimerIds -> TimerType]
    BY <1>1, KindOf
  <2> QED
    BY <1>16, <2>1, <2>2 DEF Put
<1> QED
  BY <1>9, <1>14, <1>16, <1>23, <1>24 DEF Kept

(* All rounds.                                                             *)
(* The loop of update_hwtimer ends in any set of states that it keeps.     *)
Ends(r, last) == r.tm = last.tm /\ r.heap = last.heap /\ r.asleep = last.asleep /\ r \in KType
                 /\ (Due(last) => r.fault)

LEMMA ExpireLoop ==
    ASSUME NEW T, NEW k0 \in T, \A kk \in T : kk \in KType, \A kk \in T : Due(kk) => Expire(kk) \in T,
           NEW r, r = ExpireAll(k0)
    PROVE  \E last \in T : Ends(r, last)
<1> DEFINE Round(kk) == IF Due(kk) THEN Expire(kk) ELSE kk
           Walk(w) == [n \in 0 .. Rounds |-> IF n = 0 THEN k0 ELSE Round(w[n - 1])]
           walk == CHOOSE w : w = Walk(w)
           g == [kk \in T |-> Round(kk)]
<1>1. Rounds \in Nat
  BY Sizes DEF Rounds
<1>2. PICK last : last = walk[Rounds]
  OBVIOUS
<1>3. ExpireAll(k0) = [last EXCEPT !.fault = last.fault \/ Due(last)]
  BY <1>2 DEF ExpireAll
<1>5. ASSUME NEW kk \in T PROVE Round(kk) \in T
  OBVIOUS
<1> HIDE DEF Round
<1>6. g \in [T -> T]
  BY <1>5
<1>7. PICK f \in [0 .. Rounds -> T] : f[0] = k0 /\ \A i \in 1 .. Rounds : f[i] = g[f[i - 1]]
  <2> HIDE DEF g
  <2>1. Iterates(T, k0, g, Rounds)
    BY <1>1, <1>6, Iterate
  <2> QED
    BY <2>1 DEF Iterates
<1>8. \A i \in 1 .. Rounds : f[i] = Round(f[i - 1])
  <2> SUFFICES ASSUME NEW i \in 1 .. Rounds PROVE f[i] = Round(f[i - 1])
    OBVIOUS
  <2>1. f[i - 1] \in T
    BY <1>1, <1>7
  <2> QED
    BY <1>7, <2>1
<1>9. f = Walk(f)
  <2>1. \A i \in 0 .. Rounds : f[i] = Walk(f)[i]
    <3> SUFFICES ASSUME NEW i \in 0 .. Rounds PROVE f[i] = Walk(f)[i]
      OBVIOUS
    <3>1. CASE i = 0
      BY <1>7, <3>1
    <3>2. CASE i # 0
      <4>1. i \in 1 .. Rounds
        BY <1>1, <3>2
      <4> QED
        BY <1>8, <3>2, <4>1
    <3> QED
      BY <3>1, <3>2
  <2> QED
    BY <1>7, <2>1
<1>10. walk = Walk(walk)
  BY <1>9
<1> HIDE DEF walk
<1>11. walk[0] = k0 /\ \A i \in 1 .. Rounds : walk[i] = Round(walk[i - 1])
  <2>1. 0 \in 0 .. Rounds /\ \A i \in 1 .. Rounds : i \in 0 .. Rounds /\ i # 0
    BY <1>1
  <2>2. \A i \in 0 .. Rounds : walk[i] = Walk(walk)[i]
    BY <1>10
  <2>3. \A i \in 0 .. Rounds : Walk(walk)[i] = IF i = 0 THEN k0 ELSE Round(walk[i - 1])
    OBVIOUS
  <2> QED
    BY <2>1, <2>2, <2>3
<1>12. last \in T
  <2>1. walk[0] \in T
    BY <1>11
  <2>2. ASSUME NEW i \in 1 .. Rounds, walk[i - 1] \in T PROVE walk[i] \in T
    BY <1>5, <1>11, <2>2
  <2> HIDE DEF Walk
  <2> QED
    BY <1>1, <1>2, <2>1, <2>2, AlongLoop
<1>13. last \in KType
  BY <1>12
<1>14. PICK e \in BOOLEAN : e = (last.fault \/ Due(last))
  OBVIOUS
<1>15. r = [last EXCEPT !.fault = e]
  BY <1>3, <1>14
<1>16. r \in KType
  BY <1>13, <1>15 DEF KType
<1>17. r.tm = last.tm /\ r.heap = last.heap /\ r.asleep = last.asleep /\ r.fault = e
  BY <1>13, <1>15 DEF KType
<1>18. Ends(r, last)
  BY <1>14, <1>16, <1>17 DEF Ends
<1> QED
  BY <1>12, <1>18

LEMMA ExpireAllKept ==
    ASSUME ~SignalWakes, ticks \in Nat, NEW k0, KSound(k0, slp)
    PROVE  Kept(ExpireAll(k0), k0)
<1> DEFINE T == {kk \in KType : Kept(kk, k0)}
<1>1. k0 \in T
  BY DEF Kept, KSound
<1>2. ASSUME NEW kk \in T, Due(kk) PROVE Expire(kk) \in T
  <2>1. Kept(Expire(kk), k0)
    BY <1>2, ExpireKept DEF Due
  <2>2. Expire(kk) \in KType
    BY <2>1 DEF Kept, KSound
  <2> QED
    BY <2>1, <2>2
<1>3. \A kk \in T : kk \in KType
  OBVIOUS
<1>4. PICK r : r = ExpireAll(k0)
  OBVIOUS
<1>5. PICK last \in T : Ends(r, last)
  <2> HIDE DEF T
  <2> QED
    BY <1>1, <1>2, <1>3, <1>4, ExpireLoop
<1>6. Kept(last, k0)
  OBVIOUS
<1>7. r.tm = last.tm /\ r.heap = last.heap /\ r.asleep = last.asleep /\ r \in KType
  BY <1>5 DEF Ends
<1>8. Kept(r, k0)
  BY <1>6, <1>7 DEF Kept, KSound
<1> QED
  BY <1>4, <1>8

-----------------------------------------------------------------------------
(* The steps.                                                              *)

LEMMA ArmCall ==
    ASSUME NEW e \in TodoType, e.op = "arm"
    PROVE  e.timer \in TimerIds /\ e.value \in Nat /\ e.interval \in Nat
BY DEF TodoType, Done

(* Calls in progress when one timer changes.                               *)
SetTodo(td, t, e) == [td EXCEPT ![t] = e]
ArmsFollow(td, td2, i, x) ==
    \A t \in Threads :
        td2[t].op = "arm" => \/ td2[t] = td[t] /\ td[t].timer # i
                             \/ td2[t].timer = i /\ ToArm(x, t)

LEMMA ArmsKept ==
    ASSUME NEW tm \in [TimerIds -> TimerType], NEW td \in [Threads -> TodoType], Arms(tm, td),
           NEW i \in TimerIds, NEW x, NEW td2, ArmsFollow(td, td2, i, x)
    PROVE  Arms(Put(tm, i, x), td2)
<1> SUFFICES ASSUME NEW t \in Threads, td2[t].op = "arm"
             PROVE  ToArm(Put(tm, i, x)[td2[t].timer], t)
  BY DEF Arms
<1> USE DEF ArmsFollow
<1>1. CASE td2[t].timer = i /\ ToArm(x, t)
  BY <1>1 DEF Put
<1>2. CASE td2[t] = td[t] /\ td[t].timer # i
  <2>1. td[t].timer \in TimerIds /\ ToArm(tm[td[t].timer], t)
    BY <1>2, ArmCall DEF Arms
  <2>2. Put(tm, i, x)[td[t].timer] = tm[td[t].timer]
    BY <1>2, <2>1 DEF Put
  <2> QED
    BY <1>2, <2>1, <2>2
<1> QED
  BY <1>1, <1>2

(* A thread that may make a call does not sleep, and its sleep timer is    *)
(* not armed.                                                              *)
LEMMA Caller ==
    ASSUME NEW kk, NEW sl, NEW td, NEW c \in Threads, Sound(kk, sl, td, c), td[c].op # "sleep"
    PROVE  /\ c \notin kk.asleep /\ sl[c] \in TimerIds /\ OwnTimer(kk.tm[sl[c]], c)
           /\ ~kk.tm[sl[c]].armed
<1>1. c \notin kk.asleep
  BY DEF Sound
<1>2. sl[c] \in TimerIds /\ OwnTimer(kk.tm[sl[c]], c)
  BY DEF Sound, KSound
<1>3. TimerOK(sl[c], kk.tm[sl[c]], kk.asleep, sl)
  BY <1>2 DEF Sound, KSound
<1> QED
  BY <1>1, <1>2, <1>3 DEF TimerOK, OwnTimer

(* scheduling().                                                           *)
LEMMA Scheduled ==
    ASSUME NEW alive \in SUBSET Threads, NEW a \in SUBSET Threads,
           NEW c \in (IF alive \subseteq a THEN {Idle} ELSE alive \ a)
    PROVE  (c \in Threads => c \in alive) /\ c \notin a
BY TimersAssumption

(* A timer of another kind is no sleep timer.                              *)
LEMMA NotOwn ==
    ASSUME NEW kk, NEW sl, KSound(kk, sl), NEW i \in TimerIds,
           ~kk.tm[i].use \/ kk.tm[i].act # "wakeup"
    PROVE  \A t \in Threads : sl[t] # i
<1>1. i # NoThread
  BY Sizes DEF TimerIds, NoThread
<1> QED
  BY <1>1 DEF KSound, OwnTimer

(* Another timer than the sleep timers changes.                            *)
LEMMA UpdateOther ==
    ASSUME NEW kk, NEW sl, KSound(kk, sl), NEW i \in TimerIds, NEW x \in TimerType,
           NEW r, r \in KType, r.tm = Put(kk.tm, i, x), r.asleep = kk.asleep,
           HeapFollows(kk, r, i, x), \A t \in Threads : sl[t] # i,
           x.armed => x.use, x.act = "wakeup" => x.interval = 0 /\ ~x.armed
    PROVE  KSound(r, sl)
<1>1. r.asleep \subseteq Threads
  BY KindOf
<1>2. TimerOK(i, x, r.asleep, sl)
  BY DEF TimerOK
<1>3. SleepFollows(kk, r, i, x, sl)
  BY <1>1, <1>2 DEF SleepFollows
<1> QED
  BY <1>3, UpdateSame

AliveIn(sl) == {t \in Threads : sl[t] # NoThread}
NextCur(alive, a) == IF alive \subseteq a THEN {Idle} ELSE alive \ a

LEMMA CreateSound ==
    ASSUME NEW kk, NEW sl, NEW td, NEW c, Sound(kk, sl, td, c),
           NEW t \in Threads, sl[t] = NoThread,
           NEW r, r = alloc_ktimer(kk, t, "wakeup"), ~r.fault,
           NEW sl2, sl2 = [sl EXCEPT ![t] = alloc_index(kk.tm)],
           NEW c2, c2 \in NextCur(AliveIn(sl) \cup {t}, r.asleep)
    PROVE  Sound(r, sl2, td, c2)
<1>1. KSound(kk, sl) /\ kk \in KType /\ HeapOf(kk.heap, Armed(kk.tm)) /\ Arms(kk.tm, td)
  BY DEF Sound, KSound
<1>2. sl \in [Threads -> TimerIds \cup {NoThread}] /\ td \in [Threads -> TodoType]
  BY DEF Sound
<1>3. PICK i, x : i = alloc_index(kk.tm) /\ x = NewTimer(t, "wakeup")
  OBVIOUS
<1>4. /\ i \in TimerIds /\ ~kk.tm[i].use /\ x \in TimerType
      /\ r \in KType /\ r.heap = kk.heap /\ r.asleep = kk.asleep /\ r.tm = Put(kk.tm, i, x)
  BY <1>1, <1>3, AllocTimer
<1>5. i # NoThread
  BY <1>4, Sizes DEF TimerIds, NoThread
<1>6. x.use /\ ~x.armed /\ x.owner = t /\ x.act = "wakeup" /\ x.interval = 0
  BY <1>3 DEF NewTimer, Unused
<1>7. sl2[t] = i /\ \A u \in Threads : u # t => sl2[u] = sl[u]
  BY <1>2, <1>3
<1>8. \A u \in Threads : sl[u] # i
  BY <1>1, <1>4, NotOwn
<1>9. kk.asleep \subseteq Threads /\ t \notin kk.asleep /\ \A u \in kk.asleep : sl[u] # NoThread
  <2>1. kk.asleep \subseteq Threads
    BY <1>1, KindOf
  <2>2. \A u \in kk.asleep : sl[u] # NoThread
    BY <1>1 DEF KSound
  <2> QED
    BY <2>1, <2>2
<1>10. HeapFollows(kk, r, i, x)
  <2>1. TimerOK(i, kk.tm[i], kk.asleep, sl)
    BY <1>1, <1>4 DEF KSound
  <2>2. Armed(kk.tm) \ {i} = Armed(kk.tm)
    BY <1>4, <2>1 DEF Armed, TimerOK
  <2> QED
    BY <1>1, <1>4, <1>6, <2>2 DEF HeapFollows
<1>11. Follows(kk, r, i, x, sl, sl2)
  <2>1. TimerOK(i, x, r.asleep, sl2)
    BY <1>6 DEF TimerOK
  <2>2. \A u \in Threads : sl2[u] = i => OwnTimer(x, u)
    BY <1>6, <1>7, <1>8 DEF OwnTimer
  <2>3. \A u \in Threads : sl2[u] \notin {i, NoThread} => sl2[u] = sl[u]
    BY <1>7
  <2>4. \A u \in r.asleep : u \in kk.asleep /\ sl2[u] = sl[u] /\ sl2[u] # i /\ sl2[u] # NoThread
    BY <1>4, <1>7, <1>8, <1>9
  <2>5. \A u \in kk.asleep : u \in r.asleep
    BY <1>4
  <2> QED
    BY <2>1, <2>2, <2>3, <2>4, <2>5 DEF Follows
<1>12. KSound(r, sl2)
  BY <1>1, <1>4, <1>10, <1>11, Update
<1>13. Arms(r.tm, td)
  <2>1. kk.tm \in [TimerIds -> TimerType]
    BY <1>1, KindOf
  <2>2. \A u \in Threads : td[u].op = "arm" => td[u].timer # i
    BY <1>1, <1>4 DEF Arms, ToArm
  <2>3. Arms(Put(kk.tm, i, x), td)
    <3>1. ArmsFollow(td, td, i, x)
      BY <2>2 DEF ArmsFollow
    <3>2. Arms(kk.tm, td) /\ td \in [Threads -> TodoType] /\ i \in TimerIds
      BY <1>1, <1>2, <1>4
    <3> QED
      BY <2>1, <3>1, <3>2, ArmsKept
  <2> QED
    BY <1>4, <2>3
<1>14. sl2 \in [Threads -> TimerIds \cup {NoThread}]
  BY <1>2, <1>3, <1>4
<1>15. (c2 \in Threads => c2 \in AliveIn(sl) \cup {t}) /\ c2 \notin r.asleep
  <2>1. PICK al \in SUBSET Threads : al = AliveIn(sl) \cup {t}
    BY DEF AliveIn
  <2>2. r.asleep \in SUBSET Threads
    BY <1>4, <1>9
  <2>3. c2 \in (IF al \subseteq r.asleep THEN {Idle} ELSE al \ r.asleep)
    BY <2>1 DEF NextCur
  <2> QED
    BY <2>1, <2>2, <2>3, Scheduled
<1>16. c2 \in Threads => sl2[c2] # NoThread
  BY <1>5, <1>7, <1>15 DEF AliveIn
<1> QED
  BY <1>2, <1>12, <1>13, <1>14, <1>15, <1>16 DEF Sound

LEMMA ExitSound ==
    ASSUME NEW kk, NEW sl, NEW td, NEW c \in Threads, Sound(kk, sl, td, c), td[c] = Done,
           NEW r, r = free_ktimer(kk, sl[c]),
           NEW sl2, sl2 = [sl EXCEPT ![c] = NoThread],
           NEW c2, c2 \in NextCur(AliveIn(sl) \ {c}, r.asleep)
    PROVE  Sound(r, sl2, td, c2)
<1>1. KSound(kk, sl) /\ kk \in KType /\ HeapOf(kk.heap, Armed(kk.tm)) /\ Arms(kk.tm, td)
  BY DEF Sound, KSound
<1>2. sl \in [Threads -> TimerIds \cup {NoThread}] /\ td \in [Threads -> TodoType]
  BY DEF Sound
<1>3. PICK i, x : i = sl[c] /\ x = FreedTimer(kk.tm[i])
  OBVIOUS
<1>4. /\ c \notin kk.asleep /\ i \in TimerIds /\ OwnTimer(kk.tm[i], c)
  BY <1>3, Caller DEF Done
<1>5. /\ x \in TimerType /\ ~x.use /\ ~x.armed /\ x.interval = kk.tm[i].interval
      /\ x.act = kk.tm[i].act /\ r \in KType /\ r.tm = Put(kk.tm, i, x) /\ r.asleep = kk.asleep
      /\ HeapOf(r.heap, Armed(kk.tm) \ {i})
  BY <1>1, <1>3, <1>4, FreeTimer
<1>6. sl2[c] = NoThread /\ \A u \in Threads : u # c => sl2[u] = sl[u]
  BY <1>2
<1>7. i # NoThread
  BY <1>4, Sizes DEF TimerIds, NoThread
<1>8. \A u \in Threads : sl[u] = i => u = c
  BY <1>1, <1>4, <1>7 DEF KSound, OwnTimer
<1>9. \A u \in Threads : sl2[u] # i
  BY <1>6, <1>7, <1>8
<1>10. kk.asleep \subseteq Threads /\ \A u \in kk.asleep : sl[u] # NoThread
  <2>1. kk.asleep \subseteq Threads
    BY <1>1, KindOf
  <2> QED
    BY <1>1, <2>1 DEF KSound
<1>11. HeapFollows(kk, r, i, x)
  BY <1>5 DEF HeapFollows
<1>12. Follows(kk, r, i, x, sl, sl2)
  <2>1. TimerOK(i, x, r.asleep, sl2)
    <3>1. TimerOK(i, kk.tm[i], kk.asleep, sl)
      BY <1>1, <1>4 DEF KSound
    <3>2. x.act = "wakeup" => x.interval = 0
      BY <1>5, <3>1 DEF TimerOK
    <3> QED
      BY <1>5, <3>2 DEF TimerOK
  <2>2. \A u \in Threads : sl2[u] \notin {i, NoThread} => sl2[u] = sl[u]
    BY <1>6
  <2>3. \A u \in r.asleep : u \in kk.asleep /\ sl2[u] # NoThread
    BY <1>4, <1>5, <1>6, <1>10
  <2>4. \A u \in kk.asleep : u \in r.asleep /\ sl2[u] = sl[u]
    BY <1>4, <1>5, <1>6, <1>10
  <2>5. \A u \in r.asleep : sl2[u] # i
    BY <1>5, <1>9, <1>10
  <2> QED
    BY <1>9, <2>1, <2>2, <2>3, <2>4, <2>5 DEF Follows
<1>13. KSound(r, sl2)
  BY <1>1, <1>4, <1>5, <1>11, <1>12, Update
<1>14. Arms(r.tm, td)
  <2>1. kk.tm \in [TimerIds -> TimerType]
    BY <1>1, KindOf
  <2>2. \A u \in Threads : td[u].op = "arm" => td[u].timer # i
    BY <1>1, <1>4 DEF Arms, ToArm, OwnTimer
  <2>3. Arms(Put(kk.tm, i, x), td)
    <3>1. ArmsFollow(td, td, i, x)
      BY <2>2 DEF ArmsFollow
    <3>2. Arms(kk.tm, td) /\ td \in [Threads -> TodoType] /\ i \in TimerIds
      BY <1>1, <1>2, <1>4
    <3> QED
      BY <2>1, <3>1, <3>2, ArmsKept
  <2> QED
    BY <1>5, <2>3
<1>15. sl2 \in [Threads -> TimerIds \cup {NoThread}]
  BY <1>2
<1>16. (c2 \in Threads => c2 \in AliveIn(sl) \ {c}) /\ c2 \notin r.asleep
  <2>1. PICK al \in SUBSET Threads : al = AliveIn(sl) \ {c}
    BY DEF AliveIn
  <2>2. r.asleep \in SUBSET Threads
    BY <1>5, <1>10
  <2>3. c2 \in (IF al \subseteq r.asleep THEN {Idle} ELSE al \ r.asleep)
    BY <2>1 DEF NextCur
  <2> QED
    BY <2>1, <2>2, <2>3, Scheduled
<1>17. c2 \in Threads => sl2[c2] # NoThread
  BY <1>6, <1>16 DEF AliveIn
<1> QED
  BY <1>2, <1>13, <1>14, <1>15, <1>16, <1>17 DEF Sound

LEMMA TimerCreateSound ==
    ASSUME NEW kk, NEW sl, NEW td, NEW c \in Threads, Sound(kk, sl, td, c),
           NEW r, r = alloc_ktimer(kk, c, "kill"), ~r.fault
    PROVE  Sound(r, sl, td, c)
<1>1. KSound(kk, sl) /\ kk \in KType /\ HeapOf(kk.heap, Armed(kk.tm)) /\ Arms(kk.tm, td)
  BY DEF Sound, KSound
<1>2. td \in [Threads -> TodoType]
  BY DEF Sound
<1>3. PICK i, x : i = alloc_index(kk.tm) /\ x = NewTimer(c, "kill")
  OBVIOUS
<1>4. /\ i \in TimerIds /\ ~kk.tm[i].use /\ x \in TimerType
      /\ r \in KType /\ r.heap = kk.heap /\ r.asleep = kk.asleep /\ r.tm = Put(kk.tm, i, x)
  BY <1>1, <1>3, AllocTimer
<1>5. ~x.armed /\ x.act = "kill"
  BY <1>3 DEF NewTimer, Unused
<1>6. \A u \in Threads : sl[u] # i
  BY <1>1, <1>4, NotOwn
<1>7. HeapFollows(kk, r, i, x)
  <2>1. TimerOK(i, kk.tm[i], kk.asleep, sl)
    BY <1>1, <1>4 DEF KSound
  <2>2. Armed(kk.tm) \ {i} = Armed(kk.tm)
    BY <1>4, <2>1 DEF Armed, TimerOK
  <2> QED
    BY <1>1, <1>4, <1>5, <2>2 DEF HeapFollows
<1>8. KSound(r, sl)
  BY <1>1, <1>4, <1>5, <1>6, <1>7, UpdateOther
<1>9. Arms(r.tm, td)
  <2>1. kk.tm \in [TimerIds -> TimerType]
    BY <1>1, KindOf
  <2>2. \A u \in Threads : td[u].op = "arm" => td[u].timer # i
    BY <1>1, <1>4 DEF Arms, ToArm
  <2>3. Arms(Put(kk.tm, i, x), td)
    <3>1. ArmsFollow(td, td, i, x)
      BY <2>2 DEF ArmsFollow
    <3>2. Arms(kk.tm, td) /\ td \in [Threads -> TodoType] /\ i \in TimerIds
      BY <1>1, <1>2, <1>4
    <3> QED
      BY <2>1, <3>1, <3>2, ArmsKept
  <2> QED
    BY <1>4, <2>3
<1> QED
  BY <1>4, <1>8, <1>9 DEF Sound

LEMMA TimerDeleteSound ==
    ASSUME NEW kk, NEW sl, NEW td, NEW c \in Threads, Sound(kk, sl, td, c), td[c] = Done,
           NEW i \in TimerIds, kk.tm[i].act = "kill", kk.tm[i].owner = c,
           NEW r, r = free_ktimer(kk, i)
    PROVE  Sound(r, sl, td, c)
<1>1. KSound(kk, sl) /\ kk \in KType /\ HeapOf(kk.heap, Armed(kk.tm)) /\ Arms(kk.tm, td)
  BY DEF Sound, KSound
<1>2. td \in [Threads -> TodoType]
  BY DEF Sound
<1>3. PICK x : x = FreedTimer(kk.tm[i])
  OBVIOUS
<1>4. /\ x \in TimerType /\ ~x.armed /\ x.act = "kill"
      /\ r \in KType /\ r.tm = Put(kk.tm, i, x) /\ r.asleep = kk.asleep
      /\ HeapOf(r.heap, Armed(kk.tm) \ {i})
  BY <1>1, <1>3, FreeTimer
<1>5. \A u \in Threads : sl[u] # i
  BY <1>1, NotOwn
<1>6. HeapFollows(kk, r, i, x)
  BY <1>4 DEF HeapFollows
<1>7. KSound(r, sl)
  BY <1>1, <1>4, <1>5, <1>6, UpdateOther
<1>8. Arms(r.tm, td)
  <2>1. kk.tm \in [TimerIds -> TimerType]
    BY <1>1, KindOf
  <2>2. \A u \in Threads : td[u].op = "arm" => td[u].timer # i
    BY <1>1 DEF Arms, ToArm, Done
  <2>3. Arms(Put(kk.tm, i, x), td)
    <3>1. ArmsFollow(td, td, i, x)
      BY <2>2 DEF ArmsFollow
    <3>2. Arms(kk.tm, td) /\ td \in [Threads -> TodoType] /\ i \in TimerIds
      BY <1>1, <1>2, <1>4
    <3> QED
      BY <2>1, <3>1, <3>2, ArmsKept
  <2> QED
    BY <1>4, <2>3
<1> QED
  BY <1>4, <1>7, <1>8 DEF Sound

LEMMA SettimeSound ==
    ASSUME NEW kk, NEW sl, NEW td, NEW c \in Threads, Sound(kk, sl, td, c), td[c] = Done,
           NEW i \in TimerIds, kk.tm[i].use, kk.tm[i].act = "kill", kk.tm[i].owner = c,
           NEW abs \in Flags, NEW r, r = Disarmed(kk, i, abs),
           NEW e \in TodoType, e.op = "arm" => e.timer = i,
           NEW td2, td2 = SetTodo(td, c, e)
    PROVE  Sound(r, sl, td2, c)
<1>1. KSound(kk, sl) /\ kk \in KType /\ HeapOf(kk.heap, Armed(kk.tm)) /\ Arms(kk.tm, td)
  BY DEF Sound, KSound
<1>2. td \in [Threads -> TodoType] /\ c \notin kk.asleep
  BY DEF Sound, Done
<1>3. PICK x : x = DisarmedTimer(kk.tm[i], abs)
  OBVIOUS
<1>4. /\ x \in TimerType /\ x.use /\ ~x.armed /\ x.act = "kill" /\ x.owner = c
      /\ r \in KType /\ r.tm = Put(kk.tm, i, x) /\ r.asleep = kk.asleep
      /\ HeapOf(r.heap, Armed(kk.tm) \ {i})
  BY <1>1, <1>3, DisarmTimer
<1>5. \A u \in Threads : sl[u] # i
  BY <1>1, NotOwn
<1>6. HeapFollows(kk, r, i, x)
  BY <1>4 DEF HeapFollows
<1>7. KSound(r, sl)
  BY <1>1, <1>4, <1>5, <1>6, UpdateOther
<1>8. td2 \in [Threads -> TodoType] /\ td2[c] = e /\ \A u \in Threads : u # c => td2[u] = td[u]
  BY <1>2 DEF SetTodo
<1>9. Arms(r.tm, td2)
  <2>1. kk.tm \in [TimerIds -> TimerType]
    BY <1>1, KindOf
  <2>2. x.use
    BY <1>4
  <2>3. ToArm(x, c)
    BY <1>4, <2>2 DEF ToArm
  <2>4. \A u \in Threads : td[u].op = "arm" => td[u].timer # i
    BY <1>1 DEF Arms, ToArm, Done
  <2>5. ASSUME NEW u \in Threads, td2[u].op = "arm"
        PROVE  \/ td2[u] = td[u] /\ td[u].timer # i
               \/ td2[u].timer = i /\ ToArm(x, u)
    <3>1. CASE u = c
      BY <1>8, <2>3, <2>5, <3>1
    <3>2. CASE u # c
      BY <1>8, <2>4, <2>5, <3>2
    <3> QED
      BY <3>1, <3>2
  <2>6. Arms(Put(kk.tm, i, x), td2)
    <3>1. ArmsFollow(td, td2, i, x)
      BY <2>5 DEF ArmsFollow
    <3>2. Arms(kk.tm, td) /\ td \in [Threads -> TodoType]
      BY <1>1, <1>2
    <3> QED
      BY <2>1, <3>1, <3>2, ArmsKept
  <2> QED
    BY <1>4, <2>6
<1> QED
  BY <1>2, <1>4, <1>7, <1>8, <1>9 DEF Sound

LEMMA ArmSound ==
    ASSUME NEW kk, NEW sl, NEW td, NEW c \in Threads, Sound(kk, sl, td, c), td[c].op = "arm",
           ticks \in Nat,
           NEW r, r = arm_timer(kk, td[c].timer, td[c].value, td[c].interval),
           NEW td2, td2 = SetTodo(td, c, [op |-> "update"])
    PROVE  Sound(r, sl, td2, c)
<1>1. KSound(kk, sl) /\ kk \in KType /\ HeapOf(kk.heap, Armed(kk.tm)) /\ Arms(kk.tm, td)
  BY DEF Sound, KSound
<1>2. td \in [Threads -> TodoType] /\ c \notin kk.asleep
  BY DEF Sound
<1>3. PICK i \in TimerIds, v \in Nat, p \in Nat :
        i = td[c].timer /\ v = td[c].value /\ p = td[c].interval
  BY <1>2, ArmCall
<1>4. ToArm(kk.tm[i], c)
  BY <1>1, <1>3 DEF Arms
<1>5. kk.tm[i].use /\ ~kk.tm[i].armed /\ kk.tm[i].act = "kill" /\ kk.tm[i].owner = c
  BY <1>4 DEF ToArm
<1>13. r = arm_timer(kk, i, v, p)
  BY <1>3
<1>6. PICK x \in TimerType :
        /\ x.use /\ x.armed /\ x.interval = p /\ x.act = kk.tm[i].act
        /\ x.owner = kk.tm[i].owner
        /\ r \in KType /\ r.tm = Put(kk.tm, i, x) /\ r.asleep = kk.asleep
        /\ HeapOf(r.heap, Armed(kk.tm) \cup {i})
  BY <1>1, <1>5, <1>13, ArmTimer
<1>7. \A u \in Threads : sl[u] # i
  BY <1>1, <1>5, NotOwn
<1>8. HeapFollows(kk, r, i, x)
  BY <1>6 DEF HeapFollows
<1>9. KSound(r, sl)
  BY <1>1, <1>5, <1>6, <1>7, <1>8, UpdateOther
<1>10. [op |-> "update"] \in TodoType
  BY DEF TodoType
<1>11. /\ td2 \in [Threads -> TodoType] /\ td2[c] = [op |-> "update"]
       /\ \A u \in Threads : u # c => td2[u] = td[u]
  BY <1>2, <1>10 DEF SetTodo
<1>12. Arms(r.tm, td2)
  <2>1. kk.tm \in [TimerIds -> TimerType]
    BY <1>1, KindOf
  <2>2. ASSUME NEW u \in Threads, td2[u].op = "arm"
        PROVE  td2[u] = td[u] /\ td[u].timer # i
    <3>1. u # c
      BY <1>11, <2>2
    <3>2. td2[u] = td[u] /\ ToArm(kk.tm[td[u].timer], u)
      BY <1>1, <1>11, <2>2, <3>1 DEF Arms
    <3> QED
      BY <1>5, <3>1, <3>2 DEF ToArm
  <2>3. Arms(Put(kk.tm, i, x), td2)
    <3>1. ArmsFollow(td, td2, i, x)
      BY <2>2 DEF ArmsFollow
    <3>2. Arms(kk.tm, td) /\ td \in [Threads -> TodoType] /\ i \in TimerIds
      BY <1>1, <1>2, <1>4
    <3> QED
      BY <2>1, <3>1, <3>2, ArmsKept
  <2> QED
    BY <1>6, <2>3
<1> QED
  BY <1>2, <1>6, <1>9, <1>11, <1>12 DEF Sound

LEMMA AsleepSet ==
    ASSUME NEW kk, kk \in KType, NEW a \in SUBSET Threads, NEW r, r = SetAsleep(kk, a)
    PROVE  r \in KType /\ r.tm = kk.tm /\ r.heap = kk.heap /\ r.asleep = a
BY DEF KType, SetAsleep

LEMMA SleepSound ==
    ASSUME NEW kk, NEW sl, NEW td, NEW c \in Threads, Sound(kk, sl, td, c), td[c] = Done,
           ticks \in Nat, NEW d \in Nat,
           NEW r, r = SetAsleep(arm_timer(kk, sl[c], d, 0), kk.asleep \cup {c}),
           NEW td2, td2 = SetTodo(td, c, [op |-> "sleep"])
    PROVE  Sound(r, sl, td2, c)
<1>1. KSound(kk, sl) /\ kk \in KType /\ HeapOf(kk.heap, Armed(kk.tm)) /\ Arms(kk.tm, td)
  BY DEF Sound, KSound
<1>2. td \in [Threads -> TodoType]
  BY DEF Sound
<1>3. PICK i : i = sl[c]
  OBVIOUS
<1>4. c \notin kk.asleep /\ i \in TimerIds /\ OwnTimer(kk.tm[i], c) /\ ~kk.tm[i].armed
  BY <1>3, Caller DEF Done
<1>5. kk.tm[i].use /\ kk.tm[i].act = "wakeup" /\ kk.tm[i].owner = c
  BY <1>4 DEF OwnTimer
<1>6. PICK k1 : k1 = arm_timer(kk, i, d, 0)
  OBVIOUS
<1>7. PICK x \in TimerType :
        /\ x.use /\ x.armed /\ x.interval = 0 /\ x.act = kk.tm[i].act
        /\ x.owner = kk.tm[i].owner
        /\ k1 \in KType /\ k1.tm = Put(kk.tm, i, x) /\ k1.asleep = kk.asleep
        /\ HeapOf(k1.heap, Armed(kk.tm) \cup {i})
  BY <1>1, <1>4, <1>5, <1>6, ArmTimer
<1>8. kk.asleep \in SUBSET Threads /\ \A u \in kk.asleep : sl[u] # NoThread
  <2>1. kk.asleep \in SUBSET Threads
    BY <1>1, KindOf
  <2> QED
    BY <1>1, <2>1 DEF KSound
<1>9. r = SetAsleep(k1, kk.asleep \cup {c})
  BY <1>3, <1>6
<1>10. r \in KType /\ r.tm = k1.tm /\ r.heap = k1.heap /\ r.asleep = kk.asleep \cup {c}
  <2>1. PICK a \in SUBSET Threads : a = kk.asleep \cup {c}
    BY <1>8
  <2>2. k1 \in KType /\ r = SetAsleep(k1, a)
    BY <1>7, <1>9, <2>1
  <2>3. r \in KType /\ r.tm = k1.tm /\ r.heap = k1.heap /\ r.asleep = a
    BY <2>2, AsleepSet
  <2> QED
    BY <2>1, <2>3
<1>11. HeapFollows(kk, r, i, x)
  BY <1>7, <1>10 DEF HeapFollows
<1>12. i # NoThread
  BY <1>4, Sizes DEF TimerIds, NoThread
<1>13. Follows(kk, r, i, x, sl, sl)
  <2>1. TimerOK(i, x, r.asleep, sl)
    BY <1>3, <1>5, <1>7, <1>10 DEF TimerOK
  <2>2. ASSUME NEW u \in Threads, sl[u] = i PROVE OwnTimer(x, u)
    <3>1. OwnTimer(kk.tm[i], u)
      BY <1>1, <1>12, <2>2 DEF KSound
    <3> QED
      BY <1>7, <3>1 DEF OwnTimer
  <2>3. \A u \in r.asleep : sl[u] # NoThread
    BY <1>3, <1>8, <1>10, <1>12
  <2>4. \A u \in r.asleep : sl[u] # i => u \in kk.asleep
    BY <1>3, <1>10
  <2>5. \A u \in kk.asleep : u \in r.asleep
    BY <1>10
  <2>6. x.armed
    BY <1>7
  <2> QED
    BY <2>1, <2>2, <2>3, <2>4, <2>5, <2>6 DEF Follows
<1>14. KSound(r, sl)
  <2>1. r.tm = Put(kk.tm, i, x)
    BY <1>7, <1>10
  <2> QED
    BY <1>1, <1>4, <1>10, <1>11, <1>13, <2>1, Update
<1>15. [op |-> "sleep"] \in TodoType
  BY DEF TodoType
<1>16. /\ td2 \in [Threads -> TodoType] /\ td2[c] = [op |-> "sleep"]
       /\ \A u \in Threads : u # c => td2[u] = td[u]
  BY <1>2, <1>15 DEF SetTodo
<1>17. Arms(r.tm, td2)
  <2>1. kk.tm \in [TimerIds -> TimerType]
    BY <1>1, KindOf
  <2>2. ASSUME NEW u \in Threads, td2[u].op = "arm"
        PROVE  td2[u] = td[u] /\ td[u].timer # i
    <3>1. u # c
      BY <1>16, <2>2
    <3>2. td2[u] = td[u] /\ ToArm(kk.tm[td[u].timer], u)
      BY <1>1, <1>16, <2>2, <3>1 DEF Arms
    <3> QED
      BY <1>5, <3>2 DEF ToArm
  <2>3. Arms(Put(kk.tm, i, x), td2)
    <3>1. ArmsFollow(td, td2, i, x)
      BY <2>2 DEF ArmsFollow
    <3>2. Arms(kk.tm, td) /\ td \in [Threads -> TodoType] /\ i \in TimerIds
      BY <1>1, <1>2, <1>4
    <3> QED
      BY <2>1, <3>1, <3>2, ArmsKept
  <2> QED
    BY <1>7, <1>10, <2>3
<1>18. td2[c].op = "sleep"
  BY <1>16
<1> QED
  BY <1>14, <1>16, <1>17, <1>18 DEF Sound

(* After update_hwtimer, whoever runs then.                                *)
LEMMA KeptSound ==
    ASSUME NEW kk, NEW td, NEW c, Sound(kk, slp, td, c), NEW r, Kept(r, kk),
           NEW td2 \in [Threads -> TodoType],
           \A t \in Threads : td2[t].op = "arm" => td2[t] = td[t],
           NEW c2, c2 \in Threads => slp[c2] # NoThread,
           c2 \in r.asleep => td2[c2].op = "sleep"
    PROVE  Sound(r, slp, td2, c2)
<1>1. KSound(r, slp) /\ \A j \in TimerIds : ~kk.tm[j].armed => r.tm[j] = kk.tm[j]
  BY DEF Kept
<1>2. td \in [Threads -> TodoType] /\ Arms(kk.tm, td) /\ slp \in [Threads -> TimerIds \cup {NoThread}]
  BY DEF Sound
<1>3. Arms(r.tm, td2)
  <2> SUFFICES ASSUME NEW t \in Threads, td2[t].op = "arm" PROVE ToArm(r.tm[td2[t].timer], t)
    BY DEF Arms
  <2>1. td2[t] = td[t] /\ td[t].timer \in TimerIds
    BY <1>2, ArmCall
  <2>2. ToArm(kk.tm[td[t].timer], t)
    BY <1>2, <2>1 DEF Arms
  <2>3. r.tm[td[t].timer] = kk.tm[td[t].timer]
    BY <1>1, <2>1, <2>2 DEF ToArm
  <2> QED
    BY <2>1, <2>2, <2>3
<1> QED
  BY <1>1, <1>2, <1>3 DEF Sound

(* update_hwtimer: the kernel did not fault, so the loop ran to its end.   *)
LEMMA UpdateHw ==
    ASSUME ~SignalWakes, ticks \in Nat, KSound(k, slp), NEW off, update_hwtimer(off), ~k'.fault
    PROVE  Kept(k', k)
<1>1. PICK r : r = k'
  OBVIOUS
<1>2. r = ExpireAll(k) \/ r = [k EXCEPT !.fault = TRUE]
  BY <1>1 DEF update_hwtimer
<1>3. r # [k EXCEPT !.fault = TRUE]
  <2>1. k \in KType
    BY DEF KSound
  <2>2. [k EXCEPT !.fault = TRUE].fault = TRUE
    BY <2>1 DEF KType
  <2> QED
    BY <1>1, <2>2
<1>4. Kept(ExpireAll(k), k)
  BY ExpireAllKept
<1> QED
  BY <1>1, <1>2, <1>3, <1>4

(* The processor after update_hwtimer.                                     *)
LEMMA SwitchedTo ==
    ASSUME NEW r, Kept(r, k), NEW c2, c2 \in NextCur(Alive, r.asleep)
    PROVE  (c2 \in Threads => slp[c2] # NoThread) /\ c2 \notin r.asleep
<1>1. r.asleep \in SUBSET Threads /\ Alive \in SUBSET Threads
  <2>1. r \in KType
    BY DEF Kept, KSound
  <2> QED
    BY <2>1, KindOf DEF Alive
<1>2. PICK al \in SUBSET Threads : al = Alive
  BY <1>1
<1>3. c2 \in (IF al \subseteq r.asleep THEN {Idle} ELSE al \ r.asleep)
  BY <1>2 DEF NextCur
<1>4. (c2 \in Threads => c2 \in al) /\ c2 \notin r.asleep
  BY <1>1, <1>3, Scheduled
<1> QED
  BY <1>2, <1>4 DEF Alive

LEMMA DoneTodo ==
    ASSUME NEW td \in [Threads -> TodoType], NEW c \in Threads
    PROVE  /\ SetTodo(td, c, Done) \in [Threads -> TodoType]
           /\ SetTodo(td, c, Done)[c] = Done
           /\ \A t \in Threads : SetTodo(td, c, Done)[t].op = "arm" => SetTodo(td, c, Done)[t] = td[t]
<1>1. Done \in TodoType /\ Done.op # "arm"
  BY DEF TodoType, Done
<1> QED
  BY <1>1 DEF SetTodo

Goes == /\ ~SignalWakes /\ ~SharedTimers /\ ~k.fault /\ ~k'.fault
        /\ Sound(k, slp, todo, cur) /\ ticks \in Nat
Gone == Sound(k', slp', todo', cur') /\ ticks' \in Nat

LEMMA StepCreate == ASSUME Goes, NEW t \in Threads, ThreadCreate(t) PROVE Gone
<1>1. PICK r, sl2, c2 : r = k' /\ sl2 = slp' /\ c2 = cur'
  OBVIOUS
<1>2. Sound(k, slp, todo, cur) /\ ticks \in Nat /\ ~r.fault
  BY <1>1 DEF Goes
<1>3. /\ slp[t] = NoThread /\ r = alloc_ktimer(k, t, "wakeup")
      /\ sl2 = [slp EXCEPT ![t] = alloc_index(k.tm)]
      /\ todo' = todo /\ ticks' = ticks
  BY <1>1 DEF ThreadCreate, Alive
<1>4. c2 \in NextCur(AliveIn(slp) \cup {t}, r.asleep)
  BY <1>1 DEF ThreadCreate, Scheduling, NextCur, Alive, AliveIn
<1>5. Sound(r, sl2, todo, c2)
  BY <1>2, <1>3, <1>4, CreateSound
<1> QED
  BY <1>1, <1>2, <1>3, <1>5 DEF Gone

LEMMA StepExit == ASSUME Goes, ThreadExit PROVE Gone
<1>1. PICK r, sl2, c2 : r = k' /\ sl2 = slp' /\ c2 = cur'
  OBVIOUS
<1>2. Sound(k, slp, todo, cur) /\ ticks \in Nat
  BY DEF Goes
<1>3. /\ cur \in Threads /\ todo[cur] = Done /\ r = free_ktimer(k, slp[cur])
      /\ sl2 = [slp EXCEPT ![cur] = NoThread]
      /\ todo' = todo /\ ticks' = ticks
  BY <1>1 DEF ThreadExit, Ready, InCall
<1>4. c2 \in NextCur(AliveIn(slp) \ {cur}, r.asleep)
  BY <1>1 DEF ThreadExit, Scheduling, NextCur, Alive, AliveIn
<1>5. Sound(r, sl2, todo, c2)
  BY <1>2, <1>3, <1>4, ExitSound
<1> QED
  BY <1>1, <1>2, <1>3, <1>5 DEF Gone

LEMMA StepTimerCreate == ASSUME Goes, timer_create_sys PROVE Gone
<1>1. PICK r : r = k'
  OBVIOUS
<1>2. Sound(k, slp, todo, cur) /\ ticks \in Nat /\ ~r.fault
  BY <1>1 DEF Goes
<1>3. cur \in Threads /\ r = alloc_ktimer(k, cur, "kill")
  BY <1>1 DEF timer_create_sys, Ready, InCall
<1>4. slp' = slp /\ cur' = cur /\ todo' = todo /\ ticks' = ticks
  BY DEF timer_create_sys
<1>5. Sound(r, slp, todo, cur)
  BY <1>2, <1>3, TimerCreateSound
<1> QED
  BY <1>1, <1>2, <1>4, <1>5 DEF Gone

LEMMA StepTimerDelete == ASSUME Goes, NEW i \in TimerIds, timer_delete_sys(i) PROVE Gone
<1>1. PICK r : r = k'
  OBVIOUS
<1>2. Sound(k, slp, todo, cur) /\ ticks \in Nat /\ ~SharedTimers
  BY DEF Goes
<1>3. cur \in Threads /\ todo[cur] = Done /\ r = free_ktimer(k, i)
  BY <1>1 DEF timer_delete_sys, Ready, InCall
<1>4. k.tm[i].act = "kill" /\ k.tm[i].owner = cur
  BY <1>2 DEF timer_delete_sys, UserTimers
<1>5. slp' = slp /\ cur' = cur /\ todo' = todo /\ ticks' = ticks
  BY DEF timer_delete_sys
<1>6. Sound(r, slp, todo, cur)
  BY <1>2, <1>3, <1>4, TimerDeleteSound
<1> QED
  BY <1>1, <1>2, <1>5, <1>6 DEF Gone

LEMMA StepSettime ==
    ASSUME Goes, NEW i \in TimerIds, NEW abs \in Flags, NEW v \in Delays \cup {0},
           NEW p \in Intervals, timer_settime_sys(i, abs, v, p)
    PROVE  Gone
<1>1. PICK r, td2 : r = k' /\ td2 = todo'
  OBVIOUS
<1>2. Sound(k, slp, todo, cur) /\ ticks \in Nat /\ ~SharedTimers
  BY DEF Goes
<1>3. cur \in Threads /\ todo[cur] = Done /\ r = Disarmed(k, i, abs)
  BY <1>1 DEF timer_settime_sys, Ready, InCall, Disarmed
<1>4. k.tm[i].use /\ k.tm[i].act = "kill" /\ k.tm[i].owner = cur
  BY <1>2 DEF timer_settime_sys, UserTimers
<1>5. slp' = slp /\ cur' = cur /\ ticks' = ticks
  BY DEF timer_settime_sys
<1>6. PICK e : e = IF v = 0 THEN Done
                   ELSE [op |-> "arm", timer |-> i, value |-> v, interval |-> p]
  OBVIOUS
<1>7. e \in TodoType /\ (e.op = "arm" => e.timer = i)
  <2>1. v \in Nat /\ p \in Nat
    BY TimersAssumption
  <2> QED
    BY <1>6, <2>1 DEF TodoType, Done
<1>8. td2 = SetTodo(todo, cur, e)
  BY <1>1, <1>6 DEF timer_settime_sys, SetTodo
<1>9. Sound(r, slp, td2, cur)
  BY <1>2, <1>3, <1>4, <1>7, <1>8, SettimeSound
<1> QED
  BY <1>1, <1>2, <1>5, <1>9 DEF Gone

LEMMA StepArm == ASSUME Goes, SettimeArm PROVE Gone
<1>1. PICK r, td2 : r = k' /\ td2 = todo'
  OBVIOUS
<1>2. Sound(k, slp, todo, cur) /\ ticks \in Nat
  BY DEF Goes
<1>3. /\ cur \in Threads /\ todo[cur].op = "arm"
      /\ r = arm_timer(k, todo[cur].timer, todo[cur].value, todo[cur].interval)
  BY <1>1 DEF SettimeArm, InCall
<1>4. td2 = SetTodo(todo, cur, [op |-> "update"])
  BY <1>1 DEF SettimeArm, SetTodo
<1>5. slp' = slp /\ cur' = cur /\ ticks' = ticks
  BY DEF SettimeArm
<1>6. Sound(r, slp, td2, cur)
  BY <1>2, <1>3, <1>4, ArmSound
<1> QED
  BY <1>1, <1>2, <1>5, <1>6 DEF Gone

LEMMA StepSleep == ASSUME Goes, NEW d \in Delays, sleep_for(d) PROVE Gone
<1>1. PICK r, td2 : r = k' /\ td2 = todo'
  OBVIOUS
<1>2. Sound(k, slp, todo, cur) /\ ticks \in Nat
  BY DEF Goes
<1>3. /\ cur \in Threads /\ todo[cur] = Done
      /\ r = SetAsleep(arm_timer(k, slp[cur], d, 0), k.asleep \cup {cur})
  BY <1>1 DEF sleep_for, Ready, InCall, SetAsleep
<1>4. td2 = SetTodo(todo, cur, [op |-> "sleep"])
  BY <1>1 DEF sleep_for, SetTodo
<1>5. slp' = slp /\ cur' = cur /\ ticks' = ticks
  BY DEF sleep_for
<1>6. d \in Nat
  BY TimersAssumption
<1>7. Sound(r, slp, td2, cur)
  BY <1>2, <1>3, <1>4, <1>6, SleepSound
<1> QED
  BY <1>1, <1>2, <1>5, <1>7 DEF Gone

LEMMA StepUpdate == ASSUME Goes, SettimeUpdate PROVE Gone
<1>1. PICK r, td2 : r = k' /\ td2 = todo'
  OBVIOUS
<1>2. Sound(k, slp, todo, cur) /\ ticks \in Nat /\ KSound(k, slp) /\ todo \in [Threads -> TodoType]
  BY DEF Goes, Sound
<1>3. cur \in Threads /\ todo[cur].op = "update" /\ update_hwtimer(hw)
  BY DEF SettimeUpdate, InCall
<1>4. td2 = SetTodo(todo, cur, Done)
  BY <1>1 DEF SettimeUpdate, SetTodo
<1>5. slp' = slp /\ cur' = cur /\ ticks' = ticks
  BY DEF SettimeUpdate
<1>6. Kept(r, k)
  BY <1>1, <1>2, <1>3, UpdateHw DEF Goes
<1>7. /\ td2 \in [Threads -> TodoType]
      /\ \A t \in Threads : td2[t].op = "arm" => td2[t] = todo[t]
  BY <1>2, <1>3, <1>4, DoneTodo
<1>8. slp[cur] # NoThread /\ cur \notin r.asleep
  BY <1>2, <1>3, <1>6 DEF Sound, Kept
<1>9. Sound(r, slp, td2, cur)
  BY <1>2, <1>6, <1>7, <1>8, KeptSound
<1> QED
  BY <1>1, <1>2, <1>5, <1>9 DEF Gone

LEMMA StepSleepUpdate == ASSUME Goes, SleepUpdate PROVE Gone
<1>1. PICK r, td2, c2 : r = k' /\ td2 = todo' /\ c2 = cur'
  OBVIOUS
<1>2. Sound(k, slp, todo, cur) /\ ticks \in Nat /\ KSound(k, slp) /\ todo \in [Threads -> TodoType]
  BY DEF Goes, Sound
<1>3. cur \in Threads /\ update_hwtimer(hw)
  BY DEF SleepUpdate, InCall
<1>4. td2 = SetTodo(todo, cur, Done)
  BY <1>1 DEF SleepUpdate, SetTodo
<1>5. slp' = slp /\ ticks' = ticks
  BY DEF SleepUpdate
<1>6. Kept(r, k)
  BY <1>1, <1>2, <1>3, UpdateHw DEF Goes
<1>7. /\ td2 \in [Threads -> TodoType]
      /\ \A t \in Threads : td2[t].op = "arm" => td2[t] = todo[t]
  BY <1>2, <1>3, <1>4, DoneTodo
<1>8. c2 \in NextCur(Alive, r.asleep)
  BY <1>1 DEF SleepUpdate, Scheduling, NextCur
<1>9. (c2 \in Threads => slp[c2] # NoThread) /\ c2 \notin r.asleep
  BY <1>6, <1>8, SwitchedTo
<1>10. Sound(r, slp, td2, c2)
  BY <1>2, <1>6, <1>7, <1>9, KeptSound
<1> QED
  BY <1>1, <1>2, <1>5, <1>10 DEF Gone

LEMMA StepClock == ASSUME Goes, ClockIrq PROVE Gone
<1>1. PICK r, c2 : r = k' /\ c2 = cur'
  OBVIOUS
<1>2. Sound(k, slp, todo, cur) /\ ticks \in Nat /\ KSound(k, slp) /\ todo \in [Threads -> TodoType]
  BY DEF Goes, Sound
<1>3. update_hwtimer(Off)
  BY DEF ClockIrq
<1>4. slp' = slp /\ ticks' = ticks /\ todo' = todo
  BY DEF ClockIrq
<1>5. Kept(r, k)
  BY <1>1, <1>2, <1>3, UpdateHw DEF Goes
<1>6. (c2 \in Threads => slp[c2] # NoThread) /\ (c2 \in r.asleep => todo[c2].op = "sleep")
  <2>1. CASE Due(k)
    <3>1. c2 \in NextCur(Alive, r.asleep)
      BY <1>1, <2>1 DEF ClockIrq, Scheduling, NextCur
    <3> QED
      BY <1>5, <3>1, SwitchedTo
  <2>2. CASE ~Due(k)
    <3>1. c2 = cur
      BY <1>1, <2>2 DEF ClockIrq
    <3> QED
      BY <1>2, <1>5, <3>1 DEF Sound, Kept
  <2> QED
    BY <2>1, <2>2
<1>7. Sound(r, slp, todo, c2)
  BY <1>2, <1>5, <1>6, KeptSound
<1> QED
  BY <1>1, <1>2, <1>4, <1>7 DEF Gone

LEMMA TimersStep ==
    ASSUME ~SignalWakes, ~SharedTimers, TimersInv, [Next]_vars
    PROVE  TimersInv'
<1>1. CASE UNCHANGED vars
  BY <1>1 DEF TimersInv, vars
<1>2. CASE Next
  <2>1. ~k.fault
    BY <1>2 DEF Next, ThreadExit, timer_create_sys, SettimeArm, SettimeUpdate, SleepUpdate, ClockIrq,
                Tick, ThreadCreate, sleep_for, timer_delete_sys, timer_settime_sys, Ready, InCall
  <2>2. SUFFICES ASSUME ~k'.fault PROVE Gone
    BY DEF TimersInv, Gone
  <2>3. Goes
    BY <2>1, <2>2 DEF Goes, TimersInv
  <2>4. CASE Tick
    BY <2>3, <2>4 DEF Tick, Goes, Gone
  <2>5. ASSUME NEW i \in TimerIds, NEW abs \in BOOLEAN, NEW v \in Delays \cup {0},
               NEW p \in Intervals, timer_settime_sys(i, abs, v, p)
        PROVE  Gone
    <3>1. abs \in Flags
      BY DEF Flags
    <3> QED
      BY <2>3, <2>5, <3>1, StepSettime
  <2> QED
    BY <1>2, <2>3, <2>4, <2>5, StepCreate, StepExit, StepTimerCreate, StepTimerDelete, StepArm,
       StepSleep, StepUpdate, StepSleepUpdate, StepClock DEF Next
<1> QED
  BY <1>1, <1>2

LEMMA TimersInit == Init => TimersInv
<1> SUFFICES ASSUME Init PROVE Sound(k, slp, todo, cur) /\ ticks \in Nat
  BY DEF TimersInv
<1>1. PICK first \in Threads :
        /\ k = [tm     |-> [i \in TimerIds |->
                              IF i = 0 THEN [Unused EXCEPT !.use = TRUE, !.owner = first]
                              ELSE Unused],
                heap   |-> <<>>,
                asleep |-> {},
                fault  |-> FALSE]
        /\ slp = [t \in Threads |-> IF t = first THEN 0 ELSE NoThread]
        /\ cur = first
        /\ todo = [t \in Threads |-> Done]
        /\ ticks = 0
  BY DEF Init
<1>2. PICK x : x = [Unused EXCEPT !.use = TRUE, !.owner = first]
  OBVIOUS
<1>3. x = [use |-> TRUE, armed |-> FALSE, abs |-> FALSE, value |-> 0, interval |-> 0,
           owner |-> first, act |-> "wakeup"]
  BY <1>2 DEF Unused
<1>4. x \in TimerType /\ Unused \in TimerType
  BY <1>3 DEF TimerType, Unused
<1>5. k.tm = [i \in TimerIds |-> IF i = 0 THEN x ELSE Unused]
  BY <1>1, <1>2
<1>6. k.tm \in [TimerIds -> TimerType]
  BY <1>4, <1>5
<1>7. k.heap = <<>> /\ k.asleep = {} /\ k.fault = FALSE
  BY <1>1
<1>8. k \in KType
  BY <1>1, <1>2, <1>5, <1>6 DEF KType
<1>9. 0 \in TimerIds /\ 0 # NoThread
  BY Sizes DEF TimerIds, NoThread
<1>10. \A i \in TimerIds : k.tm[i] = IF i = 0 THEN x ELSE Unused
  BY <1>5
<1>11. \A i \in TimerIds : ~k.tm[i].armed /\ k.tm[i].interval = 0
  BY <1>3, <1>10 DEF Unused
<1>12. HeapOf(k.heap, Armed(k.tm))
  BY <1>7, <1>11 DEF HeapOf, Armed
<1>13. \A i \in TimerIds : TimerOK(i, k.tm[i], k.asleep, slp)
  BY <1>11 DEF TimerOK
<1>14. \A t \in Threads : slp[t] # NoThread => slp[t] \in TimerIds /\ OwnTimer(k.tm[slp[t]], t)
  <2> SUFFICES ASSUME NEW t \in Threads, slp[t] # NoThread
               PROVE  slp[t] \in TimerIds /\ OwnTimer(k.tm[slp[t]], t)
    OBVIOUS
  <2>1. t = first /\ slp[t] = 0
    BY <1>1
  <2>2. OwnTimer(x, first)
    BY <1>3 DEF OwnTimer
  <2> QED
    BY <1>9, <1>10, <2>1, <2>2
<1>15. KSound(k, slp)
  BY <1>7, <1>8, <1>12, <1>13, <1>14 DEF KSound
<1>16. todo \in [Threads -> TodoType] /\ Arms(k.tm, todo)
  BY <1>1 DEF TodoType, Arms, Done
<1>17. slp \in [Threads -> TimerIds \cup {NoThread}] /\ slp[cur] # NoThread
  BY <1>1, <1>9
<1> QED
  BY <1>1, <1>7, <1>15, <1>16, <1>17 DEF Sound

LEMMA InvHeapSound == TimersInv => HeapSound
<1> SUFFICES ASSUME TimersInv, ~k.fault
             PROVE  LET h == k.heap
                    IN  /\ {h[i] : i \in 1 .. Len(h)} = {i \in TimerIds : k.tm[i].armed}
                        /\ \A i, j \in 1 .. Len(h) : h[i] = h[j] => i = j
                        /\ Len(h) < HEAP_MAX_NELEM
  BY DEF HeapSound
<1>1. PICK h : h = k.heap
  OBVIOUS
<1>2. HeapOf(h, Armed(k.tm))
  BY <1>1 DEF TimersInv, Sound, KSound
<1>3. Len(h) < HEAP_MAX_NELEM
  BY <1>2, HeapLen, Sizes
<1>4. /\ \A i \in 1 .. Len(h) : h[i] \in Armed(k.tm)
      /\ \A x \in Armed(k.tm) : \E i \in 1 .. Len(h) : h[i] = x
      /\ \A i, j \in 1 .. Len(h) : h[i] = h[j] => i = j
  BY <1>2 DEF HeapOf
<1>5. {h[i] : i \in 1 .. Len(h)} = Armed(k.tm)
  BY <1>4
<1> QED
  BY <1>1, <1>3, <1>4, <1>5 DEF Armed

LEMMA InvSleepers == TimersInv => SleepersArmed
<1> SUFFICES ASSUME TimersInv, ~k.fault, NEW t \in k.asleep
             PROVE  k.tm[slp[t]].armed /\ k.tm[slp[t]].owner = t
  BY DEF SleepersArmed
<1>1. KSound(k, slp)
  BY DEF TimersInv, Sound
<1>2. t \in Threads
  BY <1>1, KindOf DEF KSound
<1>3. slp[t] # NoThread /\ k.tm[slp[t]].armed
  BY <1>1 DEF KSound
<1>4. OwnTimer(k.tm[slp[t]], t)
  BY <1>1, <1>2, <1>3 DEF KSound
<1> QED
  BY <1>3, <1>4 DEF OwnTimer

(* The heap holds the armed timers, each once, and nothing else, and fits  *)
(* into its array: through every arming, disarming, deletion and expiry of *)
(* time.c, for threads that set their own timers and keep their signals    *)
(* blocked while they sleep.                                               *)
THEOREM HeapSoundHolds == ~SignalWakes /\ ~SharedTimers => (Spec => []HeapSound)
<1> SUFFICES ASSUME ~SignalWakes, ~SharedTimers PROVE Spec => []HeapSound
  OBVIOUS
<1>1. Init => TimersInv
  BY TimersInit
<1>2. TimersInv /\ [Next]_vars => TimersInv'
  BY TimersStep
<1>3. TimersInv => HeapSound
  BY InvHeapSound
<1> QED
  BY <1>1, <1>2, <1>3, PTL DEF Spec

(* A thread that sleeps in sleep_for has its own sleep timer armed: none   *)
(* of the timers that expire, are set or deleted meanwhile takes away what *)
(* will wake it.                                                           *)
THEOREM SleepersArmedHolds == ~SignalWakes /\ ~SharedTimers => (Spec => []SleepersArmed)
<1> SUFFICES ASSUME ~SignalWakes, ~SharedTimers PROVE Spec => []SleepersArmed
  OBVIOUS
<1>1. Init => TimersInv
  BY TimersInit
<1>2. TimersInv /\ [Next]_vars => TimersInv'
  BY TimersStep
<1>3. TimersInv => SleepersArmed
  BY InvSleepers
<1> QED
  BY <1>1, <1>2, <1>3, PTL DEF Spec

-----------------------------------------------------------------------------
(* HEAP_min is the earliest timer: the order of the heap.                  *)

(* The order of a heap, of the keys u of its n elements.                   *)
InOrder(u, n) == \A i \in 2 .. n : u[father(i)] <= u[i]

(* The order but for the element at p, which still sinks or rises.         *)
OverChildren(u, n, p) == p > 1 => \A d \in 1 .. n : father(d) = p => u[father(p)] <= u[d]
Sinking(u, n, p) ==
    (\A i \in 2 .. n : father(i) # p => u[father(i)] <= u[i]) /\ OverChildren(u, n, p)
Rising(u, n, p) ==
    (\A i \in 2 .. n : i # p => u[father(i)] <= u[i]) /\ OverChildren(u, n, p)

Swaps(u, w, n, p, q) ==
    w[p] = u[q] /\ w[q] = u[p] /\ \A i \in 1 .. n : i # p /\ i # q => w[i] = u[i]

LeastChild(u, n, p, c) == \A d \in 1 .. n : father(d) = p => u[c] <= u[d]

LEMMA Father ==
    ASSUME NEW i \in Nat
    PROVE  father(i) \in Nat /\ (i = 2 * father(i) \/ i = 2 * father(i) + 1)
BY DEF father

LEMMA ChildOf ==
    ASSUME NEW n \in Nat, NEW d \in 1 .. n, NEW c, father(d) = c
    PROVE  d = 2 * c \/ d = 2 * c + 1
<1>1. d \in Nat
  OBVIOUS
<1> QED
  BY <1>1, Father

LEMMA FatherIn ==
    ASSUME NEW n \in Nat, NEW i \in 2 .. n
    PROVE  father(i) \in 1 .. n /\ father(i) < i
BY Father

LEMMA SinkStep ==
    ASSUME NEW n \in Nat, NEW u \in [1 .. n -> Int], NEW w \in [1 .. n -> Int],
           NEW p \in 1 .. n, NEW c \in 1 .. n, father(c) = p, u[c] <= u[p],
           LeastChild(u, n, p, c), Sinking(u, n, p), Swaps(u, w, n, p, c)
    PROVE  Sinking(w, n, c)
<1>1. c \in 2 .. n /\ p < c /\ p # c
  <2>1. c = 2 * p \/ c = 2 * p + 1
    BY ChildOf
  <2> QED
    BY <2>1
<1>2. ASSUME NEW i \in 2 .. n, father(i) # c PROVE w[father(i)] <= w[i]
  <2>1. father(i) \in 1 .. n /\ father(i) # i /\ i \in 1 .. n
    BY FatherIn
  <2>2. CASE father(i) = p /\ i = c
    BY <2>2 DEF Swaps
  <2>3. CASE father(i) = p /\ i # c
    BY <2>1, <2>3 DEF Swaps, LeastChild
  <2>4. CASE father(i) # p /\ i = p
    <3>1. u[father(p)] <= u[c]
      BY <2>4 DEF Sinking, OverChildren
    <3> QED
      BY <1>2, <2>1, <2>4, <3>1 DEF Swaps
  <2>5. CASE father(i) # p /\ i # p
    <3>1. i # c /\ u[father(i)] <= u[i]
      BY <2>5 DEF Sinking
    <3> QED
      BY <1>2, <2>1, <2>5, <3>1 DEF Swaps
  <2> QED
    BY <2>2, <2>3, <2>4, <2>5
<1>3. ASSUME NEW d \in 1 .. n, father(d) = c PROVE w[father(c)] <= w[d]
  <2>1. d \in 2 .. n /\ d # c /\ d # p
    <3>1. d = 2 * c \/ d = 2 * c + 1
      BY <1>3, ChildOf
    <3> QED
      BY <1>1, <3>1
  <2>2. u[c] <= u[d]
    BY <1>1, <1>3, <2>1 DEF Sinking
  <2> QED
    BY <2>1, <2>2 DEF Swaps
<1> QED
  BY <1>2, <1>3 DEF Sinking, OverChildren

LEMMA RiseStep ==
    ASSUME NEW n \in Nat, NEW u \in [1 .. n -> Int], NEW w \in [1 .. n -> Int],
           NEW p \in 2 .. n, NEW f, f = father(p), u[p] < u[f],
           Rising(u, n, p), Swaps(u, w, n, p, f)
    PROVE  Rising(w, n, f)
<1>1. f \in 1 .. n /\ f < p /\ p \in 1 .. n
  BY FatherIn
<1>2. ASSUME NEW i \in 2 .. n, i # f PROVE w[father(i)] <= w[i]
  <2>1. father(i) \in 1 .. n /\ father(i) # i /\ i \in 1 .. n
    BY FatherIn
  <2>2. CASE i = p
    BY <1>1, <2>2 DEF Swaps
  <2>3. CASE i # p /\ father(i) = p
    <3>1. u[f] <= u[i]
      BY <1>1, <2>1, <2>3 DEF Rising, OverChildren
    <3> QED
      BY <1>1, <1>2, <2>1, <2>3, <3>1 DEF Swaps
  <2>4. CASE i # p /\ father(i) = f
    <3>1. u[f] <= u[i]
      BY <2>4 DEF Rising
    <3> QED
      BY <1>1, <1>2, <2>1, <2>4, <3>1 DEF Swaps
  <2>5. CASE i # p /\ father(i) # p /\ father(i) # f
    <3>1. u[father(i)] <= u[i]
      BY <2>5 DEF Rising
    <3> QED
      BY <1>2, <2>1, <2>5, <3>1 DEF Swaps
  <2> QED
    BY <2>2, <2>3, <2>4, <2>5
<1>3. ASSUME f > 1, NEW d \in 1 .. n, father(d) = f PROVE w[father(f)] <= w[d]
  <2>1. father(f) \in 1 .. n /\ father(f) # f /\ father(f) # p /\ f \in 2 .. n
    <3>1. f \in 2 .. n
      BY <1>1, <1>3
    <3>2. father(f) \in 1 .. n /\ father(f) < f
      BY <3>1, FatherIn
    <3> QED
      BY <1>1, <3>1, <3>2
  <2>2. u[father(f)] <= u[f]
    BY <1>1, <2>1 DEF Rising
  <2>3. d \in 2 .. n /\ d # f
    <3>1. d = 2 * f \/ d = 2 * f + 1
      BY <1>3, ChildOf
    <3>2. PICK g \in Nat : g = f /\ g >= 1
      BY <1>1
    <3>3. d > g
      BY <3>1, <3>2
    <3> QED
      BY <3>2, <3>3
  <2>4. CASE d = p
    BY <1>1, <2>1, <2>2, <2>4 DEF Swaps
  <2>5. CASE d # p
    <3>1. u[f] <= u[d]
      BY <1>3, <2>3, <2>5 DEF Rising
    <3> QED
      BY <1>1, <2>1, <2>2, <2>3, <2>5, <3>1 DEF Swaps
  <2> QED
    BY <2>4, <2>5
<1> QED
  BY <1>2, <1>3 DEF Rising, OverChildren

(* The root of an ordered heap is the smallest.                            *)
LEMMA RootLeast ==
    ASSUME NEW n \in Nat, NEW u \in [1 .. n -> Int], InOrder(u, n), NEW j \in 1 .. n
    PROVE  u[1] <= u[j]
<1> DEFINE B == {i \in 1 .. n : ~(u[1] <= u[i])}
<1> SUFFICES ASSUME B # {} PROVE FALSE
  OBVIOUS
<1>1. PICK i \in B : \A m \in B : i <= m
  <2>1. B \in SUBSET Nat
    OBVIOUS
  <2> QED
    BY <2>1, LeastNat
<1>2. i \in 2 .. n
  <2>1. i \in 1 .. n /\ i # 1
    BY <1>1
  <2> QED
    BY <2>1
<1>3. father(i) \in 1 .. n /\ father(i) < i /\ u[father(i)] <= u[i]
  BY <1>2, FatherIn DEF InOrder
<1>4. father(i) \notin B
  BY <1>1, <1>3
<1> QED
  BY <1>1, <1>3, <1>4

(* In a heap of five, the last element may take any place.                 *)
LEMMA FiveFit ==
    ASSUME NEW n \in 1 .. 5, NEW u \in [1 .. n -> Int], InOrder(u, n), NEW i \in 2 .. n - 1
    PROVE  u[father(i)] <= u[n]
<1>1. father(2) = 1 /\ father(3) = 1 /\ father(4) = 2 /\ father(5) = 2
  BY DEF father
<1>2. u[1] <= u[n]
  BY RootLeast
<1>3. CASE i = 2 \/ i = 3
  BY <1>1, <1>2, <1>3
<1>4. CASE i = 4
  <2>1. n = 5 /\ n \in 2 .. n
    BY <1>4
  <2>2. u[father(n)] <= u[n]
    BY <2>1 DEF InOrder
  <2> QED
    BY <1>1, <1>4, <2>1, <2>2
<1> QED
  BY <1>3, <1>4

-----------------------------------------------------------------------------
(* The keys of a heap, and its order.                                      *)
Keys(a, v) == [i \in 1 .. Len(a) |-> v[a[i]]]
Ordered(h, v) == InOrder(Keys(h, v), Len(h))

(* The same for a set of states that depends on the step.                  *)
LEMMA AlongSteps ==
    ASSUME NEW S, NEW N \in Nat, NEW f, f[0] \in S[0],
           \A n \in 1 .. N : f[n - 1] \in S[n - 1] => f[n] \in S[n]
    PROVE  f[N] \in S[N]
<1> DEFINE T == {n \in Nat : n <= N => f[n] \in S[n]}
<1>1. 0 \in T
  OBVIOUS
<1>2. ASSUME NEW n \in Nat, n \in T PROVE n + 1 \in T
  <2>1. CASE n + 1 <= N
    <3>1. n + 1 \in 1 .. N /\ (n + 1) - 1 = n
      BY <2>1
    <3>2. f[(n + 1) - 1] \in S[(n + 1) - 1]
      BY <1>2, <2>1, <3>1
    <3> QED
      BY <3>1, <3>2
  <2>2. CASE ~(n + 1 <= N)
    BY <2>2
  <2> QED
    BY <2>1, <2>2
<1>3. T = Nat
  BY <1>1, <1>2, Induct
<1> QED
  BY <1>3

LEMMA KeysOf ==
    ASSUME NEW S, NEW n \in Nat, NEW s, s \in Trips(S, n), NEW v \in [TimerIds -> Int], NEW u, u = Keys(s.a, v)
    PROVE  /\ u \in [1 .. n -> Int] /\ \A i \in 1 .. n : u[i] = v[s.a[i]] /\ s.a[i] \in TimerIds
           /\ s.at \in 1 .. n /\ s.a \in Seq(TimerIds) /\ Len(s.a) = n
<1>1. s.at \in 1 .. n /\ s.a \in Seq(TimerIds) /\ Len(s.a) = n
  BY DEF Trips
<1>2. \A i \in 1 .. n : s.a[i] \in TimerIds
  BY <1>1
<1> QED
  BY <1>1, <1>2 DEF Keys

LEMMA KeysSwap ==
    ASSUME NEW S, NEW n \in Nat, NEW s, s \in Trips(S, n), NEW v \in [TimerIds -> Int], NEW c \in 1 .. n,
           NEW r, r = Exchange(s.a, s.at, c)
    PROVE  Keys(r, v) \in [1 .. n -> Int] /\ Swaps(Keys(s.a, v), Keys(r, v), n, s.at, c)
<1>1. PICK u : u = Keys(s.a, v)
  OBVIOUS
<1>2. /\ u \in [1 .. n -> Int] /\ \A i \in 1 .. n : u[i] = v[s.a[i]] /\ s.a[i] \in TimerIds
      /\ s.at \in 1 .. n /\ s.a \in Seq(TimerIds) /\ Len(s.a) = n
  BY <1>1, KeysOf
<1>3. PICK t : t = [a |-> r, at |-> c]
  OBVIOUS
<1>4. t \in Trips(S, n) /\ t.a = r
  BY <1>3, TripGoes
<1>5. PICK w : w = Keys(r, v)
  OBVIOUS
<1>6. /\ w \in [1 .. n -> Int] /\ \A i \in 1 .. n : w[i] = v[r[i]]
  BY <1>4, <1>5, KeysOf
<1>7. \A i \in 1 .. n : r[i] = IF i = c THEN s.a[s.at] ELSE IF i = s.at THEN s.a[c] ELSE s.a[i]
  <2>1. s.a \in [1 .. n -> TimerIds]
    BY <1>2
  <2> QED
    BY <1>2, <2>1 DEF Exchange
<1>8. Swaps(u, w, n, s.at, c)
  <2>1. PICK p, a : p = s.at /\ a = s.a
    OBVIOUS
  <2>2. p \in 1 .. n /\ \A i \in 1 .. n : u[i] = v[a[i]] /\ w[i] = v[r[i]]
    BY <1>2, <1>6, <2>1
  <2>3. \A i \in 1 .. n : r[i] = IF i = c THEN a[p] ELSE IF i = p THEN a[c] ELSE a[i]
    BY <1>7, <2>1
  <2>4. w[p] = u[c] /\ w[c] = u[p]
    BY <2>2, <2>3
  <2>5. \A i \in 1 .. n : i # p /\ i # c => w[i] = u[i]
    BY <2>2, <2>3
  <2> QED
    BY <2>1, <2>4, <2>5 DEF Swaps
<1> QED
  BY <1>1, <1>5, <1>6, <1>8

LEMMA ChildLeast ==
    ASSUME NEW n \in Nat, NEW u \in [1 .. n -> Int], NEW e \in 1 .. n, NEW c,
           c = IF e < n /\ u[e + 1] < u[e] THEN e + 1 ELSE e, NEW d \in 1 .. n, d = e \/ d = e + 1
    PROVE  u[c] <= u[d]
<1>1. u[e] \in Int /\ u[d] \in Int
  OBVIOUS
<1>2. CASE d = e
  BY <1>1, <1>2
<1>3. CASE d = e + 1
  <2>1. e < n
    BY <1>3
  <2> QED
    BY <1>1, <1>3, <2>1
<1> QED
  BY <1>2, <1>3

(* One step of heapify.                                                    *)
SinkStates(S, v, n, m) ==
    {s \in Trips(S, n) : Sinking(Keys(s.a, v), n, s.at) /\ (s.at > m \/ Sunk(s, v, n))}

LEMMA SinkKeeps ==
    ASSUME NEW S, NEW n \in Nat, NEW v \in [TimerIds -> Int], NEW m \in 1 .. n,
           NEW s, s \in SinkStates(S, v, n, m - 1)
    PROVE  Sink(s, v, n) \in SinkStates(S, v, n, m)
<1>1. s \in Trips(S, n) /\ Sinking(Keys(s.a, v), n, s.at) /\ (s.at > m - 1 \/ Sunk(s, v, n))
  BY DEF SinkStates
<1>2. CASE Sunk(s, v, n)
  BY <1>1, <1>2 DEF SinkStates, Sink
<1>3. CASE ~Sunk(s, v, n)
  <2>1. PICK p, u, c : p = s.at /\ u = Keys(s.a, v) /\ c = LesserChild(s, v, n)
    OBVIOUS
  <2>2. /\ u \in [1 .. n -> Int] /\ \A i \in 1 .. n : u[i] = v[s.a[i]]
        /\ p \in 1 .. n
    <3>1. s \in Trips(S, n) /\ u = Keys(s.a, v)
      BY <1>1, <2>1
    <3>2. /\ u \in [1 .. n -> Int] /\ \A i \in 1 .. n : u[i] = v[s.a[i]] /\ s.a[i] \in TimerIds
          /\ s.at \in 1 .. n /\ s.a \in Seq(TimerIds) /\ Len(s.a) = n
      BY <3>1, KeysOf
    <3> QED
      BY <2>1, <3>2
  <2>3. 2 * p <= n /\ ~IS_MIN(v, s.a[p], s.a[c])
    BY <1>3, <2>1, <2>2 DEF Sunk
  <2>4. c = IF 2 * p < n /\ IS_MIN(v, s.a[2 * p + 1], s.a[2 * p]) THEN 2 * p + 1 ELSE 2 * p
    BY <2>1 DEF LesserChild
  <2>5. c \in 1 .. n /\ 2 * p \in 1 .. n /\ (2 * p < n => 2 * p + 1 \in 1 .. n) /\ c > p
    BY <2>2, <2>3, <2>4
  <2>6. u[c] <= u[p]
    BY <2>2, <2>3, <2>5 DEF IS_MIN
  <2>7. c = IF 2 * p < n /\ u[2 * p + 1] < u[2 * p] THEN 2 * p + 1 ELSE 2 * p
    BY <2>2, <2>4, <2>5 DEF IS_MIN
  <2>8. father(c) = p
    BY <2>2, <2>7 DEF father
  <2>9. ASSUME NEW d \in 1 .. n, father(d) = p PROVE u[c] <= u[d]
    <3>1. d = 2 * p \/ d = 2 * p + 1
      BY <2>9, ChildOf
    <3>2. PICK e \in 1 .. n : e = 2 * p
      BY <2>5
    <3>3. c = IF e < n /\ u[e + 1] < u[e] THEN e + 1 ELSE e
      BY <2>7, <3>2
    <3> QED
      BY <2>2, <3>1, <3>2, <3>3, ChildLeast
  <2>10. PICK r : r = Exchange(s.a, p, c)
    OBVIOUS
  <2>11. PICK w : w = Keys(r, v)
    OBVIOUS
  <2>12. w \in [1 .. n -> Int] /\ Swaps(u, w, n, p, c)
    BY <1>1, <2>1, <2>5, <2>10, <2>11, KeysSwap
  <2>13. Sinking(w, n, c)
    <3>1. Sinking(u, n, p)
      BY <1>1, <2>1
    <3>2. LeastChild(u, n, p, c)
      BY <2>9 DEF LeastChild
    <3> QED
      BY <2>2, <2>5, <2>6, <2>8, <2>12, <3>1, <3>2, SinkStep
  <2>14. PICK t : t = [a |-> r, at |-> c]
    OBVIOUS
  <2>15. t \in Trips(S, n) /\ t.a = r /\ t.at = c
    BY <1>1, <2>1, <2>5, <2>10, <2>14, TripGoes
  <2>16. Sink(s, v, n) = t
    BY <1>3, <2>1, <2>10, <2>14 DEF Sink
  <2>17. c > m
    BY <1>1, <1>3, <2>1, <2>2, <2>5
  <2> QED
    BY <2>11, <2>13, <2>15, <2>16, <2>17 DEF SinkStates
<1> QED
  BY <1>2, <1>3

LEMMA SunkOrdered ==
    ASSUME NEW S, NEW n \in Nat, NEW v \in [TimerIds -> Int], NEW s, s \in SinkStates(S, v, n, n)
    PROVE  InOrder(Keys(s.a, v), n)
<1>1. PICK p, u, c : p = s.at /\ u = Keys(s.a, v) /\ c = LesserChild(s, v, n)
  OBVIOUS
<1>2. s \in Trips(S, n) /\ Sinking(u, n, p) /\ (p > n \/ Sunk(s, v, n))
  BY <1>1 DEF SinkStates
<1>3. u \in [1 .. n -> Int] /\ (\A i \in 1 .. n : u[i] = v[s.a[i]]) /\ p \in 1 .. n
  BY <1>1, <1>2, KeysOf
<1>4. Sunk(s, v, n)
  BY <1>2, <1>3
<1>5. ASSUME NEW i \in 2 .. n, father(i) = p PROVE u[p] <= u[i]
  <2>1. (i = 2 * p \/ i = 2 * p + 1) /\ i \in 1 .. n
    <3>1. i \in 1 .. n
      OBVIOUS
    <3> QED
      BY <1>5, <3>1, ChildOf
  <2>2. 2 * p <= n /\ IS_MIN(v, s.a[p], s.a[c])
    BY <1>1, <1>3, <1>4, <2>1 DEF Sunk
  <2>3. c = IF 2 * p < n /\ IS_MIN(v, s.a[2 * p + 1], s.a[2 * p]) THEN 2 * p + 1 ELSE 2 * p
    BY <1>1 DEF LesserChild
  <2>4. c \in 1 .. n /\ 2 * p \in 1 .. n /\ (2 * p < n => 2 * p + 1 \in 1 .. n)
    BY <1>3, <2>2, <2>3
  <2>5. u[p] < u[c]
    BY <1>3, <2>2, <2>4 DEF IS_MIN
  <2>6. c = IF 2 * p < n /\ u[2 * p + 1] < u[2 * p] THEN 2 * p + 1 ELSE 2 * p
    BY <1>3, <2>3, <2>4 DEF IS_MIN
  <2>7. PICK e \in 1 .. n : e = 2 * p
    BY <2>4
  <2>8. c = IF e < n /\ u[e + 1] < u[e] THEN e + 1 ELSE e
    BY <2>6, <2>7
  <2>9. u[c] <= u[i]
    BY <1>3, <2>1, <2>7, <2>8, ChildLeast
  <2>10. u[i] \in Int /\ u[c] \in Int /\ u[p] \in Int
    BY <1>3, <2>1, <2>4
  <2> QED
    BY <2>5, <2>9, <2>10
<1>6. InOrder(u, n)
  BY <1>2, <1>5 DEF InOrder, Sinking
<1> QED
  BY <1>1, <1>6

LEMMA HeapifyOrder ==
    ASSUME NEW h, NEW S, HeapOf(h, S), NEW v \in [TimerIds -> Int], NEW n, n = Len(h),
           NEW top \in 1 .. n, Sinking(Keys(h, v), n, top), NEW r, r = heapify(h, v, top)
    PROVE  Ordered(r, v)
<1>1. n \in Nat
  BY DEF HeapOf
<1>8. PICK w : HeapifyLoop(w, h, S, v, top, n) /\ heapify(h, v, top) = w[n].a
  BY HeapifyWalk
<1>2. /\ w[0] = [a |-> h, at |-> top] /\ \A i \in 1 .. n : w[i] = Sink(w[i - 1], v, n)
      /\ \A i \in 0 .. n : w[i] \in Trips(S, n)
      /\ r = w[n].a
  BY <1>8 DEF HeapifyLoop
<1> DEFINE T == [m \in 0 .. n |-> SinkStates(S, v, n, m)]
<1>3. w[0] \in T[0]
  <2>1. w[0] \in Trips(S, n) /\ w[0].a = h /\ w[0].at = top /\ top > 0
    BY <1>1, <1>2
  <2>2. w[0] \in SinkStates(S, v, n, 0)
    BY <2>1 DEF SinkStates
  <2> QED
    BY <1>1, <2>2
<1>4. ASSUME NEW m \in 1 .. n, w[m - 1] \in T[m - 1] PROVE w[m] \in T[m]
  <2>1. m - 1 \in 0 .. n /\ m \in 0 .. n
    BY <1>1
  <2>2. w[m - 1] \in SinkStates(S, v, n, m - 1)
    BY <1>4, <2>1
  <2>3. PICK s : s = w[m - 1]
    OBVIOUS
  <2>4. Sink(s, v, n) \in SinkStates(S, v, n, m)
    BY <1>1, <2>2, <2>3, SinkKeeps
  <2> QED
    BY <1>2, <2>1, <2>3, <2>4
<1>5. w[n] \in SinkStates(S, v, n, n)
  <2>1. w[n] \in T[n]
    <3> HIDE DEF T
    <3> QED
      BY <1>1, <1>3, <1>4, AlongSteps
  <2> QED
    BY <1>1, <2>1
<1>6. InOrder(Keys(r, v), n)
  BY <1>1, <1>2, <1>5, SunkOrdered
<1>7. Len(r) = n
  BY <1>1, <1>2, <1>5 DEF SinkStates, Trips
<1> QED
  BY <1>6, <1>7 DEF Ordered

(* One step of HEAP_insert.                                                *)
Risen(s, v, e) == ~(s.at > 1 /\ IS_MIN(v, e, s.a[father(s.at)]))
RiseStates(S, v, e, n, m) ==
    {s \in Trips(S, n) : /\ s.a[s.at] = e /\ Rising(Keys(s.a, v), n, s.at)
                         /\ s.at <= n - m \/ Risen(s, v, e)}

LEMMA RiseKeeps ==
    ASSUME NEW S, NEW n \in Nat, NEW v \in [TimerIds -> Int], NEW e \in TimerIds, NEW m \in 1 .. n,
           NEW s, s \in RiseStates(S, v, e, n, m - 1)
    PROVE  Rise(s, v, e) \in RiseStates(S, v, e, n, m)
<1>1. /\ s \in Trips(S, n) /\ s.a[s.at] = e /\ Rising(Keys(s.a, v), n, s.at)
      /\ s.at <= n - (m - 1) \/ Risen(s, v, e)
  BY DEF RiseStates
<1>2. CASE Risen(s, v, e)
  <2>1. Rise(s, v, e) = s
    BY <1>2 DEF Risen, Rise
  <2> QED
    BY <1>1, <1>2, <2>1 DEF RiseStates
<1>3. CASE ~Risen(s, v, e)
  <2>1. PICK p, u, f : p = s.at /\ u = Keys(s.a, v) /\ f = father(p)
    OBVIOUS
  <2>2. /\ u \in [1 .. n -> Int] /\ \A i \in 1 .. n : u[i] = v[s.a[i]]
        /\ p \in 1 .. n /\ s.a \in Seq(TimerIds) /\ Len(s.a) = n
    <3>1. s \in Trips(S, n) /\ u = Keys(s.a, v)
      BY <1>1, <2>1
    <3>2. /\ u \in [1 .. n -> Int] /\ \A i \in 1 .. n : u[i] = v[s.a[i]] /\ s.a[i] \in TimerIds
          /\ s.at \in 1 .. n /\ s.a \in Seq(TimerIds) /\ Len(s.a) = n
      BY <3>1, KeysOf
    <3> QED
      BY <2>1, <3>2
  <2>3. p > 1 /\ IS_MIN(v, e, s.a[f])
    BY <1>3, <2>1 DEF Risen
  <2>4. p \in 2 .. n
    BY <2>2, <2>3
  <2>5. f \in 1 .. n /\ f < p
    BY <2>1, <2>4, FatherIn
  <2>6. u[p] < u[f]
    <3>1. s.a[p] = e
      BY <1>1, <2>1
    <3> QED
      BY <2>2, <2>3, <2>5, <3>1 DEF IS_MIN
  <2>7. PICK r : r = Exchange(s.a, p, f)
    OBVIOUS
  <2>8. PICK w : w = Keys(r, v)
    OBVIOUS
  <2>9. w \in [1 .. n -> Int] /\ Swaps(u, w, n, p, f)
    BY <1>1, <2>1, <2>5, <2>7, <2>8, KeysSwap
  <2>10. Rising(w, n, f)
    <3>1. Rising(u, n, p)
      BY <1>1, <2>1
    <3> QED
      BY <2>1, <2>2, <2>4, <2>6, <2>9, <3>1, RiseStep
  <2>11. PICK t : t = [a |-> r, at |-> f]
    OBVIOUS
  <2>12. t \in Trips(S, n) /\ t.a = r /\ t.at = f
    BY <1>1, <2>1, <2>5, <2>7, <2>11, TripGoes
  <2>13. r[f] = e
    <3>1. s.a[p] = e /\ s.a \in [1 .. n -> TimerIds]
      BY <1>1, <2>1, <2>2
    <3> QED
      BY <2>2, <2>5, <2>7, <3>1 DEF Exchange
  <2>14. Rise(s, v, e) = t
    BY <2>1, <2>3, <2>7, <2>11 DEF Rise
  <2>15. f <= n - m
    <3>1. p <= n - (m - 1)
      BY <1>1, <1>3, <2>1
    <3> QED
      BY <2>2, <2>5, <3>1
  <2> QED
    BY <2>8, <2>10, <2>12, <2>13, <2>14, <2>15 DEF RiseStates
<1> QED
  BY <1>2, <1>3

LEMMA RisenOrdered ==
    ASSUME NEW S, NEW n \in Nat, NEW v \in [TimerIds -> Int], NEW e \in TimerIds, NEW s,
           s \in RiseStates(S, v, e, n, n - 1)
    PROVE  InOrder(Keys(s.a, v), n)
<1>1. PICK p, u : p = s.at /\ u = Keys(s.a, v)
  OBVIOUS
<1>2. s \in Trips(S, n) /\ Rising(u, n, p) /\ s.a[p] = e /\ (p <= n - (n - 1) \/ Risen(s, v, e))
  BY <1>1 DEF RiseStates
<1>3. u \in [1 .. n -> Int] /\ (\A i \in 1 .. n : u[i] = v[s.a[i]]) /\ p \in 1 .. n
  BY <1>1, <1>2, KeysOf
<1>4. ASSUME p \in 2 .. n PROVE u[father(p)] <= u[p]
  <2>1. father(p) \in 1 .. n
    BY <1>4, FatherIn
  <2>2. ~IS_MIN(v, e, s.a[father(p)])
    BY <1>1, <1>2, <1>3, <1>4 DEF Risen
  <2>3. u[p] = v[e] /\ u[father(p)] = v[s.a[father(p)]]
    BY <1>2, <1>3, <2>1
  <2>4. u[p] \in Int /\ u[father(p)] \in Int
    BY <1>3, <2>1
  <2> QED
    BY <2>2, <2>3, <2>4 DEF IS_MIN
<1>5. InOrder(u, n)
  BY <1>2, <1>4 DEF InOrder, Rising
<1> QED
  BY <1>1, <1>5

LEMMA InsertOrder ==
    ASSUME NEW h, NEW S, HeapOf(h, S), NEW v \in [TimerIds -> Int], NEW e \in TimerIds \ S,
           Ordered(h, v), NEW r, r = HEAP_insert(h, v, e, HEAP_MAX_NELEM)
    PROVE  Ordered(r, v)
<1>1. PICK n \in Nat : n = Len(h)
  BY DEF HeapOf
<1>9. PICK w : InsertLoop(w, h, S, v, e, n) /\ HEAP_insert(h, v, e, HEAP_MAX_NELEM) = w[n].a
  BY <1>1, InsertWalk
<1>2. /\ w[0] = [a |-> Append(h, e), at |-> n + 1] /\ \A i \in 1 .. n : w[i] = Rise(w[i - 1], v, e)
      /\ \A i \in 0 .. n : w[i] \in Trips(S \cup {e}, n + 1)
      /\ r = w[n].a
  BY <1>9 DEF InsertLoop
<1>3. PICK R, N : R = S \cup {e} /\ N = n + 1
  OBVIOUS
<1> DEFINE T == [m \in 0 .. n |-> RiseStates(R, v, e, N, m)]
<1>4. w[0] \in T[0]
  <2>1. PICK b, u : b = Append(h, e) /\ u = Keys(b, v)
    OBVIOUS
  <2>2. w[0] \in Trips(R, N) /\ w[0].a = b /\ w[0].at = N
    <3>1. 0 \in 0 .. n
      OBVIOUS
    <3>2. w[0] \in Trips(S \cup {e}, n + 1)
      BY <1>2, <3>1
    <3>3. w[0] = [a |-> b, at |-> N]
      BY <1>2, <1>3, <2>1
    <3> QED
      BY <1>3, <3>2, <3>3
  <2>3. h \in Seq(TimerIds) /\ b[N] = e /\ \A i \in 1 .. n : b[i] = h[i]
    BY <1>1, <1>3, <2>1 DEF HeapOf
  <2>4. u \in [1 .. N -> Int] /\ \A i \in 1 .. N : u[i] = v[b[i]]
    <3>1. PICK s : s = w[0]
      OBVIOUS
    <3>2. s \in Trips(R, N) /\ s.a = b
      BY <2>2, <3>1
    <3>4. u = Keys(s.a, v)
      BY <2>1, <3>2
    <3>5. N \in Nat
      BY <1>3
    <3>3. u \in [1 .. N -> Int] /\ \A i \in 1 .. N : u[i] = v[s.a[i]]
      BY <3>2, <3>4, <3>5, KeysOf
    <3> QED
      BY <3>2, <3>3
  <2>5. ASSUME NEW i \in 2 .. N, i # N PROVE u[father(i)] <= u[i]
    <3>1. i \in 2 .. n /\ i \in 1 .. n /\ i \in 1 .. N
      BY <1>1, <1>3, <2>5
    <3>2. father(i) \in 1 .. n
      BY <1>1, <3>1, FatherIn
    <3>3. father(i) \in 1 .. N
      BY <1>1, <1>3, <3>2
    <3>4. Keys(h, v)[father(i)] <= Keys(h, v)[i]
      BY <1>1, <3>1 DEF Ordered, InOrder
    <3>5. Keys(h, v)[father(i)] = v[h[father(i)]] /\ Keys(h, v)[i] = v[h[i]]
      BY <1>1, <3>1, <3>2 DEF Keys
    <3> QED
      BY <2>3, <2>4, <3>1, <3>2, <3>3, <3>4, <3>5
  <2>6. ASSUME NEW d \in 1 .. N, father(d) = N PROVE FALSE
    <3>1. N \in Nat /\ N > 0
      BY <1>1, <1>3
    <3>2. d = 2 * N \/ d = 2 * N + 1
      BY <2>6, <3>1, ChildOf
    <3> QED
      BY <3>1, <3>2
  <2>7. Rising(u, N, N)
    BY <2>5, <2>6 DEF Rising, OverChildren
  <2>8. N <= N - 0
    BY <1>1, <1>3
  <2>9. w[0] \in RiseStates(R, v, e, N, 0)
    BY <2>1, <2>2, <2>3, <2>7, <2>8 DEF RiseStates
  <2> QED
    BY <1>1, <2>9
<1>5. ASSUME NEW m \in 1 .. n, w[m - 1] \in T[m - 1] PROVE w[m] \in T[m]
  <2>1. m - 1 \in 0 .. n /\ m \in 0 .. n /\ m \in 1 .. N /\ N \in Nat
    BY <1>1, <1>3
  <2>2. w[m - 1] \in RiseStates(R, v, e, N, m - 1)
    BY <1>5, <2>1
  <2>3. PICK s : s = w[m - 1]
    OBVIOUS
  <2>4. Rise(s, v, e) \in RiseStates(R, v, e, N, m)
    BY <2>1, <2>2, <2>3, RiseKeeps
  <2> QED
    BY <1>2, <2>1, <2>3, <2>4
<1>6. w[n] \in RiseStates(R, v, e, N, N - 1) /\ N \in Nat
  <2>1. w[n] \in T[n]
    <3> HIDE DEF T
    <3> QED
      BY <1>1, <1>4, <1>5, AlongSteps
  <2> QED
    BY <1>1, <1>3, <2>1
<1>7. InOrder(Keys(r, v), N)
  BY <1>2, <1>6, RisenOrdered
<1>8. Len(r) = N
  BY <1>2, <1>6 DEF RiseStates, Trips
<1> QED
  BY <1>7, <1>8 DEF Ordered
(* Refill.                                                                 *)
LEMMA RefillOrder ==
    ASSUME NEW h, NEW S, HeapOf(h, S), NEW v \in [TimerIds -> Int], NEW i \in 1 .. Len(h),
           Ordered(h, v), i = 1 \/ Len(h) <= 5, NEW r, r = Refill(h, v, i)
    PROVE  Ordered(r, v)
<1>1. PICK n \in Nat : n = Len(h) /\ i \in 1 .. n /\ n - 1 \in Nat
  BY DEF HeapOf
<1>2. PICK b, N : b = RestOf(h, i) /\ N = n - 1
  OBVIOUS
<1>3. HeapOf(b, S \ {h[i]}) /\ Len(b) = N /\ \A m \in 1 .. N : b[m] = IF m = i THEN h[n] ELSE h[m]
  <2>1. b = RestOf(h, i)
    BY <1>2
  <2>2. /\ HeapOf(b, S \ {h[i]}) /\ Len(b) = Len(h) - 1
        /\ \A m \in 1 .. Len(h) - 1 : b[m] = IF m = i THEN h[Len(h)] ELSE h[m]
    BY <2>1, RestHeap
  <2>3. Len(h) = n /\ Len(h) - 1 = N
    BY <1>1, <1>2
  <2> QED
    BY <2>2, <2>3
<1>4. r = IF i = n THEN b ELSE heapify(b, v, i)
  BY <1>1, <1>2 DEF Refill, RestOf
<1>5. PICK u, w : u = Keys(h, v) /\ w = Keys(b, v)
  OBVIOUS
<1>6. u \in [1 .. n -> Int] /\ (\A m \in 1 .. n : u[m] = v[h[m]]) /\ InOrder(u, n)
  <2>1. \A m \in 1 .. n : h[m] \in TimerIds
    BY <1>1 DEF HeapOf
  <2> QED
    BY <1>1, <1>5, <2>1 DEF Keys, Ordered
<1>7. w \in [1 .. N -> Int] /\ \A m \in 1 .. N : w[m] = IF m = i THEN u[n] ELSE u[m]
  <2>1. \A m \in 1 .. N : b[m] \in TimerIds
    BY <1>3 DEF HeapOf
  <2>2. w \in [1 .. N -> Int] /\ \A m \in 1 .. N : w[m] = v[b[m]]
    BY <1>3, <1>5, <2>1 DEF Keys
  <2>3. n \in 1 .. n /\ \A m \in 1 .. N : m \in 1 .. n
    BY <1>1, <1>2
  <2> QED
    BY <1>3, <1>6, <2>2, <2>3
<1>8. \A m \in 2 .. N : m \in 1 .. N /\ m \in 2 .. n /\ father(m) \in 1 .. N /\ u[father(m)] <= u[m]
  <2> SUFFICES ASSUME NEW m \in 2 .. N
               PROVE  m \in 1 .. N /\ m \in 2 .. n /\ father(m) \in 1 .. N /\ u[father(m)] <= u[m]
    OBVIOUS
  <2>1. m \in 1 .. N /\ m \in 2 .. n /\ N \in Nat
    BY <1>1, <1>2
  <2>2. father(m) \in 1 .. N
    BY <2>1, FatherIn
  <2> QED
    BY <1>6, <2>1, <2>2 DEF InOrder
<1>9. CASE i = n
  <2>1. ASSUME NEW m \in 2 .. N PROVE w[father(m)] <= w[m]
    <3>1. father(m) # i /\ m # i
      BY <1>1, <1>2, <1>8, <1>9
    <3> QED
      BY <1>7, <1>8, <3>1
  <2>2. InOrder(w, N)
    BY <2>1 DEF InOrder
  <2> QED
    BY <1>3, <1>4, <1>5, <1>9, <2>2 DEF Ordered
<1>10. CASE i # n
  <2>1. i \in 1 .. N
    BY <1>1, <1>2, <1>10
  <2>2. ASSUME NEW m \in 2 .. N, father(m) # i PROVE w[father(m)] <= w[m]
    <3>1. CASE m # i
      BY <1>7, <1>8, <2>2, <3>1
    <3>2. CASE m = i
      <4>1. n \in 1 .. 5 /\ i \in 2 .. n - 1
        BY <1>1, <1>2, <3>2
      <4>2. u[father(i)] <= u[n]
        BY <1>6, <4>1, FiveFit
      <4> QED
        BY <1>7, <1>8, <2>1, <2>2, <3>2, <4>2
    <3> QED
      BY <3>1, <3>2
  <2>3. ASSUME i > 1, NEW d \in 1 .. N, father(d) = i PROVE w[father(i)] <= w[d]
    <3>1. d \in 2 .. N /\ d # i /\ i \in 2 .. N
      <4>1. N \in Nat
        BY <1>1, <1>2
      <4>2. d = 2 * i \/ d = 2 * i + 1
        BY <2>3, <4>1, ChildOf
      <4> QED
        BY <2>1, <2>3, <4>1, <4>2
    <3>2. u[father(i)] <= u[i] /\ u[i] <= u[d] /\ father(i) \in 1 .. N
      BY <1>8, <2>3, <3>1
    <3>3. father(i) # i
      BY <1>1, <1>2, <3>1, FatherIn
    <3>4. u[father(i)] \in Int /\ u[i] \in Int /\ u[d] \in Int
      BY <1>1, <1>2, <1>6, <3>1, <3>2
    <3>5. w[father(i)] = u[father(i)] /\ w[d] = u[d]
      BY <1>7, <3>1, <3>2, <3>3
    <3> QED
      BY <3>2, <3>4, <3>5
  <2>4. Sinking(w, N, i)
    BY <2>2, <2>3 DEF Sinking, OverChildren
  <2>5. r = heapify(b, v, i)
    BY <1>4, <1>10
  <2>6. Sinking(Keys(b, v), N, i)
    BY <1>5, <2>4
  <2> QED
    BY <1>3, <2>1, <2>5, <2>6, HeapifyOrder
<1> QED
  BY <1>9, <1>10

-----------------------------------------------------------------------------
(* The clock.                                                              *)
LEMMA IntDiv ==
    ASSUME NEW a \in Int, NEW d \in Nat \ {0}
    PROVE  a \div d \in Int /\ a % d \in 0 .. d - 1 /\ a = (d * (a \div d)) + (a % d)
BY Z3

LEMMA IntDivIs ==
    ASSUME NEW d \in Nat \ {0}, NEW a \in Int, NEW q \in Int, NEW r \in 0 .. d - 1, a = (d * q) + r
    PROVE  a \div d = q /\ a % d = r
<1>1. PICK g, s : g = a \div d /\ s = a % d
  OBVIOUS
<1>2. g \in Int /\ s \in 0 .. d - 1 /\ a = (d * g) + s
  BY <1>1, IntDiv
<1>3. g = q
  <2>1. CASE g < q
    <3>1. d * (q - g) = s - r
      BY <1>2
    <3>2. d * (q - g) >= d
      BY <1>2, <2>1
    <3> QED
      BY <1>2, <3>1, <3>2
  <2>2. CASE q < g
    <3>1. d * (g - q) = r - s
      BY <1>2
    <3>2. d * (g - q) >= d
      BY <1>2, <2>2
    <3> QED
      BY <1>2, <3>1, <3>2
  <2> QED
    BY <1>2, <2>1, <2>2
<1> QED
  BY <1>1, <1>2, <1>3

(* Two times of one word of the clock, less than half a word apart.        *)
SameWord(a, b) ==
    a \div Word = b \div Word /\ 2 * (a - b) < Word /\ 2 * (b - a) <= Word

LEMMA DiffIs ==
    ASSUME NEW W \in Nat \ {0}, NEW a \in Int, NEW b \in Int, W = Word, 2 * (a - b) < W, 2 * (b - a) <= W
    PROVE  SignedDiff(a, b) = a - b
<1>1. PICK x \in Int : x = a - b
  OBVIOUS
<1>2. PICK d : d = x % W
  OBVIOUS
<1>3. SignedDiff(a, b) = IF 2 * d >= W THEN d - W ELSE d
  BY <1>1, <1>2 DEF SignedDiff
<1>4. CASE x >= 0
  <2>1. x \in 0 .. W - 1 /\ x = (W * 0) + x
    BY <1>1, <1>4
  <2>2. d = x
    BY <1>2, <2>1, IntDivIs
  <2> QED
    BY <1>1, <1>3, <2>2
<1>5. CASE x < 0
  <2>1. x + W \in 0 .. W - 1 /\ x = (W * (-1)) + (x + W)
    BY <1>1, <1>5
  <2>2. PICK y \in 0 .. W - 1 : y = x + W
    BY <2>1
  <2>3. x = (W * (-1)) + y
    BY <2>1, <2>2
  <2>4. d = y
    BY <1>2, <2>3, IntDivIs
  <2> QED
    BY <1>1, <1>3, <2>2, <2>4
<1> QED
  BY <1>4, <1>5

(* Then update_hwtimer compares them rightly.                              *)
LEMMA ExpiredIs ==
    ASSUME NEW a \in Int, NEW b \in Int, SameWord(a, b)
    PROVE  Expired(a, b) <=> a <= b
<1>1. PICK W \in Nat \ {0} : W = Word
  BY TimersAssumption
<1>2. PICK q, r, s : q = a \div W /\ r = a % W /\ s = b % W
  OBVIOUS
<1>3. q \in Int /\ r \in 0 .. W - 1 /\ s \in 0 .. W - 1 /\ a = (W * q) + r /\ b = (W * q) + s
  <2>1. b \div W = q
    BY <1>1, <1>2 DEF SameWord
  <2> QED
    BY <1>2, <2>1, IntDiv
<1>4. r - s = a - b /\ s - r = b - a
  BY <1>3
<1>5. 2 * (r - s) < W /\ 2 * (s - r) <= W
  BY <1>1, <1>4 DEF SameWord
<1>6. SignedDiff(r, s) = r - s
  BY <1>1, <1>3, <1>5, DiffIs
<1>7. SignedDiff(q, q) = 0
  <2>1. 2 * (q - q) < W /\ 2 * (q - q) <= W /\ q - q = 0
    BY <1>3
  <2> QED
    BY <1>1, <1>3, <2>1, DiffIs
<1>8. Expired(a, b) <=> SignedDiff(q, q) > 0 \/ (SignedDiff(q, q) = 0 /\ SignedDiff(r, s) <= 0)
  BY <1>1, <1>2 DEF Expired, SameWord
<1> QED
  BY <1>3, <1>4, <1>6, <1>7, <1>8

(* set_hwtimer, for a timer that lies ahead.                               *)
LEMMA HwAhead ==
    ASSUME TicksPer > 1, ticks \in Nat, NEW gap \in Nat, NEW next, 
           next = (IF gap < get_min_interval THEN get_min_interval
                   ELSE IF gap > get_max_interval THEN get_max_interval ELSE gap),
           NEW w, w = set_hwtimer(next)
    PROVE  w \in Nat /\ nsec(w) <= gap + Now + NsecPer
<1>1. PICK T \in Nat, N \in Nat \ {0} : T = TicksPer /\ N = NsecPer /\ T > 1
  BY TimersAssumption
<1>2. PICK t \in Nat : t = ticks
  OBVIOUS
<1>3. PICK lo \in Nat : lo = N \div T /\ lo \in 0 .. N - 1
  <2>1. PICK q, r : q = N \div T /\ r = N % T
    OBVIOUS
  <2>2. q \in Int /\ r \in 0 .. T - 1 /\ N = (T * q) + r
    BY <1>1, <2>1, IntDiv
  <2>3. q >= 0
    <3>1. CASE q <= -1
      <4>1. T * q <= -T
        BY <1>1, <2>2, <3>1
      <4> QED
        BY <1>1, <2>2, <4>1
    <3> QED
      BY <2>2, <3>1
  <2>4. q < N
    <3>1. CASE q >= N
      <4>1. T * q >= 2 * q
        BY <1>1, <2>3, <2>2
      <4> QED
        BY <1>1, <2>2, <3>1, <4>1
    <3> QED
      BY <1>1, <2>2, <3>1
  <2> QED
    BY <2>1, <2>2, <2>3, <2>4
<1>4. PICK hi \in Nat : hi = ((Word - 1) * N) \div T
  <2>1. PICK m \in Nat : m = (Word - 1) * N
    <3>1. PICK W \in Nat : W = Word - 1
      BY TimersAssumption
    <3>2. W * N \in Nat
      BY <1>1
    <3> QED
      BY <3>1, <3>2
  <2>2. m \div T \in Nat
    BY <1>1
  <2> QED
    BY <2>1, <2>2
<1>5. next = IF gap < lo THEN lo ELSE IF gap > hi THEN hi ELSE gap
  BY <1>1, <1>3, <1>4 DEF get_min_interval, get_max_interval
<1>6. next \in Nat /\ (next <= gap \/ next < N)
  BY <1>3, <1>4, <1>5
<1>7. PICK q, r : q = next \div N /\ r = next % N
  OBVIOUS
<1>8. q \in Int /\ r \in 0 .. N - 1 /\ next = (N * q) + r
  <2>1. next \in Int
    BY <1>6
  <2> QED
    BY <1>7, <2>1, IntDiv
<1>9. q >= 0
  <2>1. CASE q <= -1
    <3>1. N * q <= -N
      BY <1>1, <1>8, <2>1
    <3> QED
      BY <1>1, <1>6, <1>8, <3>1
  <2> QED
    BY <1>8, <2>1
<1>10. N * q <= gap
  <2>1. CASE next <= gap
    BY <1>1, <1>8, <2>1
  <2>2. CASE next < N
    <3>1. q = 0
      <4>1. CASE q >= 1
        <5>1. N * q >= N
          BY <1>1, <1>8, <4>1
        <5> QED
          BY <1>1, <1>8, <2>2, <5>1
      <4> QED
        BY <1>8, <1>9, <4>1
    <3> QED
      BY <1>1, <3>1
  <2> QED
    BY <1>6, <2>1, <2>2
<1>11. PICK f, s : f = t \div T /\ s = t % T
  OBVIOUS
<1>12. f \in Int /\ s \in 0 .. T - 1 /\ t = (T * f) + s
  BY <1>1, <1>11, IntDiv
<1>13. w = (t + (q * T)) + 1
  BY <1>1, <1>2, <1>7 DEF set_hwtimer
<1>14. PICK g \in Int : g = f + q
  BY <1>8, <1>12
<1>15. w = (T * g) + (s + 1)
  <2>1. T * g = (T * f) + (q * T)
    BY <1>1, <1>8, <1>12, <1>14
  <2> QED
    BY <1>1, <1>8, <1>12, <1>13, <2>1
<1>16. w \in Nat
  <2>1. q * T \in Nat
    BY <1>1, <1>8, <1>9
  <2> QED
    BY <1>2, <1>13, <2>1
<1>24. T \in Nat \ {0} /\ w \in Int
  BY <1>1, <1>16
<1>17. w \div T \in Int /\ w \div T <= g + 1
  <2>1. CASE s + 1 < T
    <3>1. s + 1 \in 0 .. T - 1
      BY <1>1, <1>12, <2>1
    <3>2. PICK e \in 0 .. T - 1 : e = s + 1
      BY <3>1
    <3>3. w = (T * g) + e
      BY <1>15, <3>2
    <3>4. w \div T = g
      BY <1>24, <3>3, IntDivIs
    <3> QED
      BY <3>4
  <2>2. CASE s + 1 = T
    <3>1. PICK c \in Int : c = g + 1
      OBVIOUS
    <3>2. w = (T * c) + 0 /\ 0 \in 0 .. T - 1
      BY <1>1, <1>15, <2>2, <3>1
    <3>3. w \div T = c
      BY <1>24, <3>2, IntDivIs
    <3> QED
      BY <3>1, <3>3
  <2> QED
    BY <1>1, <1>12, <2>1, <2>2
<1>18. PICK z \in Int : z = w \div T
  BY <1>17
<1>19. z * N <= (g + 1) * N
  BY <1>1, <1>17, <1>18
<1>20. (g + 1) * N = ((f * N) + (N * q)) + N
  BY <1>1, <1>8, <1>12, <1>14
<1>21. nsec(w) = z * N /\ Now = f * N
  BY <1>1, <1>2, <1>11, <1>18 DEF nsec, Now
<1>22. PICK zn \in Int, fn \in Int, nq \in Int, gn \in Int : zn = z * N /\ fn = f * N /\ nq = N * q /\ gn = (g + 1) * N
  BY <1>1, <1>8, <1>12
<1>23. zn <= (gap + fn) + N
  BY <1>1, <1>10, <1>19, <1>20, <1>22
<1> QED
  BY <1>1, <1>16, <1>21, <1>22, <1>23

-----------------------------------------------------------------------------
(* The order of timer_heap.                                                *)
KOrdered(kk) == Ordered(kk.heap, Values(kk.tm))

LEMMA ValuesOf ==
    ASSUME NEW tm \in [TimerIds -> TimerType]
    PROVE  Values(tm) \in [TimerIds -> Int] /\ \A i \in TimerIds : Values(tm)[i] = tm[i].value
<1>1. \A i \in TimerIds : tm[i].value \in Int
  BY DEF TimerType
<1> QED
  BY <1>1 DEF Values

LEMMA OrderSame ==
    ASSUME NEW h, NEW S, HeapOf(h, S), NEW v, NEW w, Ordered(h, v), \A x \in S : w[x] = v[x]
    PROVE  Ordered(h, w)
<1>1. PICK n \in Nat : n = Len(h)
  BY DEF HeapOf
<1>2. \A i \in 1 .. n : h[i] \in S
  BY <1>1 DEF HeapOf
<1>3. Keys(h, w) = Keys(h, v)
  BY <1>1, <1>2 DEF Keys
<1> QED
  BY <1>3 DEF Ordered

LEMMA RemoveOrder ==
    ASSUME NEW h, NEW S, HeapOf(h, S), NEW v \in [TimerIds -> Int], NEW e, Ordered(h, v), Len(h) <= 5,
           NEW r, r = HEAP_remove_element(h, v, e)
    PROVE  Ordered(r, v)
<1> DEFINE at == {i \in 1 .. Len(h) : h[i] = e}
<1>1. Len(h) \in Nat
  BY DEF HeapOf
<1>2. CASE at = {}
  BY <1>2 DEF HEAP_remove_element
<1>3. CASE at # {}
  <2>1. \E i \in at : \A j \in at : i <= j
    <3>1. at \in SUBSET Nat
      BY <1>1
    <3> QED
      BY <1>3, <3>1, LeastNat
  <2>2. PICK i : i = CHOOSE a \in at : \A j \in at : a <= j
    OBVIOUS
  <2>3. i \in 1 .. Len(h)
    BY <2>1, <2>2
  <2>4. r = Refill(h, v, i)
    BY <1>3, <2>2 DEF HEAP_remove_element
  <2> QED
    BY <2>3, <2>4, RefillOrder
<1> QED
  BY <1>2, <1>3

LEMMA RemoveMinOrder ==
    ASSUME NEW h, NEW S, HeapOf(h, S), NEW v \in [TimerIds -> Int], Ordered(h, v), h # <<>>,
           NEW r, r = HEAP_remove_min(h, v)
    PROVE  Ordered(r, v)
<1>1. 1 \in 1 .. Len(h)
  BY DEF HeapOf
<1>2. r = Refill(h, v, 1)
  BY DEF HEAP_remove_min
<1> QED
  BY <1>1, <1>2, RefillOrder

(* The first timer of the heap is the earliest.                            *)
LEMMA FirstEarliest ==
    ASSUME NEW h, NEW S, HeapOf(h, S), NEW v \in [TimerIds -> Int], Ordered(h, v), NEW x \in S
    PROVE  h # <<>> /\ HEAP_min(h) \in S /\ v[HEAP_min(h)] <= v[x]
<1>1. PICK n \in Nat : n = Len(h)
  BY DEF HeapOf
<1>2. PICK j \in 1 .. n : h[j] = x
  BY <1>1 DEF HeapOf
<1>3. PICK u : u = Keys(h, v)
  OBVIOUS
<1>4. \A i \in 1 .. n : h[i] \in S /\ h[i] \in TimerIds
  BY <1>1 DEF HeapOf
<1>5. u \in [1 .. n -> Int] /\ (\A i \in 1 .. n : u[i] = v[h[i]]) /\ InOrder(u, n)
  BY <1>1, <1>3, <1>4 DEF Keys, Ordered
<1>6. u[1] <= u[j] /\ 1 \in 1 .. n
  BY <1>5, RootLeast
<1>7. h # <<>>
  BY <1>1, <1>6
<1> QED
  BY <1>2, <1>4, <1>5, <1>6, <1>7 DEF HEAP_min

(* One timer that is not in the heap changes.                              *)
LEMMA PutOrder ==
    ASSUME NEW tm \in [TimerIds -> TimerType], NEW i \in TimerIds, NEW x \in TimerType,
           NEW h, NEW S, HeapOf(h, S), i \notin S, Ordered(h, Values(tm)), NEW r, r.heap = h, r.tm = Put(tm, i, x)
    PROVE  KOrdered(r)
<1>1. PICK y : y = Put(tm, i, x)
  OBVIOUS
<1>2. y \in [TimerIds -> TimerType] /\ \A j \in TimerIds : j # i => y[j] = tm[j]
  BY <1>1 DEF Put
<1>3. PICK v, w : v = Values(tm) /\ w = Values(y)
  OBVIOUS
<1>4. \A j \in TimerIds : v[j] = tm[j].value /\ w[j] = y[j].value
  BY <1>2, <1>3, ValuesOf
<1>5. \A j \in S : j \in TimerIds /\ j # i
  BY DEF HeapOf
<1>6. \A j \in S : w[j] = v[j]
  BY <1>2, <1>4, <1>5
<1>7. Ordered(h, w)
  BY <1>3, <1>6, OrderSame
<1> QED
  BY <1>1, <1>3, <1>7 DEF KOrdered

LEMMA EnheapOrder ==
    ASSUME NEW kk, kk \in KType, NEW S, HeapOf(kk.heap, S), NEW i \in TimerIds \ S, KOrdered(kk),
           NEW r, r = Enheap(kk, i)
    PROVE  KOrdered(r) /\ r.tm = kk.tm /\ r.asleep = kk.asleep
<1>1. PICK h, v : h = HEAP_insert(kk.heap, v, i, HEAP_MAX_NELEM) /\ v = Values(kk.tm)
  OBVIOUS
<1>2. v \in [TimerIds -> Int]
  BY <1>1, KindOf, ValuesOf
<1>3. Ordered(kk.heap, v)
  BY <1>1 DEF KOrdered
<1>4. PICK g : g = kk.heap
  OBVIOUS
<1>5. HeapOf(g, S) /\ Ordered(g, v) /\ h = HEAP_insert(g, v, i, HEAP_MAX_NELEM)
  BY <1>1, <1>3, <1>4
<1>6. Ordered(h, v)
  BY <1>2, <1>5, InsertOrder
<1>7. PICK f \in BOOLEAN : f = (kk.fault \/ Len(kk.heap) + 1 = HEAP_MAX_NELEM)
  OBVIOUS
<1>8. r = [kk EXCEPT !.heap = h, !.fault = f]
  BY <1>1, <1>7 DEF Enheap
<1>9. r.tm = kk.tm /\ r.heap = h /\ r.asleep = kk.asleep
  BY <1>8 DEF KType
<1> QED
  BY <1>1, <1>6, <1>9 DEF KOrdered

(* At most five timers are in the heap.                                    *)
Short(kk) == Len(kk.heap) <= 5

LEMMA ShortHeap ==
    ASSUME NEW kk, Short(kk), kk \in KType, HeapOf(kk.heap, Armed(kk.tm)), KOrdered(kk), NEW i,
           NEW h, h = Unheap(kk, i)
    PROVE  Ordered(h, Values(kk.tm))
<1>1. Len(kk.heap) <= 5
  BY DEF Short
<1>2. PICK v, g : v = Values(kk.tm) /\ g = kk.heap
  OBVIOUS
<1>3. v \in [TimerIds -> Int]
  BY <1>2, KindOf, ValuesOf
<1>4. h = HEAP_remove_element(g, v, i)
  BY <1>2 DEF Unheap
<1>5. HeapOf(g, Armed(kk.tm)) /\ Ordered(g, v) /\ Len(g) <= 5
  BY <1>1, <1>2 DEF KOrdered
<1>6. Ordered(h, v)
  BY <1>3, <1>4, <1>5, RemoveOrder
<1> QED
  BY <1>2, <1>6

LEMMA FreeOrder ==
    ASSUME NEW kk, Short(kk), kk \in KType, HeapOf(kk.heap, Armed(kk.tm)), KOrdered(kk),
           NEW i \in TimerIds, NEW r, r = free_ktimer(kk, i)
    PROVE  KOrdered(r)
<1>1. PICK x, h : x = FreedTimer(kk.tm[i]) /\ h = Unheap(kk, i)
  OBVIOUS
<1>2. HeapOf(h, Armed(kk.tm) \ {i}) /\ h \in Seq(TimerIds)
  <2>1. HeapOf(h, Armed(kk.tm) \ {i})
    BY <1>1, RemoveHeap DEF Unheap
  <2> QED
    BY <2>1 DEF HeapOf
<1>3. x \in TimerType /\ r.tm = Put(kk.tm, i, x)
  BY <1>1, FreeTimer
<1>4. r = SetKernel(kk, h, Put(kk.tm, i, x))
  BY <1>1, FreeShape
<1>5. r.heap = h
  BY <1>2, <1>3, <1>4, SetTimer
<1>6. Ordered(h, Values(kk.tm))
  BY <1>1, ShortHeap
<1>7. kk.tm \in [TimerIds -> TimerType]
  BY KindOf
<1>8. PICK S : S = Armed(kk.tm) \ {i}
  OBVIOUS
<1>9. i \notin S /\ HeapOf(h, S)
  BY <1>2, <1>8
<1> QED
  BY <1>3, <1>5, <1>6, <1>7, <1>9, PutOrder

Unheaped(kk, i) == IF kk.tm[i].armed THEN Unheap(kk, i) ELSE kk.heap

LEMMA DisarmLeaves ==
    ASSUME NEW kk, kk \in KType, HeapOf(kk.heap, Armed(kk.tm)), NEW i \in TimerIds, NEW abs \in Flags,
           NEW r, r = Disarmed(kk, i, abs), NEW x, x = DisarmedTimer(kk.tm[i], abs),
           NEW h, h = Unheaped(kk, i), NEW S, S = Armed(kk.tm) \ {i}
    PROVE  /\ x \in TimerType /\ r \in KType /\ r.tm = Put(kk.tm, i, x) /\ r.heap = h
           /\ r.asleep = kk.asleep /\ HeapOf(h, S)
<1>1. kk.tm[i] \in TimerType
  BY KindOf
<1>2. HeapOf(h, S)
  <2>1. CASE kk.tm[i].armed
    <3>1. h = Unheap(kk, i)
      BY <2>1 DEF Unheaped
    <3> QED
      BY <3>1, RemoveHeap DEF Unheap
  <2>2. CASE ~kk.tm[i].armed
    <3>1. S = Armed(kk.tm)
      BY <2>2 DEF Armed
    <3>2. h = kk.heap
      BY <2>2 DEF Unheaped
    <3> QED
      BY <3>1, <3>2
  <2> QED
    BY <2>1, <2>2
<1>3. r = SetKernel(kk, h, Put(kk.tm, i, x))
  BY DisarmShape DEF Unheaped
<1>4. x \in TimerType
  BY <1>1 DEF TimerType, DisarmedTimer, Flags
<1>5. h \in Seq(TimerIds)
  BY <1>2 DEF HeapOf
<1>6. r \in KType /\ r.tm = Put(kk.tm, i, x) /\ r.heap = h /\ r.asleep = kk.asleep
  BY <1>3, <1>4, <1>5, SetTimer
<1> QED
  BY <1>2, <1>4, <1>6

LEMMA DisarmOrder ==
    ASSUME NEW kk, Short(kk), kk \in KType, HeapOf(kk.heap, Armed(kk.tm)), KOrdered(kk),
           NEW i \in TimerIds, NEW abs \in Flags, NEW r, r = Disarmed(kk, i, abs)
    PROVE  KOrdered(r)
<1>1. PICK x, h, S : x = DisarmedTimer(kk.tm[i], abs) /\ h = Unheaped(kk, i) /\ S = Armed(kk.tm) \ {i}
  OBVIOUS
<1>2. /\ x \in TimerType /\ r \in KType /\ r.tm = Put(kk.tm, i, x) /\ r.heap = h
      /\ r.asleep = kk.asleep /\ HeapOf(h, S)
  BY <1>1, DisarmLeaves
<1>3. kk.tm \in [TimerIds -> TimerType] /\ i \notin S
  BY <1>1, KindOf
<1>4. Ordered(h, Values(kk.tm))
  <2>1. Ordered(Unheap(kk, i), Values(kk.tm))
    BY ShortHeap
  <2>2. Ordered(kk.heap, Values(kk.tm))
    BY DEF KOrdered
  <2> QED
    BY <1>1, <2>1, <2>2 DEF Unheaped
<1> QED
  BY <1>2, <1>3, <1>4, PutOrder

LEMMA ArmOrder ==
    ASSUME NEW kk, kk \in KType, HeapOf(kk.heap, Armed(kk.tm)), KOrdered(kk), NEW i \in TimerIds,
           kk.tm[i].use, ~kk.tm[i].armed, NEW value \in Nat, NEW p \in Nat, ticks \in Nat,
           NEW r, r = arm_timer(kk, i, value, p)
    PROVE  KOrdered(r)
<1>1. kk.tm[i] \in TimerType /\ kk.heap \in Seq(TimerIds) /\ kk.tm \in [TimerIds -> TimerType]
  BY KindOf
<1>2. PICK v \in {value, value + Now} :
        r = Enheap(SetKernel(kk, kk.heap, Put(kk.tm, i, ArmedTimer(kk.tm[i], v, p))), i)
  BY ArmShape
<1>3. v \in Int
  BY NowInt
<1>4. PICK x : x = ArmedTimer(kk.tm[i], v, p)
  OBVIOUS
<1>5. x \in TimerType
  BY <1>1, <1>3, <1>4 DEF TimerType, ArmedTimer
<1>6. PICK k1 : k1 = SetKernel(kk, kk.heap, Put(kk.tm, i, x))
  OBVIOUS
<1>7. k1 \in KType /\ k1.tm = Put(kk.tm, i, x) /\ k1.heap = kk.heap
  BY <1>1, <1>5, <1>6, SetTimer
<1>8. PICK S : S = Armed(kk.tm)
  OBVIOUS
<1>9. i \in TimerIds \ S /\ HeapOf(kk.heap, S)
  BY <1>8 DEF Armed
<1>10. Ordered(kk.heap, Values(kk.tm))
  BY DEF KOrdered
<1>11. KOrdered(k1)
  BY <1>1, <1>5, <1>7, <1>9, <1>10, PutOrder
<1>12. r = Enheap(k1, i) /\ HeapOf(k1.heap, S)
  BY <1>2, <1>4, <1>6, <1>7, <1>9
<1> QED
  BY <1>7, <1>9, <1>11, <1>12, EnheapOrder

(* One round of update_hwtimer: the timer that expires is the only one     *)
(* that changes.                                                           *)
LEMMA ExpireOrder ==
    ASSUME ticks \in Nat, NEW kk, kk \in KType, HeapOf(kk.heap, Armed(kk.tm)), KOrdered(kk), kk.heap # <<>>,
           NEW i, i = HEAP_min(kk.heap), NEW r, r = Expire(kk)
    PROVE  /\ KOrdered(r) /\ i \in Armed(kk.tm)
           /\ r.asleep = WakesUp(kk, kk.tm[i]) /\ \A j \in TimerIds : j # i => r.tm[j] = kk.tm[j]
<1>1. kk.tm \in [TimerIds -> TimerType] /\ kk.asleep \in SUBSET Threads
  BY KindOf
<1>2. PICK g, v, h : g = kk.heap /\ v = Values(kk.tm) /\ h = HEAP_remove_min(g, v)
  OBVIOUS
<1>3. PICK S : S = Armed(kk.tm) \ {i}
  OBVIOUS
<1>4. i \in Armed(kk.tm) /\ HeapOf(h, S) /\ h \in Seq(TimerIds) /\ i \notin S
  <2>1. i \in Armed(kk.tm) /\ HeapOf(h, Armed(kk.tm) \ {i})
    BY <1>2, RemoveMinHeap
  <2> QED
    BY <1>3, <2>1 DEF HeapOf
<1>5. i \in TimerIds
  BY <1>4 DEF Armed
<1>6. v \in [TimerIds -> Int]
  BY <1>1, <1>2, ValuesOf
<1>7. Ordered(h, v)
  <2>1. HeapOf(g, Armed(kk.tm)) /\ Ordered(g, v) /\ g # <<>>
    BY <1>2 DEF KOrdered
  <2> QED
    BY <1>2, <1>6, <2>1, RemoveMinOrder
<1>8. PICK x, a : x = kk.tm[i] /\ a = WakesUp(kk, x)
  OBVIOUS
<1>9. x \in TimerType /\ a \in SUBSET Threads
  BY <1>1, <1>5, <1>8 DEF WakesUp
<1>10. PICK ks : ks = SetAsleep(kk, a)
  OBVIOUS
<1>11. ks \in KType /\ ks.tm = kk.tm /\ ks.asleep = a
  BY <1>9, <1>10 DEF KType, SetAsleep
<1>12. \A y \in TimerType : \A b : b = SetKernel(ks, h, Put(ks.tm, i, y)) =>
         b \in KType /\ b.heap = h /\ b.tm = Put(kk.tm, i, y) /\ b.asleep = a /\ KOrdered(b)
  <2> SUFFICES ASSUME NEW y \in TimerType, NEW b, b = SetKernel(ks, h, Put(ks.tm, i, y))
               PROVE  b \in KType /\ b.heap = h /\ b.tm = Put(kk.tm, i, y) /\ b.asleep = a /\ KOrdered(b)
    OBVIOUS
  <2>1. b \in KType /\ b.heap = h /\ b.tm = Put(ks.tm, i, y) /\ b.asleep = ks.asleep
    BY <1>4, <1>5, <1>11, SetTimer
  <2>2. b.tm = Put(kk.tm, i, y)
    BY <1>11, <2>1
  <2>3. KOrdered(b)
    BY <1>1, <1>2, <1>4, <1>5, <1>7, <2>1, <2>2, PutOrder
  <2> QED
    BY <1>11, <2>1, <2>2, <2>3
<1>13. \E y \in TimerType : r.tm = Put(kk.tm, i, y) /\ r.asleep = a /\ KOrdered(r)
  <2>1. CASE ~GoesOn(x)
    <3>1. PICK y : y = Stopped(x)
      OBVIOUS
    <3>2. y \in TimerType
      BY <1>9, <3>1 DEF Stopped, TimerType
    <3>3. r = SetKernel(ks, h, Put(ks.tm, i, y))
      BY <1>2, <1>5, <1>8, <1>10, <1>11, <2>1, <3>1, ExpireShape
    <3> QED
      BY <1>12, <3>2, <3>3
  <2>2. CASE GoesOn(x)
    <3>1. PICK z : z = x.interval + Now
      OBVIOUS
    <3>2. PICK y : y = Rearmed(x, z)
      OBVIOUS
    <3>3. z \in Int
      <4>1. x.interval \in Nat
        BY <1>9 DEF TimerType
      <4> QED
        BY <3>1, <4>1, NowInt
    <3>4. y \in TimerType
      BY <1>9, <3>2, <3>3 DEF Rearmed, TimerType
    <3>5. PICK k1 : k1 = SetKernel(ks, h, Put(ks.tm, i, y))
      OBVIOUS
    <3>6. r = Enheap(k1, i)
      BY <1>2, <1>5, <1>8, <1>10, <1>11, <2>2, <3>1, <3>2, <3>5, ExpireShape
    <3>7. k1 \in KType /\ k1.heap = h /\ k1.tm = Put(kk.tm, i, y) /\ k1.asleep = a /\ KOrdered(k1)
      BY <1>12, <3>4, <3>5
    <3>8. i \in TimerIds \ S /\ HeapOf(k1.heap, S)
      BY <1>4, <1>5, <3>7
    <3>9. KOrdered(r) /\ r.tm = k1.tm /\ r.asleep = k1.asleep
      BY <3>6, <3>7, <3>8, EnheapOrder
    <3> QED
      BY <3>4, <3>7, <3>9
  <2> QED
    BY <2>1, <2>2
<1>14. PICK y \in TimerType : r.tm = Put(kk.tm, i, y) /\ r.asleep = a /\ KOrdered(r)
  BY <1>13
<1>15. \A j \in TimerIds : j # i => r.tm[j] = kk.tm[j]
  BY <1>1, <1>14 DEF Put
<1> QED
  BY <1>4, <1>8, <1>14, <1>15

(* What update_hwtimer does to the threads that sleep: it wakes those      *)
(* whose time has come and leaves the timers of the others alone.          *)
InWordK(kk) == \A i \in TimerIds : kk.tm[i].armed => SameWord(kk.tm[i].value, Now)

Woke(kk, k0) ==
    /\ Kept(kk, k0) /\ KOrdered(kk)
    /\ \A t \in kk.asleep : kk.tm[slp[t]] = k0.tm[slp[t]]
    /\ \A t \in k0.asleep : t \notin kk.asleep => k0.tm[slp[t]].value <= Now

LEMMA ExpireWoke ==
    ASSUME ~SignalWakes, ticks \in Nat, NEW kk, NEW k0, KSound(k0, slp), InWordK(k0), Woke(kk, k0), Due(kk)
    PROVE  Woke(Expire(kk), k0)
<1>1. PICK r, i, x : r = Expire(kk) /\ i = HEAP_min(kk.heap) /\ x = kk.tm[i]
  OBVIOUS
<1>2. Kept(kk, k0) /\ KSound(kk, slp) /\ kk \in KType /\ HeapOf(kk.heap, Armed(kk.tm)) /\ KOrdered(kk)
  BY DEF Woke, Kept, KSound
<1>3. kk.heap # <<>> /\ Expired(x.value, Now)
  BY <1>1 DEF Due
<1>4. Kept(r, k0)
  BY <1>1, <1>2, <1>3, ExpireKept
<1>5. /\ KOrdered(r) /\ i \in Armed(kk.tm)
      /\ r.asleep = WakesUp(kk, kk.tm[i]) /\ \A j \in TimerIds : j # i => r.tm[j] = kk.tm[j]
  BY <1>1, <1>2, <1>3, ExpireOrder
<1>6. i \in TimerIds /\ x.armed /\ x \in TimerType /\ TimerOK(i, x, kk.asleep, slp)
  <2>1. i \in TimerIds /\ x.armed
    BY <1>1, <1>5 DEF Armed
  <2>2. x \in TimerType
    BY <1>1, <1>2, <2>1, KindOf
  <2> QED
    BY <1>1, <1>2, <2>1, <2>2 DEF KSound
<1>7. /\ x.act = "wakeup" => r.asleep = kk.asleep \ {x.owner} /\ x.owner \in kk.asleep /\ slp[x.owner] = i
      /\ x.act # "wakeup" => r.asleep = kk.asleep
  BY <1>1, <1>5, <1>6 DEF WakesUp, TimerOK
<1>8. \A t \in kk.asleep : t \in Threads /\ slp[t] \in TimerIds /\ OwnTimer(kk.tm[slp[t]], t)
  BY <1>2, KindOf DEF KSound
<1>9. ASSUME NEW t \in r.asleep PROVE r.tm[slp[t]] = k0.tm[slp[t]]
  <2>1. t \in kk.asleep
    BY <1>7, <1>9
  <2>2. slp[t] # i
    <3>1. CASE slp[t] = i
      <4>1. x.act = "wakeup" /\ x.owner = t
        BY <1>1, <1>8, <2>1, <3>1 DEF OwnTimer
      <4> QED
        BY <1>7, <1>9, <4>1
    <3> QED
      BY <3>1
  <2>3. kk.tm[slp[t]] = k0.tm[slp[t]]
    BY <2>1 DEF Woke
  <2> QED
    BY <1>5, <1>8, <2>1, <2>2, <2>3
<1>10. ASSUME NEW t \in k0.asleep, t \notin r.asleep PROVE k0.tm[slp[t]].value <= Now
  <2>1. CASE t \notin kk.asleep
    BY <2>1 DEF Woke
  <2>2. CASE t \in kk.asleep
    <3>1. x.act = "wakeup" /\ t = x.owner /\ slp[t] = i
      BY <1>7, <1>10, <2>2
    <3>2. k0.tm[i] = x
      BY <1>1, <2>2, <3>1 DEF Woke
    <3>3. SameWord(x.value, Now)
      BY <1>6, <3>2 DEF InWordK
    <3>4. x.value \in Int /\ Now \in Int
      BY <1>6, NowInt DEF TimerType
    <3>5. x.value <= Now
      BY <1>3, <3>3, <3>4, ExpiredIs
    <3> QED
      BY <3>1, <3>2, <3>5
  <2> QED
    BY <2>1, <2>2
<1>11. Woke(r, k0)
  BY <1>4, <1>5, <1>9, <1>10 DEF Woke
<1> QED
  BY <1>1, <1>11

LEMMA ExpireAllWoke ==
    ASSUME ~SignalWakes, ticks \in Nat, NEW k0, KSound(k0, slp), KOrdered(k0), InWordK(k0),
           NEW r, r = ExpireAll(k0)
    PROVE  Woke(r, k0) /\ (~r.fault => ~Due(r))
<1> DEFINE T == {kk \in KType : Woke(kk, k0)}
<1>1. k0 \in T
  BY DEF Woke, Kept, KSound
<1>2. ASSUME NEW kk \in T, Due(kk) PROVE Expire(kk) \in T
  <2>1. Woke(Expire(kk), k0)
    BY <1>2, ExpireWoke
  <2>2. Expire(kk) \in KType
    BY <2>1 DEF Woke, Kept, KSound
  <2> QED
    BY <2>1, <2>2
<1>3. \A kk \in T : kk \in KType
  OBVIOUS
<1>4. PICK last \in T : Ends(r, last)
  <2> HIDE DEF T
  <2> QED
    BY <1>1, <1>2, <1>3, ExpireLoop
<1>5. Woke(last, k0)
  OBVIOUS
<1>6. /\ r.tm = last.tm /\ r.heap = last.heap /\ r.asleep = last.asleep /\ r \in KType
      /\ (Due(last) => r.fault)
  BY <1>4 DEF Ends
<1>7. Woke(r, k0)
  BY <1>5, <1>6 DEF Woke, Kept, KSound, KOrdered
<1>8. Due(r) <=> Due(last)
  BY <1>6 DEF Due
<1> QED
  BY <1>6, <1>7, <1>8

-----------------------------------------------------------------------------
(* The hardware timer is set for the first timer.                          *)
Cover(kk, w) ==
    kk.heap = <<>> \/ (w \in Nat /\ nsec(w) <= kk.tm[HEAP_min(kk.heap)].value + NsecPer)
Covered(kk, w, td, c) == Cover(kk, w) \/ (c \in Threads /\ td[c] # Done)

LEMMA NsecInt ==
    ASSUME NEW w \in Nat
    PROVE  nsec(w) \in Int
<1>1. TicksPer \in Nat \ {0} /\ NsecPer \in Nat
  BY TimersAssumption
<1>2. PICK q \in Int : q = w \div TicksPer
  BY <1>1
<1>3. q * NsecPer \in Int
  BY <1>1
<1> QED
  BY <1>2, <1>3 DEF nsec

(* It still is when timers leave the heap.                                 *)
LEMMA LaterCovers ==
    ASSUME NEW kk, kk \in KType, HeapOf(kk.heap, Armed(kk.tm)), KOrdered(kk), NEW w, Cover(kk, w),
           NEW r, r \in KType, NEW S, HeapOf(r.heap, S), S \subseteq Armed(kk.tm),
           \A j \in S : r.tm[j].value = kk.tm[j].value
    PROVE  Cover(r, w)
<1> SUFFICES ASSUME r.heap # <<>> PROVE w \in Nat /\ nsec(w) <= r.tm[HEAP_min(r.heap)].value + NsecPer
  BY DEF Cover
<1>1. PICK j, v, g : j = HEAP_min(r.heap) /\ v = Values(kk.tm) /\ g = kk.heap
  OBVIOUS
<1>2. j \in S /\ j \in Armed(kk.tm) /\ j \in TimerIds
  <2>1. 1 \in 1 .. Len(r.heap)
    BY DEF HeapOf
  <2>2. j \in S
    BY <1>1, <2>1 DEF HeapOf, HEAP_min
  <2> QED
    BY <2>2 DEF Armed
<1>3. kk.tm \in [TimerIds -> TimerType]
  BY KindOf
<1>4. v \in [TimerIds -> Int] /\ \A m \in TimerIds : v[m] = kk.tm[m].value
  BY <1>1, <1>3, ValuesOf
<1>5. HeapOf(g, Armed(kk.tm)) /\ Ordered(g, v)
  BY <1>1 DEF KOrdered
<1>6. g # <<>> /\ HEAP_min(g) \in Armed(kk.tm) /\ v[HEAP_min(g)] <= v[j]
  BY <1>2, <1>4, <1>5, FirstEarliest
<1>7. w \in Nat /\ nsec(w) <= v[HEAP_min(g)] + NsecPer
  <2>1. HEAP_min(g) \in TimerIds
    BY <1>6 DEF Armed
  <2> QED
    BY <1>1, <1>4, <1>6, <2>1 DEF Cover
<1>8. nsec(w) \in Int /\ NsecPer \in Int /\ v[HEAP_min(g)] \in Int /\ v[j] \in Int
  <2>1. HEAP_min(g) \in TimerIds
    BY <1>6 DEF Armed
  <2> QED
    BY <1>2, <1>4, <1>7, <2>1, NsecInt, TimersAssumption
<1>9. r.tm[j].value = v[j]
  BY <1>2, <1>4
<1> QED
  BY <1>1, <1>6, <1>7, <1>8, <1>9

(* What a system call leaves behind that takes a timer out of the heap or  *)
(* changes one that is not in it.                                          *)
LEMMA PutCovers ==
    ASSUME NEW kk, kk \in KType, HeapOf(kk.heap, Armed(kk.tm)), KOrdered(kk), NEW w, Cover(kk, w),
           NEW i \in TimerIds, NEW x \in TimerType, NEW r, r \in KType, r.tm = Put(kk.tm, i, x),
           HeapOf(r.heap, Armed(kk.tm) \ {i})
    PROVE  Cover(r, w)
<1>1. PICK S : S = Armed(kk.tm) \ {i}
  OBVIOUS
<1>2. HeapOf(r.heap, S) /\ S \subseteq Armed(kk.tm)
  BY <1>1
<1>3. kk.tm \in [TimerIds -> TimerType]
  BY KindOf
<1>4. \A j \in S : r.tm[j].value = kk.tm[j].value
  BY <1>1, <1>3 DEF Put, Armed
<1> QED
  BY <1>2, <1>4, LaterCovers

LEMMA AllocCovers ==
    ASSUME NEW kk, NEW sl, KSound(kk, sl), KOrdered(kk), NEW w, NEW owner \in Threads,
           NEW act \in {"wakeup", "kill"}, NEW r, r = alloc_ktimer(kk, owner, act), ~r.fault
    PROVE  KOrdered(r) /\ (Cover(kk, w) => Cover(r, w))
<1>1. PICK i, x : i = alloc_index(kk.tm) /\ x = NewTimer(owner, act)
  OBVIOUS
<1>2. kk \in KType /\ HeapOf(kk.heap, Armed(kk.tm)) /\ kk.tm \in [TimerIds -> TimerType]
  BY KindOf DEF KSound
<1>3. /\ i \in TimerIds /\ ~kk.tm[i].use /\ r \in KType /\ r.heap = kk.heap
      /\ r.tm = Put(kk.tm, i, x) /\ x \in TimerType
  BY <1>1, <1>2, AllocTimer
<1>4. i \notin Armed(kk.tm)
  BY <1>3 DEF KSound, TimerOK, Armed
<1>5. Armed(kk.tm) \ {i} = Armed(kk.tm)
  BY <1>4
<1>6. ASSUME Cover(kk, w) PROVE Cover(r, w)
  BY <1>2, <1>3, <1>5, <1>6, PutCovers
<1>7. Ordered(kk.heap, Values(kk.tm))
  BY DEF KOrdered
<1>8. KOrdered(r)
  BY <1>2, <1>3, <1>4, <1>7, PutOrder
<1> QED
  BY <1>6, <1>8

LEMMA FreeCovers ==
    ASSUME NEW kk, Short(kk), NEW sl, KSound(kk, sl), KOrdered(kk), NEW w,
           NEW i \in TimerIds, NEW r, r = free_ktimer(kk, i)
    PROVE  KOrdered(r) /\ (Cover(kk, w) => Cover(r, w)) /\ r.asleep = kk.asleep
<1>1. PICK x : x = FreedTimer(kk.tm[i])
  OBVIOUS
<1>2. kk \in KType /\ HeapOf(kk.heap, Armed(kk.tm))
  BY DEF KSound
<1>3. /\ x \in TimerType /\ r \in KType /\ r.tm = Put(kk.tm, i, x) /\ r.asleep = kk.asleep
      /\ HeapOf(r.heap, Armed(kk.tm) \ {i})
  BY <1>1, <1>2, FreeTimer
<1>4. ASSUME Cover(kk, w) PROVE Cover(r, w)
  BY <1>2, <1>3, <1>4, PutCovers
<1>5. KOrdered(r)
  BY <1>2, FreeOrder
<1> QED
  BY <1>3, <1>4, <1>5

LEMMA DisarmCovers ==
    ASSUME NEW kk, Short(kk), NEW sl, KSound(kk, sl), KOrdered(kk), NEW w,
           NEW i \in TimerIds, NEW abs \in Flags, NEW r, r = Disarmed(kk, i, abs)
    PROVE  KOrdered(r) /\ (Cover(kk, w) => Cover(r, w)) /\ r.asleep = kk.asleep
<1>1. PICK x, h, S : x = DisarmedTimer(kk.tm[i], abs) /\ h = Unheaped(kk, i) /\ S = Armed(kk.tm) \ {i}
  OBVIOUS
<1>2. kk \in KType /\ HeapOf(kk.heap, Armed(kk.tm))
  BY DEF KSound
<1>3. /\ x \in TimerType /\ r \in KType /\ r.tm = Put(kk.tm, i, x) /\ r.heap = h /\ r.asleep = kk.asleep
      /\ HeapOf(h, S)
  BY <1>1, <1>2, DisarmLeaves
<1>4. ASSUME Cover(kk, w) PROVE Cover(r, w)
  <2>1. HeapOf(r.heap, Armed(kk.tm) \ {i})
    BY <1>1, <1>3
  <2> QED
    BY <1>2, <1>3, <1>4, <2>1, PutCovers
<1>5. KOrdered(r)
  BY <1>2, DisarmOrder
<1> QED
  BY <1>3, <1>4, <1>5

(* update_hwtimer sets the hardware for the first timer that is left.      *)
LEMMA NotYet ==
    ASSUME ticks \in Nat, NEW r, KSound(r, slp), InWordK(r), ~Due(r), r.heap # <<>>,
           NEW j, j = HEAP_min(r.heap)
    PROVE  /\ j \in TimerIds /\ r.tm[j].value \in Int /\ r.tm[j].value > Now
           /\ 2 * (r.tm[j].value - Now) < Word
<1>1. r \in KType /\ HeapOf(r.heap, Armed(r.tm))
  BY DEF KSound
<1>2. j \in TimerIds /\ r.tm[j].armed
  <2>1. 1 \in 1 .. Len(r.heap)
    BY <1>1 DEF HeapOf
  <2>2. j \in Armed(r.tm)
    BY <1>1, <2>1 DEF HeapOf, HEAP_min
  <2> QED
    BY <2>2 DEF Armed
<1>3. r.tm[j] \in TimerType
  BY <1>1, <1>2, KindOf
<1>4. PICK a : a = r.tm[j].value
  OBVIOUS
<1>5. a \in Int /\ Now \in Int
  BY <1>3, <1>4, NowInt DEF TimerType
<1>6. SameWord(a, Now)
  BY <1>2, <1>4 DEF InWordK
<1>7. ~Expired(a, Now)
  BY <1>4 DEF Due
<1>8. a > Now
  BY <1>5, <1>6, <1>7, ExpiredIs
<1>9. 2 * (a - Now) < Word
  BY <1>6 DEF SameWord
<1> QED
  BY <1>2, <1>4, <1>5, <1>8, <1>9

LEMMA GapIs ==
    ASSUME NEW g \in Nat, 2 * g < Word
    PROVE  g % (Word * Word) = g
<1>1. PICK W \in Nat \ {0} : W = Word
  BY TimersAssumption
<1>2. W * W \in Nat \ {0} /\ W * W >= W
  BY <1>1
<1>3. PICK D \in Nat \ {0} : D = W * W /\ D >= W
  BY <1>2
<1>4. g \in 0 .. D - 1 /\ g = (D * 0) + g
  BY <1>1, <1>3
<1>5. g % D = g
  BY <1>3, <1>4, IntDivIs
<1> QED
  BY <1>1, <1>3, <1>5

LEMMA UpdateWoke ==
    ASSUME ~SignalWakes, ticks \in Nat, KSound(k, slp), KOrdered(k), InWordK(k),
           NEW off, update_hwtimer(off), ~k'.fault, NEW r, r = k'
    PROVE  Woke(r, k) /\ ~Due(r)
<1>1. r = ExpireAll(k)
  <2>1. r = ExpireAll(k) \/ r = [k EXCEPT !.fault = TRUE]
    BY DEF update_hwtimer
  <2>2. k \in KType
    BY DEF KSound
  <2>3. [k EXCEPT !.fault = TRUE].fault = TRUE
    BY <2>2 DEF KType
  <2> QED
    BY <2>1, <2>3
<1> QED
  BY <1>1, ExpireAllWoke

LEMMA UpdateCovers ==
    ASSUME TicksPer > 1, ticks \in Nat, NEW off, update_hwtimer(off), NEW r, r = k', Woke(r, k),
           ~Due(r), InWordK(r), NEW w, w = hw'
    PROVE  Cover(r, w)
<1>2. ~Due(r)
  OBVIOUS
<1>3. KSound(r, slp)
  BY DEF Woke, Kept
<1>4. CASE r.heap = <<>>
  BY <1>2, <1>4 DEF Cover
<1>5. CASE r.heap # <<>>
  <2>1. PICK j : j = HEAP_min(r.heap)
    OBVIOUS
  <2>2. PICK a : a = r.tm[j].value
    OBVIOUS
  <2>3. a \in Int /\ a > Now /\ 2 * (a - Now) < Word
    BY <1>2, <1>3, <1>5, <2>1, <2>2, NotYet
  <2>4. PICK gap \in Nat : gap = a - Now /\ 2 * gap < Word
    BY <2>3, NowInt
  <2>5. (a - Now) % (Word * Word) = gap
    BY <2>4, GapIs
  <2>6. PICK next : next = NextTime(r)
    OBVIOUS
  <2>7. next = (IF gap < get_min_interval THEN get_min_interval
                ELSE IF gap > get_max_interval THEN get_max_interval ELSE gap)
    BY <2>1, <2>2, <2>5, <2>6 DEF NextTime
  <2>8. w = set_hwtimer(next)
    BY <1>5, <2>6 DEF update_hwtimer
  <2>9. w \in Nat /\ nsec(w) <= gap + Now + NsecPer
    BY <2>7, <2>8, HwAhead
  <2>10. gap + Now = a
    BY <2>3, <2>4, NowInt
  <2> QED
    BY <1>2, <2>1, <2>2, <2>9, <2>10 DEF Cover
<1> QED
  BY <1>4, <1>5

-----------------------------------------------------------------------------
(* The expiry times in timer_array are of the clock's present word, less   *)
(* than half a word away from now, and at most five timers are in the heap.*)
InWord == ~k.fault => InWordK(k)
Few == ~k.fault => Short(k)

(* Under both, timer_heap is ordered, and the hardware timer is set for    *)
(* its first timer unless the running thread is about to do so.            *)
OrderInv == ~k.fault => KOrdered(k)
CoverInv == ~k.fault => Covered(k, hw, todo, cur)

(* What a step does for these.                                             *)
Stays ==
    /\ KOrdered(k')
    /\ TicksPer > 1 /\ Covered(k, hw, todo, cur) => Covered(k', hw', todo', cur')

LEMMA FromReady ==
    ASSUME Ready, NEW r, r = k', NEW w, w = hw, hw' = hw, KOrdered(r), Cover(k, w) => Cover(r, w)
    PROVE  Stays
<1>1. cur \in Threads /\ todo[cur] = Done
  BY DEF Ready, InCall
<1>2. Covered(k, hw, todo, cur) => Cover(k, w)
  BY <1>1 DEF Covered
<1>3. Cover(r, w) => Covered(k', hw', todo', cur')
  BY DEF Covered
<1> QED
  BY <1>2, <1>3 DEF Stays

LEMMA OrderCreate == ASSUME Goes, KOrdered(k), NEW t \in Threads, ThreadCreate(t) PROVE Stays
<1>1. PICK r, w : r = k' /\ w = hw
  OBVIOUS
<1>2. KSound(k, slp) /\ ~r.fault
  BY <1>1 DEF Goes, Sound
<1>3. r = alloc_ktimer(k, t, "wakeup") /\ Ready /\ hw' = hw
  BY <1>1 DEF ThreadCreate
<1>4. KOrdered(r) /\ (Cover(k, w) => Cover(r, w))
  BY <1>2, <1>3, AllocCovers
<1> QED
  BY <1>1, <1>3, <1>4, FromReady

LEMMA OrderTimerCreate == ASSUME Goes, KOrdered(k), timer_create_sys PROVE Stays
<1>1. PICK r, w : r = k' /\ w = hw
  OBVIOUS
<1>2. KSound(k, slp) /\ ~r.fault
  BY <1>1 DEF Goes, Sound
<1>3. r = alloc_ktimer(k, cur, "kill") /\ Ready /\ hw' = hw /\ cur \in Threads
  BY <1>1 DEF timer_create_sys, Ready, InCall
<1>4. KOrdered(r) /\ (Cover(k, w) => Cover(r, w))
  BY <1>2, <1>3, AllocCovers
<1> QED
  BY <1>1, <1>3, <1>4, FromReady

LEMMA OrderExit == ASSUME Goes, Short(k), KOrdered(k), ThreadExit PROVE Stays
<1>1. PICK r, w, i : r = k' /\ w = hw /\ i = slp[cur]
  OBVIOUS
<1>2. KSound(k, slp) /\ Sound(k, slp, todo, cur)
  BY DEF Goes, Sound
<1>3. r = free_ktimer(k, i) /\ Ready /\ hw' = hw /\ cur \in Threads
  BY <1>1 DEF ThreadExit, Ready, InCall
<1>4. i \in TimerIds
  BY <1>1, <1>2, <1>3 DEF Sound, KSound
<1>5. KOrdered(r) /\ (Cover(k, w) => Cover(r, w))
  BY <1>2, <1>3, <1>4, FreeCovers
<1> QED
  BY <1>1, <1>3, <1>5, FromReady

LEMMA OrderTimerDelete ==
    ASSUME Goes, Short(k), KOrdered(k), NEW i \in TimerIds, timer_delete_sys(i)
    PROVE  Stays
<1>1. PICK r, w : r = k' /\ w = hw
  OBVIOUS
<1>2. KSound(k, slp)
  BY DEF Goes, Sound
<1>3. r = free_ktimer(k, i) /\ Ready /\ hw' = hw
  BY <1>1 DEF timer_delete_sys
<1>4. KOrdered(r) /\ (Cover(k, w) => Cover(r, w))
  BY <1>2, <1>3, FreeCovers
<1> QED
  BY <1>1, <1>3, <1>4, FromReady

LEMMA OrderSettime ==
    ASSUME Goes, Short(k), KOrdered(k), NEW i \in TimerIds, NEW abs \in Flags,
           NEW v \in Delays \cup {0}, NEW p \in Intervals, timer_settime_sys(i, abs, v, p)
    PROVE  Stays
<1>1. PICK r, w : r = k' /\ w = hw
  OBVIOUS
<1>2. KSound(k, slp)
  BY DEF Goes, Sound
<1>3. r = Disarmed(k, i, abs) /\ Ready /\ hw' = hw
  BY <1>1 DEF timer_settime_sys, Disarmed
<1>4. KOrdered(r) /\ (Cover(k, w) => Cover(r, w))
  BY <1>2, <1>3, DisarmCovers
<1> QED
  BY <1>1, <1>3, <1>4, FromReady

LEMMA FromCall ==
    ASSUME Goes, NEW e, e.op \in {"update", "sleep"}, cur \in Threads, cur' = cur, todo' = SetTodo(todo, cur, e),
           NEW r, r = k', KOrdered(r)
    PROVE  Stays
<1>1. todo \in [Threads -> TodoType]
  BY DEF Goes, Sound
<1>2. todo'[cur'] = e
  BY <1>1 DEF SetTodo
<1>3. todo'[cur'] # Done
  BY <1>2 DEF Done
<1> QED
  BY <1>3 DEF Stays, Covered

LEMMA OrderArm == ASSUME Goes, KOrdered(k), SettimeArm PROVE Stays
<1>1. PICK r, e : r = k' /\ e = todo[cur]
  OBVIOUS
<1>2. /\ KSound(k, slp) /\ Arms(k.tm, todo) /\ ticks \in Nat /\ todo \in [Threads -> TodoType]
  BY DEF Goes, Sound
<1>3. k \in KType /\ HeapOf(k.heap, Armed(k.tm))
  BY <1>2 DEF KSound
<1>4. cur \in Threads /\ e.op = "arm" /\ r = arm_timer(k, e.timer, e.value, e.interval) /\ cur' = cur
  BY <1>1 DEF SettimeArm, InCall
<1>5. e \in TodoType
  BY <1>1, <1>2, <1>4
<1>6. PICK i, v, p : i = e.timer /\ v = e.value /\ p = e.interval
  OBVIOUS
<1>7. i \in TimerIds /\ v \in Nat /\ p \in Nat
  BY <1>4, <1>5, <1>6, ArmCall
<1>8. k.tm[i].use /\ ~k.tm[i].armed
  BY <1>1, <1>2, <1>4, <1>6 DEF Arms, ToArm
<1>9. r = arm_timer(k, i, v, p)
  BY <1>4, <1>6
<1>10. KOrdered(r)
  BY <1>2, <1>3, <1>7, <1>8, <1>9, ArmOrder
<1>11. PICK u : u = [op |-> "update"]
  OBVIOUS
<1>12. u.op \in {"update", "sleep"} /\ todo' = SetTodo(todo, cur, u)
  BY <1>11 DEF SettimeArm, SetTodo
<1> QED
  BY <1>1, <1>4, <1>10, <1>12, FromCall

LEMMA OrderSleep == ASSUME Goes, KOrdered(k), NEW d \in Delays, sleep_for(d) PROVE Stays
<1>1. PICK r, i, r1 : r = k' /\ i = slp[cur] /\ r1 = arm_timer(k, i, d, 0)
  OBVIOUS
<1>2. Sound(k, slp, todo, cur) /\ KSound(k, slp) /\ ticks \in Nat
  BY DEF Goes, Sound
<1>3. k \in KType /\ HeapOf(k.heap, Armed(k.tm))
  BY <1>2 DEF KSound
<1>4. /\ cur \in Threads /\ todo[cur] = Done /\ cur' = cur
      /\ r = SetAsleep(r1, k.asleep \cup {cur})
  BY <1>1 DEF sleep_for, Ready, InCall, SetAsleep
<1>5. todo[cur].op # "sleep"
  BY <1>4 DEF Done
<1>6. i \in TimerIds /\ k.tm[i].use /\ ~k.tm[i].armed
  BY <1>1, <1>2, <1>4, <1>5, Caller DEF OwnTimer
<1>7. d \in Nat /\ 0 \in Nat
  BY TimersAssumption
<1>8. KOrdered(r1)
  BY <1>1, <1>2, <1>3, <1>6, <1>7, ArmOrder
<1>9. r1 \in KType
  BY <1>1, <1>2, <1>3, <1>6, <1>7, ArmTimer
<1>10. r.heap = r1.heap /\ r.tm = r1.tm
  BY <1>4, <1>9 DEF KType, SetAsleep
<1>11. KOrdered(r)
  BY <1>8, <1>10 DEF KOrdered
<1>12. PICK u : u = [op |-> "sleep"]
  OBVIOUS
<1>13. u.op \in {"update", "sleep"} /\ todo' = SetTodo(todo, cur, u)
  BY <1>12 DEF sleep_for, SetTodo
<1>14. r = k' /\ cur \in Threads /\ cur' = cur
  BY <1>1, <1>4
<1> QED
  BY <1>11, <1>13, <1>14, FromCall

LEMMA OrderUpdate ==
    ASSUME Goes, KOrdered(k), InWord, InWord', ticks' = ticks, NEW off, update_hwtimer(off)
    PROVE  Stays /\ Woke(k', k) /\ ~Due(k') /\ InWordK(k')
<1>1. PICK r, w : r = k' /\ w = hw'
  OBVIOUS
<1>2. KSound(k, slp) /\ ticks \in Nat /\ ~SignalWakes /\ ~k'.fault
  BY DEF Goes, Sound
<1>3. InWordK(k)
  BY DEF InWord, Goes
<1>4. InWordK(r)
  BY <1>1, <1>2 DEF InWord, InWordK, Now
<1>5. Woke(r, k) /\ ~Due(r)
  BY <1>1, <1>2, <1>3, UpdateWoke
<1>6. TicksPer > 1 => Cover(r, w)
  BY <1>1, <1>2, <1>4, <1>5, UpdateCovers
<1>7. KOrdered(r)
  BY <1>5 DEF Woke
<1>8. Stays
  BY <1>1, <1>6, <1>7 DEF Stays, Covered
<1> QED
  BY <1>1, <1>4, <1>5, <1>8

LEMMA OrderStep ==
    ASSUME ~SignalWakes, ~SharedTimers, TimersInv, OrderInv, Few, InWord, InWord', [Next]_vars
    PROVE  OrderInv' /\ (TicksPer > 1 /\ CoverInv => CoverInv')
<1>1. CASE UNCHANGED vars
  BY <1>1 DEF OrderInv, CoverInv, Covered, vars
<1>2. CASE Next
  <2>1. ~k.fault
    BY <1>2 DEF Next, ThreadExit, timer_create_sys, SettimeArm, SettimeUpdate, SleepUpdate, ClockIrq,
                Tick, ThreadCreate, sleep_for, timer_delete_sys, timer_settime_sys, Ready, InCall
  <2>2. SUFFICES ASSUME ~k'.fault PROVE Stays
    <3>1. CASE k'.fault
      BY <3>1 DEF OrderInv, CoverInv
    <3>2. CASE ~k'.fault
      <4>1. Stays
        BY <2>2, <3>2
      <4> QED
        BY <2>1, <4>1 DEF OrderInv, CoverInv, Stays
    <3> QED
      BY <3>1, <3>2
  <2>3. Goes /\ KOrdered(k) /\ Short(k)
    BY <2>1, <2>2 DEF Goes, TimersInv, OrderInv, Few
  <2>4. CASE Tick
    BY <2>3, <2>4 DEF Tick, Stays, Covered
  <2>5. ASSUME NEW i \in TimerIds, NEW abs \in BOOLEAN, NEW v \in Delays \cup {0},
               NEW p \in Intervals, timer_settime_sys(i, abs, v, p)
        PROVE  Stays
    <3>1. abs \in Flags
      BY DEF Flags
    <3> QED
      BY <2>3, <2>5, <3>1, OrderSettime
  <2>6. CASE SettimeUpdate
    <3>1. update_hwtimer(hw) /\ ticks' = ticks
      BY <2>6 DEF SettimeUpdate
    <3> QED
      BY <2>3, <3>1, OrderUpdate
  <2>7. CASE SleepUpdate
    <3>1. update_hwtimer(hw) /\ ticks' = ticks
      BY <2>7 DEF SleepUpdate
    <3> QED
      BY <2>3, <3>1, OrderUpdate
  <2>8. CASE ClockIrq
    <3>1. update_hwtimer(Off) /\ ticks' = ticks
      BY <2>8 DEF ClockIrq
    <3> QED
      BY <2>3, <3>1, OrderUpdate
  <2> QED
    BY <1>2, <2>3, <2>4, <2>5, <2>6, <2>7, <2>8, OrderCreate, OrderExit, OrderTimerCreate,
       OrderTimerDelete, OrderArm, OrderSleep DEF Next
<1> QED
  BY <1>1, <1>2

LEMMA OrderInit == Init => OrderInv /\ CoverInv
<1> SUFFICES ASSUME Init PROVE KOrdered(k) /\ Covered(k, hw, todo, cur)
  BY DEF OrderInv, CoverInv
<1>1. k.heap = <<>>
  BY DEF Init
<1>2. PICK h : h = k.heap
  OBVIOUS
<1>3. Len(h) = 0 /\ 2 .. 0 = {}
  BY <1>1, <1>2
<1>4. KOrdered(k)
  <2>1. PICK u : u = Keys(h, Values(k.tm))
    OBVIOUS
  <2>2. InOrder(u, Len(h))
    BY <1>3 DEF InOrder
  <2> QED
    BY <1>2, <2>1, <2>2 DEF KOrdered, Ordered
<1>5. Covered(k, hw, todo, cur)
  BY <1>1 DEF Covered, Cover
<1> QED
  BY <1>4, <1>5

LEMMA InvHwCovers == TimersInv /\ CoverInv => HwCovers
<1> SUFFICES ASSUME TimersInv, CoverInv PROVE HwCovers
  OBVIOUS
<1>1. SleepersArmed
  BY InvSleepers
<1>2. ASSUME ~k.fault
      PROVE  \/ k.heap = <<>>
             \/ cur \in Threads /\ todo[cur] # Done
             \/ hw # Off /\ nsec(hw) <= k.tm[HEAP_min(k.heap)].value + NsecPer
  <2>1. Covered(k, hw, todo, cur)
    BY <1>2 DEF CoverInv
  <2>2. hw \in Nat => hw # Off
    BY DEF Off
  <2> QED
    BY <2>1, <2>2 DEF Covered, Cover
<1> QED
  BY <1>1, <1>2 DEF HwCovers

-----------------------------------------------------------------------------
(* Who is woken and who is left asleep.                                    *)
Wakes == \A t \in k.asleep \ k'.asleep : k.tm[slp[t]].value <= Now
Leaves == \A t \in k'.asleep : k'.tm[slp'[t]].value > Now
Exact == Wakes /\ ((ClockIrq \/ SleepUpdate \/ SettimeUpdate) /\ ~k'.fault => Leaves)

LEMMA AllocAsleep ==
    ASSUME NEW kk, kk \in KType, NEW owner, NEW act, NEW r, r = alloc_ktimer(kk, owner, act)
    PROVE  r.asleep = kk.asleep
<1>1. PICK i, x : i = alloc_index(kk.tm) /\ x = [Unused EXCEPT !.use = TRUE, !.owner = owner, !.act = act]
  OBVIOUS
<1>2. r = [kk EXCEPT !.fault = TRUE] \/ r = [kk EXCEPT !.tm[i] = x]
  BY <1>1 DEF alloc_ktimer
<1> QED
  BY <1>2 DEF KType

LEMMA ArmAsleep ==
    ASSUME NEW kk, kk \in KType, HeapOf(kk.heap, Armed(kk.tm)), NEW i \in TimerIds,
           kk.tm[i].use, ~kk.tm[i].armed, NEW value \in Nat, NEW p \in Nat, ticks \in Nat,
           NEW r, r = arm_timer(kk, i, value, p)
    PROVE  r \in KType /\ r.asleep = kk.asleep
<1>1. PICK x \in TimerType :
        /\ x.use /\ x.armed /\ x.interval = p /\ x.act = kk.tm[i].act
        /\ x.owner = kk.tm[i].owner
        /\ r \in KType /\ r.tm = Put(kk.tm, i, x) /\ r.asleep = kk.asleep
        /\ HeapOf(r.heap, Armed(kk.tm) \cup {i})
  BY ArmTimer
<1> QED
  BY <1>1

LEMMA SettimeAsleep ==
    ASSUME KSound(k, slp), NEW i \in TimerIds, NEW abs \in Flags, NEW v, NEW p, timer_settime_sys(i, abs, v, p)
    PROVE  k'.asleep = k.asleep
<1>1. PICK r : r = k'
  OBVIOUS
<1>2. k \in KType /\ HeapOf(k.heap, Armed(k.tm))
  BY DEF KSound
<1>3. r = Disarmed(k, i, abs)
  BY <1>1 DEF timer_settime_sys, Disarmed
<1>4. PICK x, h, S : x = DisarmedTimer(k.tm[i], abs) /\ h = Unheaped(k, i) /\ S = Armed(k.tm) \ {i}
  OBVIOUS
<1>5. /\ x \in TimerType /\ r \in KType /\ r.tm = Put(k.tm, i, x) /\ r.heap = h
      /\ r.asleep = k.asleep /\ HeapOf(h, S)
  BY <1>2, <1>3, <1>4, DisarmLeaves
<1> QED
  BY <1>1, <1>5

LEMMA CallsWakeNobody ==
    ASSUME KSound(k, slp), Sound(k, slp, todo, cur), ticks \in Nat,
           \/ ThreadExit \/ timer_create_sys \/ SettimeArm \/ Tick
           \/ \E t \in Threads : ThreadCreate(t)
           \/ \E d \in Delays : sleep_for(d)
           \/ \E i \in TimerIds : timer_delete_sys(i)
           \/ \E i \in TimerIds, abs \in BOOLEAN, v \in Delays \cup {0}, p \in Intervals :
                timer_settime_sys(i, abs, v, p)
    PROVE  k.asleep \subseteq k'.asleep
<1>1. PICK r : r = k'
  OBVIOUS
<1> SUFFICES k.asleep \subseteq r.asleep
  BY <1>1
<1>2. k \in KType /\ HeapOf(k.heap, Armed(k.tm))
  BY DEF KSound
<1>3. CASE ThreadExit
  <2>1. PICK i : i = slp[cur]
    OBVIOUS
  <2>2. r = free_ktimer(k, i) /\ cur \in Threads
    BY <1>1, <1>3, <2>1 DEF ThreadExit, Ready, InCall
  <2>3. i \in TimerIds
    BY <2>1, <2>2 DEF Sound, KSound
  <2>4. r.asleep = k.asleep
    BY <1>2, <2>2, <2>3, FreeTimer
  <2> QED
    BY <2>4
<1>4. CASE timer_create_sys
  <2>1. r = alloc_ktimer(k, cur, "kill")
    BY <1>1, <1>4 DEF timer_create_sys
  <2> QED
    BY <1>2, <2>1, AllocAsleep
<1>5. CASE SettimeArm
  <2>1. PICK e : e = todo[cur]
    OBVIOUS
  <2>2. cur \in Threads /\ e.op = "arm" /\ r = arm_timer(k, e.timer, e.value, e.interval)
    BY <1>1, <1>5, <2>1 DEF SettimeArm, InCall
  <2>3. e \in TodoType
    BY <2>1, <2>2 DEF Sound
  <2>4. PICK i, v, p : i = e.timer /\ v = e.value /\ p = e.interval
    OBVIOUS
  <2>5. i \in TimerIds /\ v \in Nat /\ p \in Nat
    BY <2>2, <2>3, <2>4, ArmCall
  <2>6. k.tm[i].use /\ ~k.tm[i].armed
    BY <2>1, <2>2, <2>4 DEF Sound, Arms, ToArm
  <2>7. r = arm_timer(k, i, v, p)
    BY <2>2, <2>4
  <2>8. r.asleep = k.asleep
    BY <1>2, <2>5, <2>6, <2>7, ArmAsleep
  <2> QED
    BY <2>8
<1>6. CASE Tick
  BY <1>1, <1>6 DEF Tick
<1>7. ASSUME NEW t \in Threads, ThreadCreate(t) PROVE k.asleep \subseteq r.asleep
  <2>1. r = alloc_ktimer(k, t, "wakeup")
    BY <1>1, <1>7 DEF ThreadCreate
  <2> QED
    BY <1>2, <2>1, AllocAsleep
<1>8. ASSUME NEW d \in Delays, sleep_for(d) PROVE k.asleep \subseteq r.asleep
  <2>1. PICK i, r1, a : i = slp[cur] /\ r1 = arm_timer(k, i, d, 0) /\ a = k.asleep \cup {cur}
    OBVIOUS
  <2>2. cur \in Threads /\ todo[cur] = Done /\ r = [r1 EXCEPT !.asleep = a]
    BY <1>1, <1>8, <2>1 DEF sleep_for, Ready, InCall
  <2>3. todo[cur].op # "sleep"
    BY <2>2 DEF Done
  <2>4. i \in TimerIds /\ k.tm[i].use /\ ~k.tm[i].armed
    BY <2>1, <2>2, <2>3, Caller DEF OwnTimer
  <2>5. d \in Nat /\ 0 \in Nat
    BY TimersAssumption
  <2>6. r1 \in KType
    BY <1>2, <2>1, <2>4, <2>5, ArmAsleep
  <2>7. r.asleep = a
    BY <2>2, <2>6 DEF KType
  <2> QED
    BY <2>1, <2>7
<1>9. ASSUME NEW i \in TimerIds, timer_delete_sys(i) PROVE k.asleep \subseteq r.asleep
  <2>1. r = free_ktimer(k, i)
    BY <1>1, <1>9 DEF timer_delete_sys
  <2>2. r.asleep = k.asleep
    BY <1>2, <2>1, FreeTimer
  <2> QED
    BY <2>2
<1>10. ASSUME NEW i \in TimerIds, NEW abs \in BOOLEAN, NEW v \in Delays \cup {0}, NEW p \in Intervals,
              timer_settime_sys(i, abs, v, p)
       PROVE  k.asleep \subseteq r.asleep
  <2>1. abs \in Flags
    BY DEF Flags
  <2>2. k'.asleep = k.asleep
    BY <1>10, <2>1, SettimeAsleep
  <2> QED
    BY <1>1, <2>2
<1> QED
  BY <1>3, <1>4, <1>5, <1>6, <1>7, <1>8, <1>9, <1>10

LEMMA UpdateWakes ==
    ASSUME ~SignalWakes, ticks \in Nat, KSound(k, slp), KOrdered(k), InWordK(k), NEW off, update_hwtimer(off)
    PROVE  Wakes
<1>1. PICK r : r = k'
  OBVIOUS
<1>2. k \in KType
  BY DEF KSound
<1>3. CASE r = ExpireAll(k)
  <2>1. Woke(r, k)
    BY <1>3, ExpireAllWoke
  <2> QED
    BY <1>1, <2>1 DEF Woke, Wakes
<1>4. CASE r = [k EXCEPT !.fault = TRUE]
  <2>1. r.asleep = k.asleep
    BY <1>2, <1>4 DEF KType
  <2> QED
    BY <1>1, <2>1 DEF Wakes
<1> QED
  BY <1>1, <1>3, <1>4 DEF update_hwtimer

LEMMA UpdateLeaves ==
    ASSUME ticks \in Nat, NEW r, Woke(r, k), ~Due(r), InWordK(r), NEW t \in r.asleep
    PROVE  r.tm[slp[t]].value > Now
<1>1. KSound(r, slp) /\ KOrdered(r)
  BY DEF Woke, Kept
<1>2. r \in KType /\ HeapOf(r.heap, Armed(r.tm)) /\ t \in Threads
  BY <1>1, KindOf DEF KSound
<1>3. PICK i, h, v : i = slp[t] /\ h = r.heap /\ v = Values(r.tm)
  OBVIOUS
<1>4. i \in Armed(r.tm) /\ i \in TimerIds
  BY <1>1, <1>2, <1>3 DEF KSound, Armed
<1>5. r.tm \in [TimerIds -> TimerType]
  BY <1>2, KindOf
<1>6. v \in [TimerIds -> Int] /\ \A m \in TimerIds : v[m] = r.tm[m].value
  BY <1>3, <1>5, ValuesOf
<1>7. Ordered(h, v) /\ HeapOf(h, Armed(r.tm))
  BY <1>1, <1>2, <1>3 DEF KOrdered
<1>8. h # <<>> /\ HEAP_min(h) \in Armed(r.tm) /\ v[HEAP_min(h)] <= v[i]
  BY <1>4, <1>6, <1>7, FirstEarliest
<1>9. PICK j : j = HEAP_min(r.heap)
  OBVIOUS
<1>10. r.heap # <<>>
  BY <1>3, <1>8
<1>11. j \in TimerIds /\ r.tm[j].value \in Int /\ r.tm[j].value > Now
  BY <1>1, <1>9, <1>10, NotYet
<1>12. v[j] = r.tm[j].value /\ v[i] = r.tm[i].value /\ v[i] \in Int /\ v[j] \in Int /\ v[j] <= v[i]
  BY <1>3, <1>4, <1>6, <1>8, <1>9, <1>11
<1> QED
  BY <1>3, <1>11, <1>12, NowInt

LEMMA ExactStep ==
    ASSUME ~SignalWakes, ~SharedTimers, TimersInv, OrderInv, InWord, InWord', [Next]_vars
    PROVE  [Exact]_vars
<1> SUFFICES ASSUME Next PROVE Exact
  BY DEF vars
<1>1. ~k.fault
  BY DEF Next, ThreadExit, timer_create_sys, SettimeArm, SettimeUpdate, SleepUpdate, ClockIrq,
         Tick, ThreadCreate, sleep_for, timer_delete_sys, timer_settime_sys, Ready, InCall
<1>2. Sound(k, slp, todo, cur) /\ KSound(k, slp) /\ ticks \in Nat /\ KOrdered(k) /\ InWordK(k)
  BY <1>1 DEF TimersInv, OrderInv, InWord, Sound
<1>3. CASE ClockIrq \/ SleepUpdate \/ SettimeUpdate
  <2>1. PICK off : update_hwtimer(off) /\ ticks' = ticks /\ slp' = slp
    BY <1>3 DEF ClockIrq, SleepUpdate, SettimeUpdate
  <2>2. Wakes
    BY <1>2, <2>1, UpdateWakes
  <2>3. ASSUME ~k'.fault PROVE Leaves
    <3>1. Goes
      BY <1>1, <1>2, <2>3 DEF Goes
    <3>2. PICK r : r = k'
      OBVIOUS
    <3>3. Woke(r, k) /\ ~Due(r) /\ InWordK(r)
      <4>1. Woke(k', k) /\ ~Due(k') /\ InWordK(k')
        BY <1>2, <2>1, <3>1, OrderUpdate
      <4> QED
        BY <3>2, <4>1
    <3>4. \A t \in r.asleep : r.tm[slp[t]].value > Now
      BY <1>2, <3>3, UpdateLeaves
    <3> QED
      BY <2>1, <3>2, <3>4 DEF Leaves
  <2> QED
    BY <2>2, <2>3 DEF Exact
<1>4. CASE ~(ClockIrq \/ SleepUpdate \/ SettimeUpdate)
  <2>1. k.asleep \subseteq k'.asleep
    BY <1>2, <1>4, CallsWakeNobody DEF Next
  <2> QED
    BY <1>4, <2>1 DEF Exact, Wakes
<1> QED
  BY <1>3, <1>4

(* While at most five timers are armed at a time and their times lie in    *)
(* the clock's present word, less than half a word away, the processor is  *)
(* never left without a wake-up call: HEAP_min is the earliest of the      *)
(* armed timers and update_hwtimer has set the hardware for it, or the     *)
(* running thread is about to.  The length of timer_array, the number of   *)
(* threads and the delays are any.  With TicksPer = 1 the least interval   *)
(* would be a whole step of the clock; the OMAP4 has 384.                  *)
THEOREM HwCoversHolds ==
    ~SignalWakes /\ ~SharedTimers /\ TicksPer > 1
        => (Spec /\ []Few /\ []InWord => []HwCovers)
<1> SUFFICES ASSUME ~SignalWakes, ~SharedTimers, TicksPer > 1
             PROVE  Spec /\ []Few /\ []InWord => []HwCovers
  OBVIOUS
<1>1. Init => TimersInv /\ OrderInv /\ CoverInv
  BY TimersInit, OrderInit
<1>2. TimersInv /\ [Next]_vars => TimersInv'
  BY TimersStep
<1>3. TimersInv /\ OrderInv /\ CoverInv /\ Few /\ InWord /\ InWord' /\ [Next]_vars => OrderInv' /\ CoverInv'
  BY OrderStep
<1>4. TimersInv /\ CoverInv => HwCovers
  BY InvHwCovers
<1> QED
  BY <1>1, <1>2, <1>3, <1>4, PTL DEF Spec

(* In the same circumstances a thread that sleeps is not woken before the  *)
(* time of its sleep timer, and no update_hwtimer leaves one asleep whose  *)
(* time has come.                                                          *)
THEOREM SleepExactHolds ==
    ~SignalWakes /\ ~SharedTimers => (Spec /\ []Few /\ []InWord => SleepExact)
<1> SUFFICES ASSUME ~SignalWakes, ~SharedTimers
             PROVE  Spec /\ []Few /\ []InWord => SleepExact
  OBVIOUS
<1>1. Init => TimersInv /\ OrderInv
  BY TimersInit, OrderInit
<1>2. TimersInv /\ [Next]_vars => TimersInv'
  BY TimersStep
<1>3. TimersInv /\ OrderInv /\ Few /\ InWord /\ InWord' /\ [Next]_vars => OrderInv'
  BY OrderStep
<1>4. TimersInv /\ OrderInv /\ InWord /\ InWord' /\ [Next]_vars => [Exact]_vars
  BY ExactStep
<1>5. [][Exact]_vars => SleepExact
  BY PTL DEF SleepExact, Exact, Wakes, Leaves
<1> QED
  BY <1>1, <1>2, <1>3, <1>4, <1>5, PTL DEF Spec

-----------------------------------------------------------------------------
(* When no time of the clock and no delay after it reaches half a word,    *)
(* InWord holds: each timer's period and each call in progress is known.   *)
Periods == Intervals \cup {0}
Fits == \A d \in Delays \cup Periods : 2 * (nsec(MaxTicks) + d) < Word

Near(v) == v \in Nat /\ 2 * v < Word
TimerNear(x) == x.interval \in Periods /\ (x.armed => Near(x.value))
NearK(kk) == \A i \in TimerIds : TimerNear(kk.tm[i])
NearTodo(td) == \A t \in Threads : td[t].op = "arm" => td[t].value \in Delays /\ td[t].interval \in Intervals
NearInv == ~k.fault => NearK(k) /\ NearTodo(todo) /\ ticks <= MaxTicks

LEMMA DivGrows ==
    ASSUME NEW d \in Nat \ {0}, NEW a \in Nat, NEW b \in Nat, a <= b
    PROVE  a \div d \in Nat /\ b \div d \in Nat /\ a \div d <= b \div d
<1>1. PICK p, q, r, s : p = a \div d /\ r = a % d /\ q = b \div d /\ s = b % d
  OBVIOUS
<1>2. p \in Int /\ r \in 0 .. d - 1 /\ a = (d * p) + r
  BY <1>1, IntDiv
<1>3. q \in Int /\ s \in 0 .. d - 1 /\ b = (d * q) + s
  BY <1>1, IntDiv
<1>4. p \in Nat
  <2>1. CASE p < 0
    <3>1. d * p <= -d
      BY <1>2, <2>1
    <3> QED
      BY <1>2, <3>1
  <2> QED
    BY <1>2, <2>1
<1>5. p <= q
  <2>1. CASE p > q
    <3>1. d * (p - q) >= d
      BY <1>2, <1>3, <2>1
    <3>2. d * (p - q) = (d * p) - (d * q)
      BY <1>2, <1>3
    <3> QED
      BY <1>2, <1>3, <3>1, <3>2
  <2> QED
    BY <1>2, <1>3, <2>1
<1> QED
  BY <1>1, <1>3, <1>4, <1>5

LEMMA NowNear ==
    ASSUME Fits, ticks \in Nat, ticks <= MaxTicks
    PROVE  Now \in Nat /\ \A d \in Delays \cup Periods : Near(d) /\ Near(d + Now)
<1>1. PICK T \in Nat \ {0}, N \in Nat, M \in Nat : T = TicksPer /\ N = NsecPer /\ M = MaxTicks
  BY TimersAssumption
<1>2. PICK p, q : p = ticks \div T /\ q = M \div T
  OBVIOUS
<1>3. p \in Nat /\ q \in Nat /\ p <= q
  BY <1>1, <1>2, DivGrows
<1>4. p * N \in Nat /\ q * N \in Nat /\ p * N <= q * N
  BY <1>1, <1>3
<1>5. PICK n \in Nat, m \in Nat : n = p * N /\ m = q * N /\ n <= m
  BY <1>4
<1>6. Now = n /\ nsec(MaxTicks) = m
  BY <1>1, <1>2, <1>5 DEF Now, nsec
<1>7. ASSUME NEW d \in Delays \cup Periods PROVE Near(d) /\ Near(d + Now)
  <2>1. d \in Nat
    BY TimersAssumption DEF Periods
  <2>2. PICK W \in Nat : W = Word
    BY TimersAssumption
  <2>3. 2 * (m + d) < W
    BY <1>6, <2>2 DEF Fits
  <2>4. d + n \in Nat /\ 2 * d < W /\ 2 * (d + n) < W
    BY <1>5, <2>1, <2>3
  <2> QED
    BY <1>6, <2>1, <2>2, <2>4 DEF Near
<1> QED
  BY <1>6, <1>7

LEMMA NearSame ==
    ASSUME NEW v, Near(v), NEW n, Near(n)
    PROVE  SameWord(v, n)
<1>1. PICK W \in Nat \ {0} : W = Word
  BY TimersAssumption
<1>2. v \in Nat /\ n \in Nat /\ 2 * v < W /\ 2 * n < W
  BY <1>1 DEF Near
<1>3. v \in 0 .. W - 1 /\ v = (W * 0) + v /\ n \in 0 .. W - 1 /\ n = (W * 0) + n
  BY <1>2
<1>4. v \div W = 0
  BY <1>3, IntDivIs
<1>5. n \div W = 0
  BY <1>3, IntDivIs
<1>6. 2 * (v - n) < W /\ 2 * (n - v) <= W
  BY <1>2
<1> QED
  BY <1>1, <1>4, <1>5, <1>6 DEF SameWord

LEMMA NearInWord == ASSUME Fits, TimersInv, NearInv PROVE InWord
<1> SUFFICES ASSUME ~k.fault, NEW i \in TimerIds, k.tm[i].armed PROVE SameWord(k.tm[i].value, Now)
  BY DEF InWord, InWordK
<1>1. ticks \in Nat /\ ticks <= MaxTicks /\ Near(k.tm[i].value)
  BY DEF TimersInv, NearInv, NearK, TimerNear
<1>2. 0 \in Delays \cup Periods
  BY DEF Periods
<1>3. Now \in Nat /\ Near(0 + Now)
  BY <1>1, <1>2, NowNear
<1>4. Near(Now)
  BY <1>3
<1> QED
  BY <1>1, <1>4, NearSame

(* One timer changes.                                                      *)
LEMMA PutNear ==
    ASSUME NEW kk, kk \in KType, NearK(kk), NEW i \in TimerIds, NEW x, TimerNear(x), NEW r, r.tm = Put(kk.tm, i, x)
    PROVE  NearK(r)
<1>1. kk.tm \in [TimerIds -> TimerType]
  BY KindOf
<1>2. \A j \in TimerIds : r.tm[j] = IF j = i THEN x ELSE kk.tm[j]
  BY <1>1 DEF Put
<1> QED
  BY <1>2 DEF NearK

LEMMA AllocNear ==
    ASSUME NEW kk, kk \in KType, NearK(kk), NEW owner \in Threads, NEW act \in {"wakeup", "kill"},
           NEW r, r = alloc_ktimer(kk, owner, act), ~r.fault
    PROVE  NearK(r)
<1>1. PICK i, x : i = alloc_index(kk.tm) /\ x = NewTimer(owner, act)
  OBVIOUS
<1>2. i \in TimerIds /\ r.tm = Put(kk.tm, i, x)
  BY <1>1, AllocTimer
<1>3. x.interval = 0 /\ ~x.armed
  BY <1>1 DEF NewTimer, Unused
<1>4. TimerNear(x)
  BY <1>3 DEF TimerNear, Periods
<1> QED
  BY <1>2, <1>4, PutNear

LEMMA FreeNear ==
    ASSUME NEW kk, kk \in KType, HeapOf(kk.heap, Armed(kk.tm)), NearK(kk), NEW i \in TimerIds,
           NEW r, r = free_ktimer(kk, i)
    PROVE  NearK(r)
<1>1. PICK x : x = FreedTimer(kk.tm[i])
  OBVIOUS
<1>2. /\ x \in TimerType /\ ~x.use /\ ~x.armed /\ x.interval = kk.tm[i].interval
      /\ x.act = kk.tm[i].act
      /\ r \in KType /\ r.tm = Put(kk.tm, i, x) /\ r.asleep = kk.asleep
      /\ HeapOf(r.heap, Armed(kk.tm) \ {i})
  BY <1>1, FreeTimer
<1>3. TimerNear(x)
  BY <1>2 DEF NearK, TimerNear
<1> QED
  BY <1>2, <1>3, PutNear

LEMMA DisarmNear ==
    ASSUME NEW kk, kk \in KType, HeapOf(kk.heap, Armed(kk.tm)), NearK(kk), NEW i \in TimerIds,
           NEW abs \in Flags, NEW r, r = Disarmed(kk, i, abs)
    PROVE  NearK(r)
<1>1. PICK x, h, S : x = DisarmedTimer(kk.tm[i], abs) /\ h = Unheaped(kk, i) /\ S = Armed(kk.tm) \ {i}
  OBVIOUS
<1>2. /\ x \in TimerType /\ r \in KType /\ r.tm = Put(kk.tm, i, x) /\ r.heap = h
      /\ r.asleep = kk.asleep /\ HeapOf(h, S)
  BY <1>1, DisarmLeaves
<1>3. kk.tm[i] \in TimerType
  BY KindOf
<1>4. ~x.armed /\ x.interval = kk.tm[i].interval
  BY <1>1, <1>3 DEF DisarmedTimer, TimerType
<1>5. TimerNear(x)
  BY <1>4 DEF NearK, TimerNear
<1> QED
  BY <1>2, <1>5, PutNear

LEMMA ArmNear ==
    ASSUME Fits, NEW kk, kk \in KType, HeapOf(kk.heap, Armed(kk.tm)), NearK(kk), NEW i \in TimerIds,
           kk.tm[i].use, ~kk.tm[i].armed, NEW value \in Delays, NEW p \in Periods, ticks \in Nat,
           ticks <= MaxTicks, NEW r, r = arm_timer(kk, i, value, p)
    PROVE  NearK(r)
<1>1. kk.tm[i] \in TimerType /\ kk.heap \in Seq(TimerIds)
  BY KindOf
<1>2. PICK v \in {value, value + Now} :
        r = Enheap(SetKernel(kk, kk.heap, Put(kk.tm, i, ArmedTimer(kk.tm[i], v, p))), i)
  BY ArmShape
<1>3. Near(v)
  BY NowNear
<1>4. v \in Int /\ p \in Nat
  BY <1>3, TimersAssumption DEF Near, Periods
<1>5. PICK x : x = ArmedTimer(kk.tm[i], v, p)
  OBVIOUS
<1>6. x \in TimerType
  BY <1>1, <1>4, <1>5 DEF TimerType, ArmedTimer
<1>7. x.interval = p /\ x.value = v
  BY <1>1, <1>5 DEF TimerType, ArmedTimer
<1>8. TimerNear(x)
  BY <1>3, <1>7 DEF TimerNear
<1>9. PICK k1 : k1 = SetKernel(kk, kk.heap, Put(kk.tm, i, x))
  OBVIOUS
<1>10. k1 \in KType /\ k1.tm = Put(kk.tm, i, x) /\ k1.heap = kk.heap
  BY <1>1, <1>6, <1>9, SetTimer
<1>11. PICK S : S = Armed(kk.tm)
  OBVIOUS
<1>12. i \in TimerIds \ S /\ HeapOf(k1.heap, S) /\ r = Enheap(k1, i)
  BY <1>2, <1>5, <1>9, <1>10, <1>11 DEF Armed
<1>13. r \in KType /\ r.tm = k1.tm /\ r.asleep = k1.asleep /\ HeapOf(r.heap, S \cup {i})
  BY <1>10, <1>12, EnheapTimer
<1> QED
  BY <1>8, <1>10, <1>13, PutNear

(* One round of update_hwtimer, and its loop.                              *)
LEMMA ExpireNear ==
    ASSUME Fits, ticks \in Nat, ticks <= MaxTicks, NEW kk, kk \in KType, HeapOf(kk.heap, Armed(kk.tm)),
           NearK(kk), kk.heap # <<>>
    PROVE  NearK(Expire(kk))
<1>1. PICK i, h, S, r : /\ i = HEAP_min(kk.heap) /\ h = HEAP_remove_min(kk.heap, Values(kk.tm))
                        /\ S = Armed(kk.tm) \ {i} /\ r = Expire(kk)
  OBVIOUS
<1>2. i \in TimerIds /\ HeapOf(h, S) /\ h \in Seq(TimerIds) /\ i \notin S
  <2>1. i \in Armed(kk.tm) /\ HeapOf(h, Armed(kk.tm) \ {i})
    BY <1>1, RemoveMinHeap
  <2> QED
    BY <1>1, <2>1 DEF HeapOf, Armed
<1>3. PICK x, a : x = kk.tm[i] /\ a = WakesUp(kk, x)
  OBVIOUS
<1>4. x \in TimerType /\ a \in SUBSET Threads /\ TimerNear(x)
  <2>1. x \in TimerType /\ kk.asleep \in SUBSET Threads
    BY <1>2, <1>3, KindOf
  <2> QED
    BY <1>2, <1>3, <2>1 DEF WakesUp, NearK
<1>5. PICK ks : ks = SetAsleep(kk, a)
  OBVIOUS
<1>6. ks \in KType /\ ks.tm = kk.tm
  BY <1>4, <1>5 DEF KType, SetAsleep
<1>7. CASE ~GoesOn(x)
  <2>1. PICK y : y = Stopped(x)
    OBVIOUS
  <2>2. y \in TimerType /\ ~y.armed /\ y.interval = x.interval
    BY <1>4, <2>1 DEF Stopped, TimerType
  <2>3. r = SetKernel(ks, h, Put(ks.tm, i, y))
    BY <1>1, <1>2, <1>3, <1>5, <1>6, <1>7, <2>1, ExpireShape
  <2>4. r.tm = Put(ks.tm, i, y)
    BY <1>2, <1>6, <2>2, <2>3, SetTimer
  <2>5. TimerNear(y)
    BY <1>4, <2>2 DEF TimerNear
  <2>6. NearK(r)
    BY <1>2, <1>6, <2>4, <2>5, PutNear
  <2> QED
    BY <1>1, <2>6
<1>8. CASE GoesOn(x)
  <2>1. PICK z, y : z = x.interval + Now /\ y = Rearmed(x, z)
    OBVIOUS
  <2>2. Near(z)
    <3>1. x.interval \in Delays \cup Periods
      BY <1>4 DEF TimerNear
    <3> QED
      BY <2>1, <3>1, NowNear
  <2>3. z \in Int
    BY <2>2 DEF Near
  <2>4. y \in TimerType
    BY <1>4, <2>1, <2>3 DEF Rearmed, TimerType
  <2>5. y.interval = x.interval /\ y.value = z
    BY <1>4, <2>1 DEF Rearmed, TimerType
  <2>6. TimerNear(y)
    BY <1>4, <2>2, <2>5 DEF TimerNear
  <2>7. PICK k1 : k1 = SetKernel(ks, h, Put(ks.tm, i, y))
    OBVIOUS
  <2>8. r = Enheap(k1, i)
    BY <1>1, <1>2, <1>3, <1>5, <1>6, <1>8, <2>1, <2>7, ExpireShape
  <2>9. k1 \in KType /\ k1.tm = Put(ks.tm, i, y) /\ k1.heap = h
    BY <1>2, <1>6, <2>4, <2>7, SetTimer
  <2>10. r.tm = k1.tm
    <3>1. i \in TimerIds \ S /\ HeapOf(k1.heap, S)
      BY <1>2, <2>9
    <3>2. r \in KType /\ r.tm = k1.tm /\ r.asleep = k1.asleep /\ HeapOf(r.heap, S \cup {i})
      BY <2>8, <2>9, <3>1, EnheapTimer
    <3> QED
      BY <3>2
  <2>11. r.tm = Put(kk.tm, i, y)
    BY <1>6, <2>9, <2>10
  <2>12. NearK(r)
    BY <1>2, <2>6, <2>11, PutNear
  <2> QED
    BY <1>1, <2>12
<1> QED
  BY <1>7, <1>8

LEMMA ExpireAllNear ==
    ASSUME Fits, ~SignalWakes, ticks \in Nat, ticks <= MaxTicks, NEW k0, KSound(k0, slp), NearK(k0),
           NEW r, r = ExpireAll(k0)
    PROVE  NearK(r)
<1> DEFINE T == {kk \in KType : Kept(kk, k0) /\ NearK(kk)}
<1>1. k0 \in T
  BY DEF Kept, KSound
<1>2. ASSUME NEW kk \in T, Due(kk) PROVE Expire(kk) \in T
  <2>1. kk.heap # <<>>
    BY <1>2 DEF Due
  <2>2. Kept(Expire(kk), k0)
    BY <2>1, ExpireKept
  <2>3. kk \in KType /\ HeapOf(kk.heap, Armed(kk.tm)) /\ NearK(kk)
    BY DEF Kept, KSound
  <2>4. NearK(Expire(kk))
    BY <2>1, <2>3, ExpireNear
  <2>5. Expire(kk) \in KType
    BY <2>2 DEF Kept, KSound
  <2> QED
    BY <2>2, <2>4, <2>5
<1>3. \A kk \in T : kk \in KType
  OBVIOUS
<1>4. PICK last \in T : Ends(r, last)
  <2> HIDE DEF T
  <2> QED
    BY <1>1, <1>2, <1>3, ExpireLoop
<1>5. NearK(last) /\ r.tm = last.tm
  BY <1>4 DEF Ends
<1> QED
  BY <1>5 DEF NearK

(* The steps.                                                              *)
NearStays == NearK(k') /\ NearTodo(todo') /\ ticks' <= MaxTicks

LEMMA UpdateNear ==
    ASSUME Fits, Goes, NearK(k), ticks <= MaxTicks, NEW off, update_hwtimer(off)
    PROVE  NearK(k')
<1>1. PICK r : r = k'
  OBVIOUS
<1>2. KSound(k, slp) /\ k \in KType /\ ticks \in Nat /\ ~SignalWakes
  BY DEF Goes, Sound, KSound
<1>3. CASE r = ExpireAll(k)
  <2>1. NearK(r)
    BY <1>2, <1>3, ExpireAllNear
  <2> QED
    BY <1>1, <2>1
<1>4. CASE r = [k EXCEPT !.fault = TRUE]
  <2>1. r.fault = TRUE
    BY <1>2, <1>4 DEF KType
  <2> QED
    BY <1>1, <2>1 DEF Goes
<1> QED
  BY <1>1, <1>3, <1>4 DEF update_hwtimer

LEMMA TodoNear ==
    ASSUME Goes, NearTodo(todo), cur \in Threads, NEW e,
           e.op = "arm" => e.value \in Delays /\ e.interval \in Intervals,
           NEW td, td = SetTodo(todo, cur, e)
    PROVE  NearTodo(td)
<1>1. todo \in [Threads -> TodoType]
  BY DEF Goes, Sound
<1>2. \A t \in Threads : td[t] = IF t = cur THEN e ELSE todo[t]
  BY <1>1 DEF SetTodo
<1> QED
  BY <1>2 DEF NearTodo

LEMMA NearSettime ==
    ASSUME Goes, NearK(k), NearTodo(todo), ticks <= MaxTicks, NEW i \in TimerIds, NEW abs \in Flags,
           NEW v \in Delays \cup {0}, NEW p \in Intervals, timer_settime_sys(i, abs, v, p)
    PROVE  NearStays
<1>1. PICK r, td, e : r = k' /\ td = todo'
                      /\ e = IF v = 0 THEN Done
                             ELSE [op |-> "arm", timer |-> i, value |-> v, interval |-> p]
  OBVIOUS
<1>2. k \in KType /\ HeapOf(k.heap, Armed(k.tm))
  BY DEF Goes, Sound, KSound
<1>3. r = Disarmed(k, i, abs) /\ cur \in Threads /\ ticks' = ticks
  BY <1>1 DEF timer_settime_sys, Disarmed, Ready, InCall
<1>4. NearK(r)
  BY <1>2, <1>3, DisarmNear
<1>5. e.op = "arm" => e.value \in Delays /\ e.interval \in Intervals
  BY <1>1 DEF Done
<1>6. td = SetTodo(todo, cur, e)
  BY <1>1 DEF timer_settime_sys, SetTodo
<1>7. NearTodo(td)
  BY <1>3, <1>5, <1>6, TodoNear
<1> QED
  BY <1>1, <1>3, <1>4, <1>7 DEF NearStays

LEMMA NearArm ==
    ASSUME Fits, Goes, NearK(k), NearTodo(todo), ticks <= MaxTicks, SettimeArm
    PROVE  NearStays
<1>1. PICK r, td, e, u : r = k' /\ td = todo' /\ e = todo[cur] /\ u = [op |-> "update"]
  OBVIOUS
<1>2. /\ k \in KType /\ HeapOf(k.heap, Armed(k.tm)) /\ ticks \in Nat
      /\ Arms(k.tm, todo) /\ todo \in [Threads -> TodoType]
  BY DEF Goes, Sound, KSound
<1>3. cur \in Threads /\ e.op = "arm" /\ r = arm_timer(k, e.timer, e.value, e.interval) /\ ticks' = ticks
  BY <1>1 DEF SettimeArm, InCall
<1>4. PICK i, v, p : i = e.timer /\ v = e.value /\ p = e.interval
  OBVIOUS
<1>5. i \in TimerIds /\ v \in Delays /\ p \in Periods
  <2>1. e \in TodoType
    BY <1>1, <1>2, <1>3
  <2>2. i \in TimerIds
    BY <1>3, <1>4, <2>1, ArmCall
  <2>3. v \in Delays /\ p \in Intervals
    BY <1>1, <1>3, <1>4 DEF NearTodo
  <2> QED
    BY <2>2, <2>3 DEF Periods
<1>6. k.tm[i].use /\ ~k.tm[i].armed
  BY <1>1, <1>2, <1>3, <1>4 DEF Arms, ToArm
<1>7. r = arm_timer(k, i, v, p)
  BY <1>3, <1>4
<1>8. NearK(r)
  BY <1>2, <1>5, <1>6, <1>7, ArmNear
<1>9. u.op # "arm" /\ td = SetTodo(todo, cur, u)
  BY <1>1 DEF SettimeArm, SetTodo
<1>10. NearTodo(td)
  BY <1>3, <1>9, TodoNear
<1> QED
  BY <1>1, <1>3, <1>8, <1>10 DEF NearStays

LEMMA NearSleep ==
    ASSUME Fits, Goes, NearK(k), NearTodo(todo), ticks <= MaxTicks, NEW d \in Delays, sleep_for(d)
    PROVE  NearStays
<1>1. PICK r, td, u, i, r1 : /\ r = k' /\ td = todo' /\ u = [op |-> "sleep"] /\ i = slp[cur]
                             /\ r1 = arm_timer(k, i, d, 0)
  OBVIOUS
<1>2. Sound(k, slp, todo, cur) /\ k \in KType /\ HeapOf(k.heap, Armed(k.tm)) /\ ticks \in Nat
  BY DEF Goes, Sound, KSound
<1>3. /\ cur \in Threads /\ todo[cur] = Done /\ ticks' = ticks
      /\ r = SetAsleep(r1, k.asleep \cup {cur})
  BY <1>1 DEF sleep_for, Ready, InCall, SetAsleep
<1>4. todo[cur].op # "sleep"
  BY <1>3 DEF Done
<1>5. i \in TimerIds /\ k.tm[i].use /\ ~k.tm[i].armed
  BY <1>1, <1>2, <1>3, <1>4, Caller DEF OwnTimer
<1>6. d \in Nat /\ 0 \in Nat /\ 0 \in Periods
  BY TimersAssumption DEF Periods
<1>7. r1 \in KType
  BY <1>1, <1>2, <1>5, <1>6, ArmAsleep
<1>8. NearK(r1)
  BY <1>1, <1>2, <1>5, <1>6, ArmNear
<1>9. r.tm = r1.tm
  BY <1>3, <1>7 DEF KType, SetAsleep
<1>10. NearK(r)
  BY <1>8, <1>9 DEF NearK
<1>11. u.op # "arm" /\ td = SetTodo(todo, cur, u)
  BY <1>1 DEF sleep_for, SetTodo
<1>12. NearTodo(td)
  BY <1>3, <1>11, TodoNear
<1> QED
  BY <1>1, <1>3, <1>10, <1>12 DEF NearStays

LEMMA NearUpdate ==
    ASSUME Fits, Goes, NearK(k), NearTodo(todo), ticks <= MaxTicks, SettimeUpdate \/ SleepUpdate
    PROVE  NearStays
<1>1. PICK td, u : td = todo' /\ u = Done
  OBVIOUS
<1>2. cur \in Threads /\ update_hwtimer(hw) /\ ticks' = ticks /\ td = SetTodo(todo, cur, u)
  BY <1>1 DEF SettimeUpdate, SleepUpdate, InCall, SetTodo
<1>3. NearK(k')
  BY <1>2, UpdateNear
<1>4. u.op # "arm"
  BY <1>1 DEF Done
<1>5. NearTodo(td)
  BY <1>2, <1>4, TodoNear
<1> QED
  BY <1>1, <1>2, <1>3, <1>5 DEF NearStays

LEMMA NearOthers ==
    ASSUME Fits, Goes, NearK(k), NearTodo(todo), ticks <= MaxTicks,
           \/ ThreadExit \/ timer_create_sys \/ ClockIrq \/ Tick
           \/ \E t \in Threads : ThreadCreate(t)
           \/ \E i \in TimerIds : timer_delete_sys(i)
    PROVE  NearStays
<1>1. PICK r : r = k'
  OBVIOUS
<1>2. /\ Sound(k, slp, todo, cur) /\ KSound(k, slp) /\ k \in KType /\ HeapOf(k.heap, Armed(k.tm))
      /\ ticks \in Nat /\ ~r.fault
  BY <1>1 DEF Goes, Sound, KSound
<1>3. ASSUME NearK(r), todo' = todo, ticks' = ticks PROVE NearStays
  BY <1>1, <1>3 DEF NearStays
<1>4. CASE ThreadExit
  <2>1. PICK i : i = slp[cur]
    OBVIOUS
  <2>2. r = free_ktimer(k, i) /\ cur \in Threads /\ todo' = todo /\ ticks' = ticks
    BY <1>1, <1>4, <2>1 DEF ThreadExit, Ready, InCall
  <2>3. i \in TimerIds
    BY <1>2, <2>1, <2>2 DEF Sound, KSound
  <2>4. NearK(r)
    BY <1>2, <2>2, <2>3, FreeNear
  <2> QED
    BY <1>3, <2>2, <2>4
<1>5. CASE timer_create_sys
  <2>1. r = alloc_ktimer(k, cur, "kill") /\ cur \in Threads /\ todo' = todo /\ ticks' = ticks
    BY <1>1, <1>5 DEF timer_create_sys, Ready, InCall
  <2>2. NearK(r)
    BY <1>2, <2>1, AllocNear
  <2> QED
    BY <1>3, <2>1, <2>2
<1>6. CASE ClockIrq
  <2>1. update_hwtimer(Off) /\ todo' = todo /\ ticks' = ticks
    BY <1>6 DEF ClockIrq
  <2>2. NearK(r)
    BY <1>1, <2>1, UpdateNear
  <2> QED
    BY <1>3, <2>1, <2>2
<1>7. CASE Tick
  <2>1. k' = k /\ todo' = todo /\ ticks' = ticks + 1 /\ ticks < MaxTicks
    BY <1>7 DEF Tick
  <2>2. ticks' <= MaxTicks
    BY <1>2, <2>1, TimersAssumption
  <2> QED
    BY <2>1, <2>2 DEF NearStays
<1>8. ASSUME NEW t \in Threads, ThreadCreate(t) PROVE NearStays
  <2>1. r = alloc_ktimer(k, t, "wakeup") /\ todo' = todo /\ ticks' = ticks
    BY <1>1, <1>8 DEF ThreadCreate
  <2>2. NearK(r)
    BY <1>2, <2>1, AllocNear
  <2> QED
    BY <1>3, <2>1, <2>2
<1>9. ASSUME NEW i \in TimerIds, timer_delete_sys(i) PROVE NearStays
  <2>1. r = free_ktimer(k, i) /\ todo' = todo /\ ticks' = ticks
    BY <1>1, <1>9 DEF timer_delete_sys
  <2>2. NearK(r)
    BY <1>2, <2>1, FreeNear
  <2> QED
    BY <1>3, <2>1, <2>2
<1> QED
  BY <1>4, <1>5, <1>6, <1>7, <1>8, <1>9

LEMMA NearStep ==
    ASSUME Fits, ~SignalWakes, ~SharedTimers, TimersInv, NearInv, [Next]_vars
    PROVE  NearInv'
<1>1. CASE UNCHANGED vars
  BY <1>1 DEF NearInv, NearK, NearTodo, vars
<1>2. CASE Next
  <2>1. ~k.fault
    BY <1>2 DEF Next, ThreadExit, timer_create_sys, SettimeArm, SettimeUpdate, SleepUpdate, ClockIrq,
                Tick, ThreadCreate, sleep_for, timer_delete_sys, timer_settime_sys, Ready, InCall
  <2>2. SUFFICES ASSUME ~k'.fault PROVE NearStays
    BY DEF NearInv, NearStays
  <2>3. Goes /\ NearK(k) /\ NearTodo(todo) /\ ticks <= MaxTicks
    BY <2>1, <2>2 DEF Goes, TimersInv, NearInv
  <2>4. ASSUME NEW i \in TimerIds, NEW abs \in BOOLEAN, NEW v \in Delays \cup {0},
               NEW p \in Intervals, timer_settime_sys(i, abs, v, p)
        PROVE  NearStays
    <3>1. abs \in Flags
      BY DEF Flags
    <3> QED
      BY <2>3, <2>4, <3>1, NearSettime
  <2> QED
    BY <1>2, <2>3, <2>4, NearArm, NearSleep, NearUpdate, NearOthers DEF Next
<1> QED
  BY <1>1, <1>2

LEMMA NearInit == Init => NearInv
<1> SUFFICES ASSUME Init PROVE NearK(k) /\ NearTodo(todo) /\ ticks <= MaxTicks
  BY DEF NearInv
<1>1. PICK first \in Threads :
        /\ k = [tm     |-> [i \in TimerIds |->
                              IF i = 0 THEN [Unused EXCEPT !.use = TRUE, !.owner = first]
                              ELSE Unused],
                heap   |-> <<>>,
                asleep |-> {},
                fault  |-> FALSE]
        /\ todo = [t \in Threads |-> Done]
        /\ ticks = 0
  BY DEF Init
<1>2. \A i \in TimerIds : ~k.tm[i].armed /\ k.tm[i].interval = 0
  <2>1. PICK x : x = [Unused EXCEPT !.use = TRUE, !.owner = first]
    OBVIOUS
  <2>2. k.tm = [i \in TimerIds |-> IF i = 0 THEN x ELSE Unused]
    BY <1>1, <2>1
  <2>3. ~x.armed /\ x.interval = 0 /\ ~Unused.armed /\ Unused.interval = 0
    BY <2>1 DEF Unused
  <2> QED
    BY <2>2, <2>3
<1>3. NearK(k)
  BY <1>2 DEF NearK, TimerNear, Periods
<1>4. NearTodo(todo)
  BY <1>1 DEF NearTodo, Done
<1> QED
  BY <1>1, <1>3, <1>4, TimersAssumption

(* Half a word from boot on, all timers are of one word: the circumstances *)
(* of the two theorems above do arise.                                     *)
THEOREM InWordHolds == Fits /\ ~SignalWakes /\ ~SharedTimers => (Spec => []InWord)
<1> SUFFICES ASSUME Fits, ~SignalWakes, ~SharedTimers PROVE Spec => []InWord
  OBVIOUS
<1>1. Init => TimersInv /\ NearInv
  BY TimersInit, NearInit
<1>2. TimersInv /\ [Next]_vars => TimersInv'
  BY TimersStep
<1>3. TimersInv /\ NearInv /\ [Next]_vars => NearInv'
  BY NearStep
<1>4. TimersInv /\ NearInv => InWord
  BY NearInWord
<1> QED
  BY <1>1, <1>2, <1>3, <1>4, PTL DEF Spec

LEMMA FewTimers == ASSUME MAX_TIMERS <= 5, TimersInv PROVE Few
<1> SUFFICES ASSUME ~k.fault PROVE Len(k.heap) <= 5
  BY DEF Few, Short
<1>1. PICK h : h = k.heap
  OBVIOUS
<1>2. HeapOf(h, Armed(k.tm))
  BY <1>1 DEF TimersInv, Sound, KSound
<1>3. Len(h) \in Nat /\ Len(h) <= MAX_TIMERS
  BY <1>2, HeapLen
<1> QED
  BY <1>1, <1>3, Sizes

(* The two theorems with assumptions on the constants only, which those of *)
(* the run timers meet: for up to five timers, and delays and periods of   *)
(* any length that keep below half a word, every sleeper is woken in time, *)
(* not before, and the hardware timer covers the first timer.              *)
THEOREM SmallSystem ==
    ~SignalWakes /\ ~SharedTimers /\ MAX_TIMERS <= 5 /\ TicksPer > 1 /\ Fits
        => (Spec => []HwCovers /\ SleepExact)
<1> SUFFICES ASSUME ~SignalWakes, ~SharedTimers, MAX_TIMERS <= 5, TicksPer > 1, Fits
             PROVE  Spec => []HwCovers /\ SleepExact
  OBVIOUS
<1>1. Spec => []InWord
  BY InWordHolds
<1>2. Init => TimersInv
  BY TimersInit
<1>3. TimersInv /\ [Next]_vars => TimersInv'
  BY TimersStep
<1>4. TimersInv => Few
  BY FewTimers
<1>5. Spec => []Few
  BY <1>2, <1>3, <1>4, PTL DEF Spec
<1>6. Spec /\ []Few /\ []InWord => []HwCovers
  BY HwCoversHolds
<1>7. Spec /\ []Few /\ []InWord => SleepExact
  BY SleepExactHolds
<1> QED
  BY <1>1, <1>5, <1>6, <1>7, PTL
=============================================================================
