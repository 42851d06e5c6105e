--------------------------- MODULE MutexCondProofs ---------------------------
(***************************************************************************)
(* Proofs about MutexCond, for every set of threads, priorities and roles. *)
(***************************************************************************)
EXTENDS MutexCond, KThreadsProofs

(* WakeAll follows its recursion: every element of the walk is what one    *)
(* round of the loop makes of the one before.                              *)
Round(b) ==
    IF b[2].head = NULL THEN b
    ELSE <<activate_thread(b[1], b[2].head), remove_head_pthread_list(b[2])>>

Good(prio) == {b \in KType \X ListType : KSound(b[1]) /\ b[1].prio = prio}

LEMMA WakeAllWalks ==
    ASSUME NEW kk, KSound(kk), NEW l \in ListType
    PROVE  \E a \in [0 .. 2 * Cardinality(Threads) -> Good(kk.prio)] :
               /\ a[0] = <<kk, l>> /\ \A i \in 1 .. 2 * Cardinality(Threads) : a[i] = Round(a[i - 1])
               /\ WakeAll(kk, l) = a[2 * Cardinality(Threads)]
<1> DEFINE N == 2 * Cardinality(Threads)
           S == Good(kk.prio)
           g == [b \in S |-> Round(b)]
           Walk(a) == [n \in 0 .. N |-> IF n = 0 THEN <<kk, l>> ELSE Round(a[n - 1])]
           after == CHOOSE a : a = Walk(a)
<1>1. N \in Nat
  BY FS_CardinalityType, KThreadsAssumption
<1>2. WakeAll(kk, l) = after[N]
  BY DEF WakeAll, Round
<1> HIDE DEF N
<1>3. <<kk, l>> \in S
  BY DEF KSound, Good
<1>4. g \in [S -> S]
  <2> SUFFICES ASSUME NEW b \in S PROVE Round(b) \in S
    OBVIOUS
  <2>1. KSound(b[1]) /\ b[1].prio = kk.prio /\ b[1] \in KType /\ b[2] \in ListType
    BY DEF Good
  <2>2. CASE b[2].head = NULL
    BY <2>2 DEF Round
  <2>3. CASE b[2].head # NULL
    <3> DEFINE c == activate_thread(b[1], b[2].head)
               r == remove_head_pthread_list(b[2])
    <3>1. b[2].head \in Threads
      BY <2>1, <2>3 DEF ListType
    <3>2. KSound(c) /\ c.prio = b[1].prio
      BY <2>1, <3>1, ActivateSound
    <3>3. r \in ListType
      BY <2>1, RemoveHeadType
    <3>4. Round(b) = <<c, r>>
      BY <2>3 DEF Round
    <3> HIDE DEF c, r
    <3> QED
      BY <2>1, <3>2, <3>3, <3>4 DEF Good, KSound
  <2> QED
    BY <2>2, <2>3
<1>5. PICK f \in [0 .. N -> S] : f[0] = <<kk, l>> /\ \A i \in 1 .. N : f[i] = g[f[i - 1]]
  <2> HIDE DEF g, S
  <2>1. Iterates(S, <<kk, l>>, g, N)
    BY <1>1, <1>3, <1>4, Iterate
  <2> QED
    BY <2>1 DEF Iterates
<1>6. \A i \in 1 .. N : f[i - 1] \in S /\ f[i] = Round(f[i - 1])
  <2> SUFFICES ASSUME NEW i \in 1 .. N PROVE f[i - 1] \in S /\ f[i] = Round(f[i - 1])
    OBVIOUS
  <2> HIDE DEF S
  <2>1. f[i - 1] \in S
    BY <1>1, <1>5
  <2> QED
    BY <1>5, <2>1
<1>7. f = Walk(f)
  <2>1. \A n \in 0 .. N : f[n] = Walk(f)[n]
    <3> SUFFICES ASSUME NEW n \in 0 .. N PROVE f[n] = Walk(f)[n]
      OBVIOUS
    <3> HIDE DEF S
    <3>1. CASE n = 0
      BY <1>5, <3>1
    <3>2. CASE n # 0
      BY <1>1, <1>6, <3>2
    <3> QED
      BY <3>1, <3>2
  <2> QED
    BY <1>5, <2>1
<1>8. after = Walk(after)
  <2> HIDE DEF Walk
  <2> QED
    BY <1>7
<1> HIDE DEF after
<1>9. after[0] = <<kk, l>> /\ \A i \in 1 .. N : after[i] = Round(after[i - 1])
  <2>1. after[0] = <<kk, l>>
    BY <1>1, <1>8
  <2>2. ASSUME NEW i \in 1 .. N PROVE after[i] = Round(after[i - 1])
    <3>1. Walk(after)[i] = Round(after[i - 1])
      BY <1>1
    <3> HIDE DEF Walk
    <3> QED
      BY <1>8, <3>1
  <2> QED
    BY <2>1, <2>2
<1>10. \A i \in 0 .. N : after[i] = f[i]
  <2> DEFINE T == {i \in Nat : i \in 0 .. N => after[i] = f[i]}
  <2>1. 0 \in T
    BY <1>5, <1>9
  <2>2. ASSUME NEW i \in Nat, i \in T PROVE i + 1 \in T
    <3> SUFFICES ASSUME i + 1 \in 0 .. N PROVE after[i + 1] = f[i + 1]
      OBVIOUS
    <3>1. i \in 0 .. N /\ after[i] = f[i] /\ i + 1 \in 1 .. N /\ (i + 1) - 1 = i
      BY <1>1, <2>2
    <3> QED
      BY <1>6, <1>9, <3>1
  <2>3. T = Nat
    <3> HIDE DEF T
    <3>1. T \in SUBSET Nat
      BY DEF T
    <3> QED
      BY <2>1, <2>2, <3>1, Induct
  <2> QED
    BY <1>1, <2>3
<1>11. WakeAll(kk, l) = f[N]
  BY <1>1, <1>2, <1>10
<1> HIDE DEF S
<1> QED
  BY <1>5, <1>6, <1>11 DEF N, S

(* Only threads of U are in the list, or in what follows of it.            *)
Within(l, U) == l.head \in U \cup {NULL} /\ \A t \in Threads : l.next[t] \in U \cup {NULL}

LEMMA RemoveHeadWithin ==
    ASSUME NEW l \in ListType, NEW U, Within(l, U)
    PROVE  Within(remove_head_pthread_list(l), U)
<1>1. CASE l.head = NULL
  BY <1>1 DEF remove_head_pthread_list
<1>2. CASE l.head # NULL
  <2> DEFINE r == remove_head_pthread_list(l)
  <2>1. l.head \in Threads /\ l.next \in [Threads -> Threads \cup {NULL}]
    BY <1>2 DEF ListType
  <2>2. r.head = l.next[l.head] /\ r.next = [l.next EXCEPT ![l.head] = NULL]
    BY <1>2 DEF remove_head_pthread_list
  <2> HIDE DEF r
  <2>3. Within(r, U)
    BY <2>1, <2>2 DEF Within
  <2> QED
    BY <2>3 DEF r
<1> QED
  BY <1>1, <1>2

(* WakeAll keeps priorities, and changes the state of threads of the list  *)
(* only.                                                                   *)
LEMMA WakeAllKeeps ==
    ASSUME NEW kk, KSound(kk), NEW l \in ListType, NEW U, Within(l, U)
    PROVE  LET w == WakeAll(kk, l)
           IN  /\ KSound(w[1]) /\ w[1].prio = kk.prio /\ w[2] \in ListType /\ Within(w[2], U)
               /\ \A t \in Threads : w[1].st[t] # kk.st[t] => w[1].st[t] = "READY" /\ t \in U
<1> DEFINE N == 2 * Cardinality(Threads)
<1>1. PICK a \in [0 .. N -> Good(kk.prio)] :
          a[0] = <<kk, l>> /\ (\A i \in 1 .. N : a[i] = Round(a[i - 1])) /\ WakeAll(kk, l) = a[N]
  BY WakeAllWalks
<1>2. N \in Nat
  BY FS_CardinalityType, KThreadsAssumption
<1> HIDE DEF N
<1>3. \A i \in 0 .. N : /\ KSound(a[i][1]) /\ a[i][1].prio = kk.prio /\ a[i][2] \in ListType
                        /\ a[i][1].st \in [Threads -> States]
  BY <1>1 DEF Good, KType
<1> DEFINE P(i) == Within(a[i][2], U) /\ \A t \in Threads : a[i][1].st[t] # kk.st[t] => a[i][1].st[t] = "READY" /\ t \in U
           T == {i \in Nat : i \in 0 .. N => P(i)}
<1>4. 0 \in T
  BY <1>1
<1>5. ASSUME NEW i \in Nat, i \in T PROVE i + 1 \in T
  <2> SUFFICES ASSUME i + 1 \in 0 .. N PROVE P(i + 1)
    OBVIOUS
  <2>1. i \in 0 .. N /\ i + 1 \in 1 .. N /\ (i + 1) - 1 = i /\ P(i)
    BY <1>2, <1>5
  <2>2. a[i + 1] = Round(a[i])
    BY <1>1, <2>1
  <2>3. CASE a[i][2].head = NULL
    BY <2>1, <2>2, <2>3 DEF Round
  <2>4. CASE a[i][2].head # NULL
    <3> DEFINE b == a[i][1]
               m == a[i][2]
    <3>1. m.head \in Threads /\ m.head \in U /\ KSound(b) /\ m \in ListType /\ b.st \in [Threads -> States]
      BY <1>3, <2>1, <2>4 DEF ListType, Within
    <3>2. a[i + 1] = <<activate_thread(b, m.head), remove_head_pthread_list(m)>>
      BY <2>2, <2>4 DEF Round
    <3> HIDE DEF b, m
    <3>3. activate_thread(b, m.head).st = [b.st EXCEPT ![m.head] = IF @ = "FINISHED" THEN @ ELSE "READY"]
      BY <3>1, ActivateSound
    <3>4. \A t \in Threads : activate_thread(b, m.head).st[t] # b.st[t] =>
                                 activate_thread(b, m.head).st[t] = "READY" /\ t \in U
      BY <3>1, <3>3
    <3>5. Within(remove_head_pthread_list(m), U)
      BY <2>1, <3>1, RemoveHeadWithin DEF m
    <3> QED
      BY <2>1, <3>2, <3>4, <3>5 DEF b
  <2> QED
    BY <2>3, <2>4
<1>6. T = Nat
  <2> HIDE DEF T
  <2>1. T \in SUBSET Nat
    BY DEF T
  <2> QED
    BY <1>4, <1>5, <2>1, Induct
<1>7. P(N)
  BY <1>2, <1>6
<1> QED
  BY <1>1, <1>2, <1>3, <1>7

(* WakeAll wakes every thread of a sound list, and empties it.             *)
Woken(kk, l, w) ==
    /\ ListSound(w[2]) /\ Linked(w[2]) = {}
    /\ \A t \in Threads : w[1].st[t] = IF t \in Linked(l) /\ kk.st[t] # "FINISHED"
                                       THEN "READY" ELSE kk.st[t]

LEMMA WakeAllEmpties ==
    ASSUME NEW kk, KSound(kk), NEW l, ListSound(l)
    PROVE  Woken(kk, l, WakeAll(kk, l))
<1> DEFINE N == 2 * Cardinality(Threads)
<1>0. l \in ListType /\ Linked(l) \subseteq Threads
  BY HeadSound
<1>1. PICK a \in [0 .. N -> Good(kk.prio)] :
          a[0] = <<kk, l>> /\ (\A i \in 1 .. N : a[i] = Round(a[i - 1])) /\ WakeAll(kk, l) = a[N]
  BY <1>0, WakeAllWalks
<1>2. N \in Nat /\ Cardinality(Threads) \in Nat /\ Cardinality(Threads) <= N
  BY FS_CardinalityType, KThreadsAssumption
<1> HIDE DEF N
<1>3. \A i \in 0 .. N : KSound(a[i][1]) /\ a[i][1].st \in [Threads -> States]
  BY <1>1 DEF Good, KType
<1>4. kk.st \in [Threads -> States]
  BY DEF KSound, KType
<1> DEFINE Rest(i) == Linked(a[i][2])
           P(i) == /\ ListSound(a[i][2]) /\ Rest(i) \subseteq Linked(l)
                   /\ Rest(i) = {} \/ Cardinality(Rest(i)) + i <= Cardinality(Threads)
                   /\ \A t \in Threads :
                          a[i][1].st[t] = IF t \in Linked(l) \ Rest(i) /\ kk.st[t] # "FINISHED"
                                          THEN "READY" ELSE kk.st[t]
           T == {i \in Nat : i \in 0 .. N => P(i)}
<1>5. P(0)
  <2>1. Cardinality(Linked(l)) <= Cardinality(Threads) /\ Cardinality(Linked(l)) \in Nat
    BY <1>0, FS_Subset, FS_CardinalityType, KThreadsAssumption
  <2>2. a[0][1] = kk /\ a[0][2] = l
    BY <1>1
  <2> QED
    BY <1>2, <2>1, <2>2
<1>6. ASSUME NEW i \in Nat, i \in T PROVE i + 1 \in T
  <2> SUFFICES ASSUME i + 1 \in 0 .. N PROVE P(i + 1)
    OBVIOUS
  <2>1. i \in 0 .. N /\ i + 1 \in 1 .. N /\ (i + 1) - 1 = i /\ P(i)
    BY <1>2, <1>6
  <2>2. a[i + 1] = Round(a[i])
    BY <1>1, <2>1
  <2>3. CASE a[i][2].head = NULL
    <3>1. a[i + 1] = a[i]
      BY <2>2, <2>3 DEF Round
    <3>2. Rest(i) = {}
      BY <2>1, <2>3, HeadSound
    <3> QED
      BY <2>1, <3>1, <3>2
  <2>4. CASE a[i][2].head # NULL
    <3> DEFINE b == a[i][1]
               m == a[i][2]
               c == activate_thread(b, m.head)
               r == remove_head_pthread_list(m)
    <3>1. /\ m.head \in Linked(m) /\ m.head \in Threads /\ ListSound(m) /\ KSound(b)
          /\ b.st \in [Threads -> States] /\ Linked(m) \subseteq Threads
      BY <1>3, <2>1, <2>4, HeadSound
    <3>2. a[i + 1] = <<c, r>>
      BY <2>2, <2>4 DEF Round
    <3>3. /\ Linked(m) \subseteq Linked(l)
          /\ Linked(m) = {} \/ Cardinality(Linked(m)) + i <= Cardinality(Threads)
          /\ \A t \in Threads : b.st[t] = IF t \in Linked(l) \ Linked(m) /\ kk.st[t] # "FINISHED"
                                          THEN "READY" ELSE kk.st[t]
      BY <2>1
    <3> HIDE DEF b, m
    <3>4. c.st = [b.st EXCEPT ![m.head] = IF @ = "FINISHED" THEN @ ELSE "READY"]
      BY <3>1, ActivateSound
    <3>5. ListSound(r) /\ Linked(r) = Linked(m) \ {m.head}
      BY <3>1, RemoveHeadSound
    <3> HIDE DEF c, r
    <3>6. IsFiniteSet(Linked(m))
      BY <3>1, FS_Subset, KThreadsAssumption
    <3>7. Cardinality(Linked(r)) = Cardinality(Linked(m)) - 1 /\ Cardinality(Linked(m)) \in Nat
      BY <3>1, <3>5, <3>6, FS_RemoveElement, FS_CardinalityType
    <3>8. \A t \in Threads : c.st[t] = IF t \in Linked(l) \ Linked(r) /\ kk.st[t] # "FINISHED"
                                       THEN "READY" ELSE kk.st[t]
      <4> SUFFICES ASSUME NEW t \in Threads
                   PROVE  c.st[t] = IF t \in Linked(l) \ Linked(r) /\ kk.st[t] # "FINISHED"
                                    THEN "READY" ELSE kk.st[t]
        OBVIOUS
      <4>1. CASE t = m.head
        BY <3>1, <3>3, <3>4, <3>5, <4>1
      <4>2. CASE t # m.head
        BY <3>1, <3>3, <3>4, <3>5, <4>2
      <4> QED
        BY <4>1, <4>2
    <3>9. Cardinality(Linked(r)) + (i + 1) <= Cardinality(Threads)
      BY <1>2, <3>1, <3>3, <3>7
    <3>10. a[i + 1][1] = c /\ a[i + 1][2] = r
      BY <3>2
    <3> QED
      BY <3>3, <3>5, <3>8, <3>9, <3>10
  <2> QED
    BY <2>3, <2>4
<1>7. T = Nat
  <2> HIDE DEF T, P
  <2>0. 0 \in T
    BY <1>5 DEF T
  <2>1. T \in SUBSET Nat
    BY DEF T
  <2> QED
    BY <1>6, <2>0, <2>1, Induct
<1>8. P(N)
  <2> HIDE DEF P
  <2> QED
    BY <1>2, <1>7
<1>9. Rest(N) = {}
  <2> SUFFICES ASSUME Rest(N) # {} PROVE FALSE
    OBVIOUS
  <2>1. IsFiniteSet(Rest(N)) /\ Cardinality(Rest(N)) \in Nat
    BY <1>0, <1>8, FS_Subset, FS_CardinalityType, KThreadsAssumption
  <2>2. Cardinality(Rest(N)) # 0
    BY <2>1, FS_EmptySet
  <2>3. Cardinality(Rest(N)) + N <= Cardinality(Threads)
    BY <1>8
  <2> HIDE DEF Rest
  <2> QED
    BY <1>2, <2>1, <2>2, <2>3
<1> QED
  BY <1>1, <1>8, <1>9 DEF Woken

-----------------------------------------------------------------------------
(* The types, as the proofs need them: the ready queues are sound, the     *)
(* ceiling is one that the application sets, and a lock call returns to    *)
(* the application or to setprioceiling.                                   *)
TypeInv ==
    /\ role \in Roles /\ KSound(k) /\ cur \in Threads \cup {Idle}
    /\ mutex \in MutexType /\ mutex.ceil \in role.ceil /\ cond \in ListType
    /\ pc \in [Threads -> PCs] /\ then \in [Threads -> {"run", "ceil"}]
    /\ held \in [Threads -> Int] /\ timer \in [Threads -> BOOLEAN]

(* What a step does to the mutex, and where its thread goes on.            *)
Mutex(owner, counter, prio, list) ==
    /\ mutex' \in MutexType /\ mutex'.ceil = mutex.ceil
    /\ mutex'.owner = owner /\ mutex'.counter = counter
    /\ mutex'.owner_prio = prio /\ mutex'.list = list

Moves(t, P) ==
    /\ pc' \in [Threads -> PCs] /\ then' \in [Threads -> {"run", "ceil"}]
    /\ pc'[t] \in P /\ \A u \in Threads \ {t} : pc'[u] = pc[u] /\ then'[u] = then[u]

Holds(t, n) == held' \in [Threads -> Int] /\ held' = [held EXCEPT ![t] = n]

(* A lock call that returns to setprioceiling was made by a thread that    *)
(* did not hold the mutex.                                                 *)
AsksCeiling(t) == held[t] = 0 \/ (pc[t] = "lock" /\ then[t] = "ceil")

(* The calls lock and trylock where the mutex is free, where the caller    *)
(* has it, and where it has to wait.                                       *)
Takes(t) ==
    LET raise == role.prot = "PROTECT" /\ k.prio[t] > mutex.ceil
    IN  /\ cur = t /\ pc[t] \in {"run", "lock"} /\ (pc[t] = "run" => t \in role.users)
        /\ mutex.owner = NULL
        /\ \E c \in Nat :
               /\ role.type = "RECURSIVE" /\ ~role.tryfirst => c = 1 \/ held[t] >= 1
               /\ pc'[t] = "ceil" => c = 1
               /\ Mutex(t, c, IF role.prot = "PROTECT" THEN k.prio[t] ELSE mutex.owner_prio, mutex.list)
        /\ k' = IF raise THEN change_thread_prio(k, t, mutex.ceil) ELSE k
        /\ cur' = IF raise THEN scheduling(k') ELSE cur
        /\ Holds(t, held[t] + 1) /\ Moves(t, {"run", "ceil"})
        /\ UNCHANGED <<role, cond, timer>>

TakesAgain(t) ==
    /\ cur = t /\ mutex.owner = t /\ pc[t] \in {"run", "lock"} /\ (pc'[t] = "ceil" => AsksCeiling(t))
    /\ \/ /\ role.type = "RECURSIVE" /\ Mutex(t, mutex.counter + 1, mutex.owner_prio, mutex.list)
          /\ Holds(t, held[t] + 1)
       \/ UNCHANGED <<mutex, held>>
    /\ Moves(t, {"run", "ceil"}) /\ UNCHANGED <<role, k, cur, cond, timer>>

Blocks(t) ==
    /\ cur = t /\ pc[t] \in {"run", "lock"} /\ (pc[t] = "run" => t \in role.users)
    /\ mutex.owner # NULL
    /\ Mutex(mutex.owner, mutex.counter, mutex.owner_prio, insert_pthread_list(mutex.list, t))
    /\ k' = suspend_thread(k, t) /\ cur' = scheduling(k')
    /\ Moves(t, {"lock"}) /\ (then'[t] = "ceil" => AsksCeiling(t)) /\ UNCHANGED <<role, cond, timer, held>>

(* An unlock that counts down, and one that releases the mutex.            *)
After(t) == {"run"} \cup (IF t \in role.timed THEN {"wait", "timed"} ELSE {"wait"})

CountsDown(t) ==
    /\ cur = t /\ mutex.owner = t /\ role.type = "RECURSIVE" /\ mutex.counter > 1
    /\ Mutex(t, mutex.counter - 1, mutex.owner_prio, mutex.list)
    /\ Holds(t, held[t] - 1) /\ Moves(t, After(t)) /\ UNCHANGED <<role, k, cur, cond, timer>>

Releases(t) ==
    LET w == WakeAll(k, mutex.list)
        lower == role.prot = "PROTECT" /\ mutex.owner_prio # w[1].prio[t]
    IN  /\ cur = t /\ mutex.owner = t /\ ~(role.type = "RECURSIVE" /\ mutex.counter > 1)
        /\ Mutex(NULL, 0, mutex.owner_prio, w[2])
        /\ k' = IF lower THEN change_thread_prio(w[1], t, mutex.owner_prio) ELSE w[1]
        /\ cur' = IF lower THEN scheduling(k') ELSE cur
        /\ Holds(t, held[t] - 1) /\ Moves(t, After(t))
        /\ UNCHANGED <<role, cond, timer>>

(* Blocking on the condition.                                              *)
Waits(t) ==
    /\ cur = t /\ pc[t] \in {"wait", "timed"}
    /\ k' = suspend_thread(k, t) /\ cur' = scheduling(k')
    /\ cond' = insert_pthread_list(cond, t)
    /\ timer' \in [Threads -> BOOLEAN] /\ (pc[t] = "wait" => timer' = timer)
    /\ Moves(t, {IF pc[t] = "wait" THEN "lock" ELSE "woken"}) /\ then'[t] = "run"
    /\ UNCHANGED <<role, mutex, held>>

LEMMA UnlockKinds ==
    ASSUME TypeInv, NEW t \in Threads, cur = t, mutex.owner = t, Unlock(t), Holding(t, held[t] - 1),
           Moves(t, After(t)), UNCHANGED <<role, cond, timer>>
    PROVE  CountsDown(t) \/ Releases(t)
<1>1. mutex \in MutexType /\ mutex.counter \in Nat /\ held \in [Threads -> Int] /\ KSound(k)
  BY DEF TypeInv, MutexType
<1>2. Holds(t, held[t] - 1)
  BY <1>1 DEF Holding, Holds
<1>3. CASE role.type = "RECURSIVE" /\ mutex.counter - 1 > 0
  <2>1. mutex' = [mutex EXCEPT !.counter = @ - 1] /\ UNCHANGED <<k, cur>>
    BY <1>3 DEF Unlock
  <2>2. Mutex(t, mutex.counter - 1, mutex.owner_prio, mutex.list)
    BY <1>1, <1>3, <2>1 DEF Mutex, MutexType
  <2> QED
    BY <1>1, <1>2, <1>3, <2>1, <2>2 DEF CountsDown
<1>4. CASE ~(role.type = "RECURSIVE" /\ mutex.counter - 1 > 0)
  <2> DEFINE w == WakeAll(k, mutex.list)
  <2>1. /\ mutex' = [mutex EXCEPT !.owner = NULL, !.counter = 0, !.list = w[2]]
        /\ k' = IF Lower(w[1], t) THEN change_thread_prio(w[1], t, mutex.owner_prio) ELSE w[1]
        /\ cur' = IF Lower(w[1], t) THEN scheduling(k') ELSE cur
    BY <1>4 DEF Unlock
  <2>2. w[2] \in ListType
    <3>1. mutex.list \in ListType /\ Within(mutex.list, Threads)
      BY <1>1 DEF MutexType, ListType, Within
    <3> QED
      BY <1>1, <3>1, WakeAllKeeps
  <2> HIDE DEF w
  <2>3. Mutex(NULL, 0, mutex.owner_prio, w[2])
    BY <1>1, <2>1, <2>2 DEF Mutex, MutexType
  <2>4. ~(role.type = "RECURSIVE" /\ mutex.counter > 1)
    BY <1>1, <1>4
  <2> QED
    BY <1>2, <2>1, <2>3, <2>4 DEF Releases, Lower, w
<1> QED
  BY <1>3, <1>4

LEMMA LockKinds ==
    ASSUME TypeInv, NEW t \in Threads, cur = t, pc[t] \in {"run", "lock"}, pc[t] = "run" => t \in role.users,
           NEW ret \in {"run", "ceil"}, ret = "ceil" => AsksCeiling(t), LockLoop(t, ret),
           UNCHANGED <<role, cond, timer>>
    PROVE  Takes(t) \/ TakesAgain(t) \/ Blocks(t)
<1>1. /\ mutex \in MutexType /\ mutex.counter \in Nat /\ held \in [Threads -> Int] /\ KSound(k)
      /\ k.prio[t] \in Prios /\ pc \in [Threads -> PCs] /\ then \in [Threads -> {"run", "ceil"}]
  BY DEF TypeInv, MutexType, KSound, KType
<1>2. then' = [then EXCEPT ![t] = ret]
  BY DEF LockLoop
<1>3. ASSUME Goto(t, ret) PROVE Moves(t, {"run", "ceil"}) /\ pc'[t] = ret
  BY <1>1, <1>2, <1>3 DEF Goto, Moves, PCs
<1>4. CASE mutex.owner = NULL
  <2>1. Take(t, 1) /\ Goto(t, ret)
    BY <1>4 DEF LockLoop
  <2>2. Mutex(t, 1, IF role.prot = "PROTECT" THEN k.prio[t] ELSE mutex.owner_prio, mutex.list)
    BY <1>1, <2>1 DEF Take, Mutex, MutexType
  <2>3. Holds(t, held[t] + 1)
    BY <1>1, <2>1 DEF Take, Holding, Holds
  <2> QED
    BY <1>3, <1>4, <2>1, <2>2, <2>3 DEF Takes, Take
<1>5. CASE mutex.owner = t /\ role.type = "RECURSIVE"
  <2>1. Again(t) /\ Goto(t, ret)
    BY <1>5, KThreadsAssumption DEF LockLoop
  <2>2. Mutex(t, mutex.counter + 1, mutex.owner_prio, mutex.list)
    BY <1>1, <1>5, <2>1 DEF Again, Mutex, MutexType
  <2>3. Holds(t, held[t] + 1)
    BY <1>1, <2>1 DEF Again, Holding, Holds
  <2> QED
    BY <1>3, <1>5, <2>1, <2>2, <2>3 DEF TakesAgain, Again
<1>6. CASE mutex.owner = t /\ role.type = "ERRORCHECK"
  <2>1. Goto(t, ret) /\ UNCHANGED <<k, cur, mutex, held>>
    BY <1>6, KThreadsAssumption DEF LockLoop
  <2> QED
    BY <1>3, <1>6, <2>1 DEF TakesAgain
<1>7. CASE mutex.owner # NULL /\ ~(mutex.owner = t /\ role.type \in {"RECURSIVE", "ERRORCHECK"})
  <2>1. /\ k' = suspend_thread(k, t) /\ cur' = scheduling(k')
        /\ mutex' = [mutex EXCEPT !.list = insert_pthread_list(@, t)]
        /\ Goto(t, "lock") /\ UNCHANGED held
    BY <1>7 DEF LockLoop
  <2>2. insert_pthread_list(mutex.list, t) \in ListType
    BY <1>1, InsertType DEF MutexType
  <2>3. Mutex(mutex.owner, mutex.counter, mutex.owner_prio, insert_pthread_list(mutex.list, t))
    BY <1>1, <2>1, <2>2 DEF Mutex, MutexType
  <2>4. Moves(t, {"lock"})
    BY <1>1, <1>2, <2>1 DEF Goto, Moves, PCs
  <2> QED
    BY <1>1, <1>2, <1>7, <2>1, <2>3, <2>4 DEF Blocks
<1> QED
  BY <1>4, <1>5, <1>6, <1>7

(* Every step is of one of these kinds.                                    *)
Kind(t) ==
    \/ Takes(t) \/ TakesAgain(t) \/ Blocks(t) \/ CountsDown(t) \/ Releases(t) \/ Waits(t)
    \/ SetCeiling(t) \/ pthread_cond_timedwait_resumes(t)
    \/ pthread_cond_signal_sys(t) \/ pthread_cond_broadcast_sys(t) \/ MSleep(t) \/ MTimer(t)

LEMMA Kinds ==
    ASSUME TypeInv, MNext
    PROVE  \E t \in Threads : Kind(t)
<1>1. PICK t \in Threads : MStep(t) \/ MTimer(t)
  BY DEF MNext
<1>2. /\ mutex \in MutexType /\ mutex.counter \in Nat /\ held \in [Threads -> Int] /\ KSound(k)
      /\ k.prio[t] \in Prios /\ pc \in [Threads -> PCs] /\ then \in [Threads -> {"run", "ceil"}]
      /\ timer \in [Threads -> BOOLEAN]
  BY DEF TypeInv, MutexType, KSound, KType
<1>3. CASE pthread_mutex_lock_sys(t)
  BY <1>3, LockKinds DEF pthread_mutex_lock_sys, At, MayLock, Kind
<1>4. CASE pthread_mutex_lock_resumes(t)
  <2>1. then[t] \in {"run", "ceil"} /\ cur = t /\ pc[t] = "lock" /\ LockLoop(t, then[t])
    BY <1>2, <1>4 DEF pthread_mutex_lock_resumes, At
  <2> QED
    BY <1>4, <2>1, LockKinds DEF pthread_mutex_lock_resumes, Kind, AsksCeiling
<1>5. CASE pthread_mutex_setprioceiling(t)
  BY <1>5, LockKinds DEF pthread_mutex_setprioceiling, At, Kind, AsksCeiling
<1>6. CASE pthread_mutex_trylock_sys(t)
  <2>1. Moves(t, {"run", "ceil"}) /\ cur = t /\ pc[t] = "run" /\ pc' = pc /\ t \in role.users
    BY <1>2, <1>6 DEF pthread_mutex_trylock_sys, Moves, At
  <2>2. CASE mutex.owner = NULL /\ Take(t, mutex.counter)
    <3>1. Mutex(t, mutex.counter, IF role.prot = "PROTECT" THEN k.prio[t] ELSE mutex.owner_prio,
                mutex.list)
      BY <1>2, <2>2 DEF Take, Mutex, MutexType
    <3>2. Holds(t, held[t] + 1)
      BY <1>2, <2>2 DEF Take, Holding, Holds
    <3>3. role.type = "RECURSIVE" /\ ~role.tryfirst => held[t] >= 1
      BY <1>2, <1>6, MutexAssumption DEF pthread_mutex_trylock_sys
    <3> QED
      BY <1>2, <1>6, <2>1, <2>2, <3>1, <3>2, <3>3 DEF pthread_mutex_trylock_sys, Take, Takes, Kind
  <2>3. CASE mutex.owner = t /\ role.type = "RECURSIVE" /\ Again(t)
    <3>1. Mutex(t, mutex.counter + 1, mutex.owner_prio, mutex.list)
      BY <1>2, <2>3 DEF Again, Mutex, MutexType
    <3>2. Holds(t, held[t] + 1)
      BY <1>2, <2>3 DEF Again, Holding, Holds
    <3> QED
      BY <1>6, <2>1, <2>3, <3>1, <3>2 DEF pthread_mutex_trylock_sys, Again, TakesAgain, Kind
  <2> QED
    BY <1>6, <2>2, <2>3 DEF pthread_mutex_trylock_sys
<1>7. CASE pthread_mutex_unlock_sys(t)
  <2>1. Moves(t, After(t)) /\ cur = t
    BY <1>2, <1>7 DEF pthread_mutex_unlock_sys, Moves, After, At
  <2> QED
    BY <1>7, <2>1, UnlockKinds DEF pthread_mutex_unlock_sys, Kind
<1>8. CASE CeilingUnlock(t)
  <2>1. Moves(t, After(t)) /\ cur = t
    BY <1>2, <1>8 DEF CeilingUnlock, Moves, After, At, Goto, PCs
  <2> QED
    BY <1>8, <2>1, UnlockKinds DEF CeilingUnlock, Kind
<1>9. CASE pthread_cond_wait_sys(t)
  <2>1. Moves(t, After(t)) /\ cur = t
    BY <1>2, <1>9 DEF pthread_cond_wait_sys, CondRelease, Moves, After, At, Goto, PCs
  <2> QED
    BY <1>9, <2>1, UnlockKinds DEF pthread_cond_wait_sys, CondRelease, Kind
<1>10. CASE pthread_cond_timedwait_sys(t)
  <2>1. Moves(t, After(t)) /\ cur = t
    BY <1>2, <1>10 DEF pthread_cond_timedwait_sys, CondRelease, Moves, After, At, Goto, PCs
  <2> QED
    BY <1>10, <2>1, UnlockKinds DEF pthread_cond_timedwait_sys, CondRelease, Kind
<1>11. CASE pthread_cond_wait_blocks(t)
  <2>1. Moves(t, {"lock"}) /\ pc[t] = "wait" /\ cur = t
    BY <1>2, <1>11 DEF pthread_cond_wait_blocks, CondBlock, Moves, At, Goto, PCs
  <2>2. timer' = timer /\ then'[t] = "run"
    BY <1>2, <1>11 DEF pthread_cond_wait_blocks, CondBlock
  <2> QED
    BY <1>2, <1>11, <2>1, <2>2 DEF pthread_cond_wait_blocks, CondBlock, Waits, Kind
<1>12. CASE pthread_cond_timedwait_blocks(t)
  <2>1. Moves(t, {"woken"}) /\ pc[t] = "timed" /\ cur = t
    BY <1>2, <1>12 DEF pthread_cond_timedwait_blocks, CondBlock, Moves, At, Goto, PCs
  <2>2. timer' \in [Threads -> BOOLEAN] /\ then'[t] = "run"
    BY <1>2, <1>12 DEF pthread_cond_timedwait_blocks, CondBlock
  <2> QED
    BY <1>12, <2>1, <2>2 DEF pthread_cond_timedwait_blocks, CondBlock, Waits, Kind
<1> QED
  BY <1>1, <1>3, <1>4, <1>5, <1>6, <1>7, <1>8, <1>9, <1>10, <1>11, <1>12 DEF MStep, Kind

(* What a release does to the scheduler, whatever the list looks like.     *)
LEMMA ReleasesSound ==
    ASSUME TypeInv, NEW t \in Threads, Releases(t)
    PROVE  KSound(k') /\ cur' \in Threads \cup {Idle}
<1> DEFINE w == WakeAll(k, mutex.list)
<1>1. mutex.list \in ListType /\ Within(mutex.list, Threads) /\ KSound(k) /\ mutex.owner_prio \in Prios
  BY DEF TypeInv, MutexType, ListType, Within
<1>2. KSound(w[1])
  BY <1>1, WakeAllKeeps
<1>3. k' = w[1] \/ k' = change_thread_prio(w[1], t, mutex.owner_prio)
  BY DEF Releases
<1> HIDE DEF w
<1>a. KSound(change_thread_prio(w[1], t, mutex.owner_prio))
  BY <1>1, <1>2, ChangePrioSound
<1>4. KSound(k')
  BY <1>2, <1>3, <1>a
<1> QED
  BY <1>4, SchedulingType DEF Releases, TypeInv

LEMMA TypeInit == MInit => TypeInv
<1> SUFFICES ASSUME MInit PROVE TypeInv
  OBVIOUS
<1>1. role \in Roles /\ role.ceil \subseteq Prios
  BY MutexAssumption DEF MInit
<1>2. KSound(k)
  BY AsleepSound, MutexAssumption DEF MInit
<1>3. init_pthread_list \in ListType
  BY DEF init_pthread_list, ListType
<1>4. 0 \in Prios
  BY KThreadsAssumption DEF Prios
<1>5. mutex \in MutexType /\ mutex.ceil \in role.ceil
  BY <1>1, <1>3, <1>4 DEF MInit, MutexType
<1> QED
  BY <1>1, <1>2, <1>3, <1>5 DEF MInit, TypeInv, PCs

LEMMA TypeNext == TypeInv /\ [MNext]_mvars => TypeInv'
<1> SUFFICES ASSUME TypeInv, [MNext]_mvars PROVE TypeInv'
  OBVIOUS
<1>1. CASE UNCHANGED mvars
  BY <1>1 DEF TypeInv, mvars
<1>2. ASSUME NEW t \in Threads, Kind(t) PROVE TypeInv'
  <2>1. /\ mutex \in MutexType /\ mutex.ceil \in Prios /\ KSound(k) /\ cond \in ListType
        /\ held \in [Threads -> Int] /\ pc \in [Threads -> PCs] /\ role.ceil \subseteq Prios
        /\ timer \in [Threads -> BOOLEAN]
    BY MutexAssumption DEF TypeInv, MutexType
  <2>2. CASE Takes(t)
    <3>1. k' = k \/ k' = change_thread_prio(k, t, mutex.ceil)
      BY <2>2 DEF Takes
    <3>a. KSound(change_thread_prio(k, t, mutex.ceil))
      BY <2>1, ChangePrioSound
    <3>2. KSound(k')
      BY <2>1, <3>1, <3>a
    <3> QED
      BY <2>1, <2>2, <3>2, SchedulingType DEF TypeInv, Takes, Mutex, Moves, Holds
  <2>3. CASE TakesAgain(t)
    BY <2>3 DEF TypeInv, TakesAgain, Mutex, Moves, Holds
  <2>4. CASE Blocks(t)
    <3>1. KSound(k')
      BY <2>1, <2>4, SuspendSound DEF Blocks
    <3> QED
      BY <2>4, <3>1, SchedulingType DEF TypeInv, Blocks, Mutex, Moves
  <2>5. CASE CountsDown(t)
    BY <2>5 DEF TypeInv, CountsDown, Mutex, Moves, Holds
  <2>6. CASE Releases(t)
    <3>1. /\ UNCHANGED <<role, cond, timer>> /\ mutex' \in MutexType /\ mutex'.ceil = mutex.ceil
          /\ Moves(t, After(t)) /\ held' \in [Threads -> Int]
      BY <2>6 DEF Releases, Mutex, Holds
    <3> QED
      BY <2>6, <3>1, ReleasesSound DEF TypeInv, Moves
  <2>7. CASE Waits(t)
    <3>1. KSound(k')
      BY <2>1, <2>7, SuspendSound DEF Waits
    <3>2. cond' \in ListType
      BY <2>1, <2>7, InsertType DEF Waits
    <3> QED
      BY <2>7, <3>1, <3>2, SchedulingType DEF TypeInv, Waits, Moves
  <2>8. CASE SetCeiling(t)
    BY <2>1, <2>8 DEF TypeInv, SetCeiling, Goto, PCs, MutexType
  <2>9. CASE pthread_cond_timedwait_resumes(t)
    <3>1. cond' \in ListType
      BY <2>1, <2>9, RemoveType DEF pthread_cond_timedwait_resumes
    <3> QED
      BY <2>9, <3>1 DEF TypeInv, pthread_cond_timedwait_resumes, Goto, PCs
  <2>10. CASE pthread_cond_signal_sys(t)
    <3>1. k' = k \/ (cond.head \in Threads /\ k' = activate_thread(k, cond.head))
      BY <2>1, <2>10 DEF pthread_cond_signal_sys, ListType
    <3>a. cond.head \in Threads => KSound(activate_thread(k, cond.head))
      BY <2>1, ActivateSound
    <3>2. KSound(k')
      BY <2>1, <3>1, <3>a
    <3>3. cond' \in ListType
      BY <2>1, <2>10, RemoveHeadType DEF pthread_cond_signal_sys
    <3> QED
      BY <2>10, <3>2, <3>3, SchedulingType DEF TypeInv, pthread_cond_signal_sys
  <2>11. CASE pthread_cond_broadcast_sys(t)
    <3>1. Within(cond, Threads)
      BY <2>1 DEF ListType, Within
    <3>2. KSound(k') /\ cond' \in ListType
      BY <2>1, <2>11, <3>1, WakeAllKeeps DEF pthread_cond_broadcast_sys
    <3> QED
      BY <2>11, <3>2, SchedulingType DEF TypeInv, pthread_cond_broadcast_sys
  <2>12. CASE MSleep(t)
    <3>1. KSound(k')
      BY <2>1, <2>12, SuspendSound DEF MSleep
    <3> QED
      BY <2>12, <3>1, SchedulingType DEF TypeInv, MSleep
  <2>13. CASE MTimer(t)
    <3>1. KSound(k')
      BY <2>1, <2>13, ActivateSound DEF MTimer
    <3> QED
      BY <2>13, <3>1, SchedulingType DEF TypeInv, MTimer
  <2> QED
    BY <1>2, <2>2, <2>3, <2>4, <2>5, <2>6, <2>7, <2>8, <2>9, <2>10, <2>11, <2>12, <2>13 DEF Kind
<1> QED
  BY <1>1, <1>2, Kinds

-----------------------------------------------------------------------------
(* Mutual exclusion.  The count of a recursive mutex is the number of lock *)
(* calls of its owner, unless pthread_mutex_trylock_sys took it first.     *)
Counting == ~(role.type = "RECURSIVE" /\ role.tryfirst)

Excl ==
    Counting =>
        \A t \in Threads :
            /\ held[t] >= 0 /\ (held[t] > 0 => mutex.owner = t)
            /\ mutex.owner = t => /\ role.type = "RECURSIVE" => mutex.counter = held[t] /\ held[t] >= 1
                                  /\ role.type # "RECURSIVE" => held[t] = 1

LEMMA ExclNext == TypeInv /\ Excl /\ [MNext]_mvars => Excl'
<1> SUFFICES ASSUME TypeInv, Excl, [MNext]_mvars, Counting' PROVE Excl'
  BY DEF Excl
<1>1. CASE UNCHANGED mvars
  BY <1>1 DEF Excl, Counting, mvars
<1>2. ASSUME NEW t \in Threads, Kind(t) PROVE Excl'
  <2>1. /\ held \in [Threads -> Int] /\ mutex \in MutexType /\ mutex.counter \in Nat
        /\ NULL \notin Threads /\ role' = role
    BY <1>2, KThreadsAssumption
       DEF TypeInv, MutexType, Kind, Takes, TakesAgain, Blocks, CountsDown, Releases, Waits, SetCeiling,
           pthread_cond_timedwait_resumes, pthread_cond_signal_sys, pthread_cond_broadcast_sys, MSleep, MTimer
  <2>2. \A u \in Threads :
            /\ held[u] >= 0 /\ (held[u] > 0 => mutex.owner = u)
            /\ mutex.owner = u => /\ role.type = "RECURSIVE" => mutex.counter = held[u] /\ held[u] >= 1
                                  /\ role.type # "RECURSIVE" => held[u] = 1
    BY <2>1 DEF Excl, Counting
  <2>3. CASE Takes(t)
    <3>1. PICK c \in Nat : /\ role.type = "RECURSIVE" /\ ~role.tryfirst => c = 1 \/ held[t] >= 1
                           /\ mutex'.owner = t /\ mutex'.counter = c
      BY <2>3 DEF Takes, Mutex
    <3>2. mutex.owner = NULL /\ held' = [held EXCEPT ![t] = held[t] + 1]
      BY <2>3 DEF Takes, Holds
    <3>3. \A u \in Threads : held[u] = 0
      BY <2>1, <2>2, <3>2
    <3>4. \A u \in Threads : held'[u] = IF u = t THEN 1 ELSE 0
      BY <2>1, <3>2, <3>3
    <3>5. role.type = "RECURSIVE" => mutex'.counter = 1
      BY <2>1, <3>1, <3>3 DEF Counting
    <3> QED
      BY <2>1, <3>1, <3>4, <3>5 DEF Excl
  <2>4. CASE TakesAgain(t)
    <3>1. mutex.owner = t
      BY <2>4 DEF TakesAgain
    <3>2. CASE UNCHANGED <<mutex, held>>
      BY <2>1, <2>2, <3>2 DEF Excl
    <3>3. CASE /\ role.type = "RECURSIVE" /\ Mutex(t, mutex.counter + 1, mutex.owner_prio, mutex.list)
               /\ Holds(t, held[t] + 1)
      <4>1. mutex'.owner = t /\ mutex'.counter = mutex.counter + 1
        BY <3>3 DEF Mutex
      <4>2. \A u \in Threads : held'[u] = IF u = t THEN held[t] + 1 ELSE held[u]
        BY <2>1, <3>3 DEF Holds
      <4> QED
        BY <2>1, <2>2, <3>1, <3>3, <4>1, <4>2 DEF Excl
    <3> QED
      BY <2>4, <3>2, <3>3 DEF TakesAgain
  <2>5. CASE Blocks(t)
    BY <2>1, <2>2, <2>5 DEF Excl, Blocks, Mutex
  <2>6. CASE CountsDown(t)
    <3>1. /\ mutex.owner = t /\ role.type = "RECURSIVE" /\ mutex.counter > 1
          /\ mutex'.owner = t /\ mutex'.counter = mutex.counter - 1
      BY <2>6 DEF CountsDown, Mutex
    <3>2. \A u \in Threads : held'[u] = IF u = t THEN held[t] - 1 ELSE held[u]
      BY <2>1, <2>6 DEF CountsDown, Holds
    <3> QED
      BY <2>1, <2>2, <3>1, <3>2 DEF Excl
  <2>7. CASE Releases(t)
    <3>1. /\ mutex.owner = t /\ ~(role.type = "RECURSIVE" /\ mutex.counter > 1)
          /\ mutex'.owner = NULL
      BY <2>7 DEF Releases, Mutex
    <3>2. held' = [held EXCEPT ![t] = held[t] - 1]
      BY <2>7 DEF Releases, Holds
    <3>3. held[t] = 1 /\ \A u \in Threads \ {t} : held[u] = 0
      BY <2>1, <2>2, <3>1
    <3>4. \A u \in Threads : held'[u] = 0
      BY <2>1, <3>2, <3>3
    <3> QED
      BY <2>1, <3>1, <3>4 DEF Excl
  <2>8. CASE UNCHANGED <<mutex, held>>
    BY <2>1, <2>2, <2>8 DEF Excl
  <2>9. CASE SetCeiling(t)
    <3>1. mutex'.owner = mutex.owner /\ mutex'.counter = mutex.counter /\ held' = held
      BY <2>1, <2>9 DEF SetCeiling, MutexType
    <3> QED
      BY <2>1, <2>2, <3>1 DEF Excl
  <2> QED
    BY <1>2, <2>3, <2>4, <2>5, <2>6, <2>7, <2>8, <2>9
       DEF Kind, Waits, pthread_cond_timedwait_resumes, pthread_cond_signal_sys,
           pthread_cond_broadcast_sys, MSleep, MTimer
<1> QED
  BY <1>1, <1>2, Kinds

(* At most one thread is told that it holds the mutex, that thread is the  *)
(* owner, and a recursive mutex counts its lock calls: for any number of   *)
(* threads and any depth, whichever of lock, trylock, setprioceiling and   *)
(* the condition waits they call and wherever interrupts come.             *)
THEOREM MutualExclusionHolds == MSpec => [](Counting => MutualExclusion)
<1>1. MInit => Excl
  BY KThreadsAssumption DEF MInit, Excl
<1>2. TypeInv /\ Excl => (Counting => MutualExclusion)
  BY DEF Excl, MutualExclusion
<1> QED
  BY <1>1, <1>2, TypeInit, TypeNext, ExclNext, PTL DEF MSpec

-----------------------------------------------------------------------------
(* pthread_cond_wait_sys and pthread_cond_timedwait_sys are not interrupted*)
(* between releasing the mutex and blocking, unless the release lowers a   *)
(* priority.                                                               *)
LEMMA ReleaseNext == TypeInv /\ ReleaseAtomic /\ [MNext]_mvars => ReleaseAtomic'
<1> SUFFICES ASSUME TypeInv, ReleaseAtomic, [MNext]_mvars, (role.prot = "NONE")',
                    NEW u \in Threads, pc'[u] \in {"wait", "timed"}
             PROVE  cur' = u
  BY DEF ReleaseAtomic
<1>1. CASE UNCHANGED mvars
  BY <1>1 DEF ReleaseAtomic, mvars
<1>2. ASSUME NEW t \in Threads, Kind(t) PROVE cur' = u
  <2>1. role' = role /\ Idle \notin Threads
    BY <1>2, KThreadsAssumption
       DEF Kind, Takes, TakesAgain, Blocks, CountsDown, Releases, Waits, SetCeiling,
           pthread_cond_timedwait_resumes, pthread_cond_signal_sys, pthread_cond_broadcast_sys, MSleep, MTimer
  <2>2. \A v \in Threads : pc[v] \in {"wait", "timed"} => cur = v
    BY <2>1 DEF ReleaseAtomic
  <2>3. pc \in [Threads -> PCs] /\ role.prot = "NONE"
    BY <2>1 DEF TypeInv
  <2>4. CASE Takes(t)
    BY <2>2, <2>3, <2>4 DEF Takes, Moves
  <2>5. CASE TakesAgain(t)
    BY <2>2, <2>3, <2>5 DEF TakesAgain, Moves
  <2>6. CASE Blocks(t)
    BY <2>2, <2>3, <2>6 DEF Blocks, Moves
  <2>7. CASE CountsDown(t)
    BY <2>2, <2>3, <2>7 DEF CountsDown, Moves
  <2>8. CASE Releases(t)
    BY <2>2, <2>3, <2>8 DEF Releases, Moves
  <2>9. CASE Waits(t)
    BY <2>2, <2>3, <2>9 DEF Waits, Moves
  <2>10. CASE SetCeiling(t)
    BY <2>2, <2>3, <2>10 DEF SetCeiling, At, Goto
  <2>11. CASE pthread_cond_timedwait_resumes(t)
    BY <2>2, <2>3, <2>11 DEF pthread_cond_timedwait_resumes, At, Goto
  <2>12. CASE pthread_cond_signal_sys(t) \/ pthread_cond_broadcast_sys(t) \/ MSleep(t)
    BY <2>2, <2>3, <2>12 DEF pthread_cond_signal_sys, pthread_cond_broadcast_sys, MSleep, At
  <2>13. CASE MTimer(t)
    BY <2>1, <2>2, <2>3, <2>13 DEF MTimer, Masked
  <2> QED
    BY <1>2, <2>4, <2>5, <2>6, <2>7, <2>8, <2>9, <2>10, <2>11, <2>12, <2>13 DEF Kind
<1> QED
  BY <1>1, <1>2, Kinds

(* No other thread runs between a condition wait's release of an           *)
(* unprotected mutex and its entry in the list of the condition.           *)
THEOREM ReleaseAtomicHolds == MSpec => []ReleaseAtomic
<1>1. MInit => ReleaseAtomic
  BY DEF MInit, ReleaseAtomic
<1> QED
  BY <1>1, TypeInit, TypeNext, ReleaseNext, PTL DEF MSpec

-----------------------------------------------------------------------------
(* Priorities.  A thread in a call of the mutex is a user of it, and so is *)
(* every thread of its list; the owner of a protected mutex remembers its  *)
(* own priority and, if the ceilings cover the users, runs above them all. *)
Covers == \A c \in role.ceil : \A u \in role.users : c <= Base[u]

Users ==
    /\ \A t \in Threads : pc[t] # "run" => t \in role.users
    /\ mutex.owner \in role.users \cup {NULL} /\ Within(mutex.list, role.users)

Raised ==
    \A t \in Threads :
        mutex.owner = t /\ role.prot = "PROTECT" =>
            /\ mutex.owner_prio = Base[t]
            /\ Covers => \A u \in role.users : k.prio[t] <= Base[u]

Restored ==
    \A t \in Threads :
        \/ k.prio[t] = Base[t]
        \/ mutex.owner = t /\ role.prot = "PROTECT" /\ k.prio[t] < Base[t]

PrioInv == Users /\ Restored /\ Raised /\ (Covers => HighestRuns)

LEMMA InsertWithin ==
    ASSUME NEW l \in ListType, NEW U \in SUBSET Threads, Within(l, U), NEW p \in U
    PROVE  Within(insert_pthread_list(l, p), U)
BY DEF insert_pthread_list, ListType, Within

(* What scheduling() leaves running.                                       *)
LEMMA Rescheduled ==
    ASSUME KSound(k'), cur' = scheduling(k')
    PROVE  HighestRuns'
<1>1. cur' # Idle => \A u \in Threads : k'.st[u] = "READY" => k'.prio[cur'] <= k'.prio[u]
  BY SchedulingSound
<1> QED
  BY <1>1 DEF HighestRuns

(* A step that only suspends or wakes threads, and reschedules.            *)
LEMMA PrioSame ==
    ASSUME PrioInv, KSound(k'), k'.prio = k.prio, cur' = scheduling(k'), Users', role' = role,
           mutex'.owner = mutex.owner, mutex'.owner_prio = mutex.owner_prio
    PROVE  PrioInv'
<1>1. HighestRuns'
  BY Rescheduled
<1> QED
  BY <1>1 DEF PrioInv, Restored, Raised, Covers

LEMMA UsersNext ==
    ASSUME TypeInv, Users, NEW t \in Threads, Kind(t)
    PROVE  Users' /\ role' = role
<1>1. /\ role' = role /\ NULL \notin Threads /\ role.users \in SUBSET Threads
      /\ mutex.list \in ListType /\ mutex \in MutexType
  BY KThreadsAssumption, MutexAssumption
     DEF TypeInv, MutexType, Kind, Takes, TakesAgain, Blocks, CountsDown, Releases, Waits, SetCeiling,
         pthread_cond_timedwait_resumes, pthread_cond_signal_sys, pthread_cond_broadcast_sys, MSleep, MTimer
<1>2. CASE Takes(t)
  BY <1>1, <1>2 DEF Users, Takes, Mutex, Moves
<1>3. CASE TakesAgain(t)
  BY <1>1, <1>3 DEF Users, TakesAgain, Mutex, Moves
<1>4. CASE Blocks(t)
  <2>1. t \in role.users
    BY <1>4 DEF Users, Blocks
  <2>2. Within(insert_pthread_list(mutex.list, t), role.users)
    BY <1>1, <2>1, InsertWithin DEF Users
  <2> QED
    BY <1>1, <1>4, <2>1, <2>2 DEF Users, Blocks, Mutex, Moves
<1>5. CASE CountsDown(t)
  BY <1>1, <1>5 DEF Users, CountsDown, Mutex, Moves
<1>6. CASE Releases(t)
  <2>1. Within(WakeAll(k, mutex.list)[2], role.users)
    BY <1>1, WakeAllKeeps DEF Users, TypeInv
  <2>2. mutex.owner = t /\ mutex'.owner = NULL /\ mutex'.list = WakeAll(k, mutex.list)[2] /\ Moves(t, After(t))
    BY <1>6 DEF Releases, Mutex
  <2> QED
    BY <1>1, <2>1, <2>2 DEF Users, Moves
<1>7. CASE Waits(t)
  BY <1>1, <1>7 DEF Users, Waits, Moves
<1>8. CASE SetCeiling(t)
  <2>1. mutex'.owner = mutex.owner /\ mutex'.list = mutex.list
    BY <1>1, <1>8 DEF SetCeiling, MutexType
  <2> QED
    BY <1>1, <1>8, <2>1 DEF Users, SetCeiling, At, Goto, TypeInv
<1>9. CASE pthread_cond_timedwait_resumes(t)
  BY <1>1, <1>9 DEF Users, pthread_cond_timedwait_resumes, At, Goto, TypeInv
<1>10. CASE UNCHANGED <<mutex, pc>>
  BY <1>1, <1>10 DEF Users
<1> QED
  BY <1>1, <1>2, <1>3, <1>4, <1>5, <1>6, <1>7, <1>8, <1>9, <1>10
     DEF Kind, pthread_cond_signal_sys, pthread_cond_broadcast_sys, MSleep, MTimer

LEMMA PrioNext == TypeInv /\ PrioInv /\ [MNext]_mvars => PrioInv'
<1> SUFFICES ASSUME TypeInv, PrioInv, [MNext]_mvars PROVE PrioInv'
  OBVIOUS
<1>1. CASE UNCHANGED mvars
  BY <1>1 DEF PrioInv, Users, Restored, Raised, Covers, HighestRuns, mvars
<1>2. ASSUME NEW t \in Threads, Kind(t) PROVE PrioInv'
  <2>1. Users' /\ role' = role
    BY <1>2, UsersNext DEF PrioInv
  <2>2. /\ KSound(k) /\ k.prio \in [Threads -> Prios] /\ mutex \in MutexType /\ mutex.ceil \in Prios
        /\ mutex.ceil \in role.ceil /\ mutex.owner_prio \in Prios
        /\ mutex.list \in ListType /\ cond \in ListType
    BY DEF TypeInv, MutexType, KSound, KType
  <2>3. /\ Base \in [Threads -> Prios] /\ role.users \subseteq Threads
        /\ NULL \notin Threads /\ Idle \notin Threads
    BY MutexAssumption, KThreadsAssumption DEF TypeInv
  <2>4. Prios \subseteq Nat
    BY KThreadsAssumption DEF Prios
  <2>5. KSound(k')
    BY TypeNext DEF TypeInv
  <2>6. /\ Restored /\ Raised /\ (Covers => HighestRuns) /\ (Covers' <=> Covers)
    BY <2>1 DEF PrioInv, Covers
  <2>7. CASE Takes(t)
    <3> DEFINE raise == role.prot = "PROTECT" /\ k.prio[t] > mutex.ceil
    <3>1. /\ mutex.owner = NULL /\ mutex'.owner = t /\ cur = t
          /\ mutex'.owner_prio = IF role.prot = "PROTECT" THEN k.prio[t] ELSE mutex.owner_prio
          /\ k' = IF raise THEN change_thread_prio(k, t, mutex.ceil) ELSE k
          /\ cur' = IF raise THEN scheduling(k') ELSE cur
      BY <2>7 DEF Takes, Mutex
    <3>2. \A u \in Threads : k.prio[u] = Base[u]
      BY <2>3, <2>6, <3>1 DEF Restored
    <3>3. CASE raise
      <4>1. k'.prio = [k.prio EXCEPT ![t] = mutex.ceil]
        BY <2>2, <3>1, <3>3, ChangePrioSound
      <4>2. k'.prio[t] = mutex.ceil /\ \A u \in Threads \ {t} : k'.prio[u] = Base[u]
        BY <2>2, <3>2, <4>1
      <4>3. Restored'
        BY <2>1, <2>2, <2>3, <2>4, <3>1, <3>2, <3>3, <4>2 DEF Restored
      <4>4. Raised'
        BY <2>1, <2>2, <2>6, <3>1, <3>2, <3>3, <4>2 DEF Raised, Covers
      <4>5. HighestRuns'
        BY <2>5, <3>1, <3>3, Rescheduled
      <4> QED
        BY <2>1, <4>3, <4>4, <4>5 DEF PrioInv
    <3>4. CASE ~raise
      <4>1. k' = k /\ cur' = cur
        BY <3>1, <3>4
      <4>2. Restored' /\ (Covers' => HighestRuns')
        BY <2>1, <2>6, <3>2, <4>1 DEF Restored, HighestRuns
      <4>3. Raised'
        <5> SUFFICES ASSUME role.prot = "PROTECT"
                     PROVE  /\ mutex'.owner_prio = Base[t]
                            /\ Covers => \A u \in role.users : k'.prio[t] <= Base[u]
          BY <2>1, <2>6, <3>1 DEF Raised
        <5>0. k.prio[t] \in Nat /\ mutex.ceil \in Nat
          BY <2>2, <2>4
        <5>1. k.prio[t] <= mutex.ceil
          BY <3>4, <5>0
        <5>2. Covers => \A u \in role.users : mutex.ceil <= Base[u] /\ Base[u] \in Nat
          BY <2>2, <2>3, <2>4 DEF Covers
        <5> QED
          BY <3>1, <3>2, <4>1, <5>0, <5>1, <5>2
      <4> QED
        BY <2>1, <4>2, <4>3 DEF PrioInv
    <3> QED
      BY <3>3, <3>4
  <2>8. CASE TakesAgain(t) \/ CountsDown(t)
    <3>1. k' = k /\ cur' = cur /\ mutex'.owner = mutex.owner /\ mutex'.owner_prio = mutex.owner_prio
      BY <2>8 DEF TakesAgain, CountsDown, Mutex
    <3> QED
      BY <2>1, <2>6, <3>1 DEF PrioInv, Restored, Raised, HighestRuns
  <2>9. CASE Blocks(t)
    <3>1. k'.prio = k.prio
      BY <2>2, <2>9, SuspendSound DEF Blocks
    <3> QED
      BY <2>1, <2>5, <2>9, <3>1, PrioSame DEF Blocks, Mutex
  <2>10. CASE Releases(t)
    <3> DEFINE w == WakeAll(k, mutex.list)
               lower == role.prot = "PROTECT" /\ mutex.owner_prio # w[1].prio[t]
    <3>1. /\ mutex.owner = t /\ mutex'.owner = NULL /\ cur = t
          /\ k' = IF lower THEN change_thread_prio(w[1], t, mutex.owner_prio) ELSE w[1]
          /\ cur' = IF lower THEN scheduling(k') ELSE cur
      BY <2>10 DEF Releases, Mutex
    <3>2. /\ KSound(w[1]) /\ w[1].prio = k.prio
          /\ \A u \in Threads : w[1].st[u] # k.st[u] => w[1].st[u] = "READY" /\ u \in role.users
      BY <2>2, WakeAllKeeps DEF PrioInv, Users
    <3>3. \A u \in Threads \ {t} : k.prio[u] = Base[u]
      BY <2>6, <3>1 DEF Restored
    <3>4. role.prot = "PROTECT" => mutex.owner_prio = Base[t]
      BY <2>6, <3>1 DEF Raised
    <3>5. role.prot # "PROTECT" => k.prio[t] = Base[t]
      BY <2>6 DEF Restored
    <3> HIDE DEF w
    <3>6. CASE lower
      <4>1. k'.prio = [k.prio EXCEPT ![t] = mutex.owner_prio]
        BY <2>2, <3>1, <3>2, <3>6, ChangePrioSound
      <4>2. \A u \in Threads : k'.prio[u] = Base[u]
        BY <2>2, <3>3, <3>4, <3>6, <4>1
      <4>3. HighestRuns'
        BY <2>5, <3>1, <3>6, Rescheduled
      <4> QED
        BY <2>1, <2>3, <3>1, <4>2, <4>3 DEF PrioInv, Restored, Raised
    <3>7. CASE ~lower
      <4>1. k'.prio = k.prio /\ k'.st = w[1].st /\ cur' = t
        BY <3>1, <3>2, <3>7
      <4>2. \A u \in Threads : k'.prio[u] = Base[u]
        BY <3>2, <3>3, <3>4, <3>5, <3>7, <4>1
      <4>3. Covers => HighestRuns'
        <5> SUFFICES ASSUME Covers, role.prot = "PROTECT", NEW u \in Threads, k'.st[u] = "READY"
                     PROVE  k'.prio[t] <= k'.prio[u]
          BY <2>1, <4>1 DEF HighestRuns
        <5>1. CASE u \in role.users
          BY <2>6, <3>1, <4>1, <4>2, <5>1 DEF Raised
        <5>2. CASE u \notin role.users
          <6>1. k.st[u] = "READY"
            BY <3>2, <4>1, <5>2
          <6> QED
            BY <2>3, <2>6, <3>1, <4>1, <6>1 DEF HighestRuns
        <5> QED
          BY <5>1, <5>2
      <4> QED
        BY <2>1, <2>3, <2>6, <3>1, <4>2, <4>3 DEF PrioInv, Restored, Raised
    <3> QED
      BY <3>6, <3>7
  <2>11. CASE Waits(t)
    <3>1. k'.prio = k.prio
      BY <2>2, <2>11, SuspendSound DEF Waits
    <3> QED
      BY <2>1, <2>5, <2>11, <3>1, PrioSame DEF Waits
  <2>12. CASE SetCeiling(t)
    <3>1. k' = k /\ cur' = cur /\ mutex'.owner = mutex.owner /\ mutex'.owner_prio = mutex.owner_prio
      BY <2>2, <2>12 DEF SetCeiling, MutexType
    <3> QED
      BY <2>1, <2>6, <3>1 DEF PrioInv, Restored, Raised, HighestRuns
  <2>13. CASE pthread_cond_timedwait_resumes(t)
    BY <2>1, <2>6, <2>13 DEF pthread_cond_timedwait_resumes, PrioInv, Restored, Raised, HighestRuns
  <2>14. CASE pthread_cond_signal_sys(t)
    <3>1. cond.head # NULL => activate_thread(k, cond.head).prio = k.prio
      <4>1. cond.head # NULL => cond.head \in Threads
        BY <2>2 DEF ListType
      <4> QED
        BY <2>2, <4>1, ActivateSound
    <3>2. k'.prio = k.prio
      BY <2>14, <3>1 DEF pthread_cond_signal_sys
    <3> QED
      BY <2>1, <2>5, <2>14, <3>2, PrioSame DEF pthread_cond_signal_sys
  <2>15. CASE pthread_cond_broadcast_sys(t)
    <3>1. Within(cond, Threads)
      BY <2>2 DEF ListType, Within
    <3>2. k'.prio = k.prio
      BY <2>2, <2>15, <3>1, WakeAllKeeps DEF pthread_cond_broadcast_sys
    <3> QED
      BY <2>1, <2>5, <2>15, <3>2, PrioSame DEF pthread_cond_broadcast_sys
  <2>16. CASE MSleep(t)
    <3>1. k'.prio = k.prio
      BY <2>2, <2>16, SuspendSound DEF MSleep
    <3> QED
      BY <2>1, <2>5, <2>16, <3>1, PrioSame DEF MSleep
  <2>17. CASE MTimer(t)
    <3>1. k'.prio = k.prio
      BY <2>2, <2>17, ActivateSound DEF MTimer
    <3> QED
      BY <2>1, <2>5, <2>17, <3>1, PrioSame DEF MTimer
  <2> QED
    BY <1>2, <2>7, <2>8, <2>9, <2>10, <2>11, <2>12, <2>13, <2>14, <2>15, <2>16, <2>17 DEF Kind
<1> QED
  BY <1>1, <1>2, Kinds

LEMMA PrioInit == MInit => PrioInv
<1> SUFFICES ASSUME MInit PROVE PrioInv
  OBVIOUS
<1>1. mutex.owner = NULL /\ mutex.list = init_pthread_list /\ k.prio = Base /\ cur = Idle
  BY DEF MInit, Asleep
<1>2. Within(mutex.list, role.users)
  BY <1>1 DEF Within, init_pthread_list
<1> QED
  BY <1>1, <1>2, KThreadsAssumption
     DEF MInit, PrioInv, Users, Restored, Raised, HighestRuns

-----------------------------------------------------------------------------
(* Ceilings.  A thread inside setprioceiling has taken the mutex once, so  *)
(* that its unlock releases it; one that waits in its lock call is not the *)
(* owner, and only lock calls return to it.                                *)
Changing ==
    /\ \A t \in Threads : pc[t] \in {"ceil", "out"} =>
           mutex.owner = t /\ (role.type = "RECURSIVE" => mutex.counter = 1)
    /\ \A t \in Threads : pc[t] = "lock" /\ then[t] = "ceil" => mutex.owner # t
    /\ \A t \in Threads : pc[t] = "woken" => then[t] = "run"

(* The step leaves the owner and the ceiling of the mutex and the          *)
(* priorities alone, and takes nobody into or out of "out".                *)
SameCeiling ==
    /\ mutex'.owner = mutex.owner /\ mutex'.ceil = mutex.ceil /\ k'.prio = k.prio /\ role' = role
    /\ \A u \in Threads : pc'[u] = "out" <=> pc[u] = "out"

LEMMA ExactSame ==
    ASSUME CeilingExact, SameCeiling
    PROVE  CeilingExact'
BY DEF CeilingExact, SameCeiling

LEMMA ChangingNext ==
    ASSUME TypeInv, Excl, Counting, Changing, NEW t \in Threads, Kind(t)
    PROVE  Changing'
<1>1. /\ pc \in [Threads -> PCs] /\ then \in [Threads -> {"run", "ceil"}] /\ mutex \in MutexType
      /\ NULL \notin Threads /\ role' = role
  BY KThreadsAssumption
     DEF TypeInv, Kind, Takes, TakesAgain, Blocks, CountsDown, Releases, Waits, SetCeiling,
         pthread_cond_timedwait_resumes, pthread_cond_signal_sys, pthread_cond_broadcast_sys, MSleep, MTimer
<1>2. /\ \A u \in Threads : pc[u] \in {"ceil", "out"} =>
             mutex.owner = u /\ (role.type = "RECURSIVE" => mutex.counter = 1)
      /\ \A u \in Threads : pc[u] = "lock" /\ then[u] = "ceil" => mutex.owner # u
      /\ \A u \in Threads : pc[u] = "woken" => then[u] = "run"
  BY DEF Changing
<1>3. AsksCeiling(t) => mutex.owner # t
  BY <1>2 DEF AsksCeiling, Excl, TypeInv
<1>4. CASE Takes(t)
  <2>1. /\ mutex.owner = NULL /\ mutex'.owner = t /\ Moves(t, {"run", "ceil"})
        /\ pc'[t] = "ceil" => mutex'.counter = 1
    BY <1>4 DEF Takes, Mutex
  <2> QED
    BY <1>1, <1>2, <2>1 DEF Changing, Moves
<1>5. CASE TakesAgain(t)
  <2>1. /\ mutex.owner = t /\ mutex'.owner = t /\ Moves(t, {"run", "ceil"})
        /\ pc'[t] = "ceil" => AsksCeiling(t)
    BY <1>5 DEF TakesAgain, Mutex
  <2> QED
    BY <1>1, <1>2, <1>3, <2>1 DEF Changing, Moves
<1>6. CASE Blocks(t)
  <2>1. /\ mutex'.owner = mutex.owner /\ mutex'.counter = mutex.counter /\ Moves(t, {"lock"})
        /\ then'[t] = "ceil" => AsksCeiling(t)
    BY <1>6 DEF Blocks, Mutex
  <2> QED
    BY <1>1, <1>2, <1>3, <2>1 DEF Changing, Moves
<1>7. CASE CountsDown(t) \/ Releases(t)
  <2>1. mutex.owner = t /\ mutex'.owner \in {t, NULL} /\ Moves(t, {"run", "wait", "timed"})
    BY <1>7 DEF CountsDown, Releases, Mutex, Moves, After
  <2> QED
    BY <1>1, <1>2, <2>1 DEF Changing, Moves
<1>8. CASE Waits(t)
  <2>1. mutex' = mutex /\ Moves(t, {"lock", "woken"}) /\ then'[t] = "run"
    BY <1>8 DEF Waits, Moves
  <2> QED
    BY <1>1, <1>2, <2>1 DEF Changing, Moves
<1>9. CASE SetCeiling(t)
  <2>1. /\ mutex'.owner = mutex.owner /\ mutex'.counter = mutex.counter /\ then' = then
        /\ pc[t] = "ceil" /\ pc' = [pc EXCEPT ![t] = "out"]
    BY <1>1, <1>9 DEF SetCeiling, MutexType, At, Goto
  <2> QED
    BY <1>1, <1>2, <2>1 DEF Changing
<1>10. CASE pthread_cond_timedwait_resumes(t)
  <2>1. mutex' = mutex /\ then' = then /\ pc[t] = "woken" /\ pc' = [pc EXCEPT ![t] = "lock"]
    BY <1>10 DEF pthread_cond_timedwait_resumes, At, Goto
  <2> QED
    BY <1>1, <1>2, <2>1 DEF Changing
<1>11. CASE UNCHANGED <<mutex, pc, then>>
  BY <1>1, <1>2, <1>11 DEF Changing
<1> QED
  BY <1>4, <1>5, <1>6, <1>7, <1>8, <1>9, <1>10, <1>11
     DEF Kind, pthread_cond_signal_sys, pthread_cond_broadcast_sys, MSleep, MTimer

LEMMA ExactNext ==
    ASSUME TypeInv, PrioInv, PrioInv', Changing, CeilingExact, NEW t \in Threads, Kind(t)
    PROVE  CeilingExact'
<1>1. /\ pc \in [Threads -> PCs] /\ mutex \in MutexType /\ mutex.ceil \in Nat
      /\ KSound(k) /\ k.prio \in [Threads -> Prios] /\ Base \in [Threads -> Prios]
      /\ Prios \subseteq Nat /\ NULL \notin Threads
      /\ role.prot \in {"NONE", "PROTECT"} /\ mutex.list \in ListType /\ cond \in ListType
  <2>1. Prios \subseteq Nat
    BY KThreadsAssumption DEF Prios
  <2>2. /\ mutex \in MutexType /\ mutex.ceil \in Prios /\ mutex.list \in ListType /\ cond \in ListType
        /\ pc \in [Threads -> PCs] /\ KSound(k)
    BY DEF TypeInv, MutexType
  <2>3. k.prio \in [Threads -> Prios]
    BY <2>2 DEF KSound, KType
  <2>4. role.prot \in {"NONE", "PROTECT"} /\ Base \in [Threads -> Prios]
    BY MutexAssumption DEF TypeInv, Protections
  <2> QED
    BY <2>1, <2>2, <2>3, <2>4, KThreadsAssumption
<1>a. k.prio[t] \in Nat /\ Base[t] \in Nat
  BY <1>1
<1>2. role' = role
  BY UsersNext DEF PrioInv
<1>3. CASE Takes(t)
  <2> DEFINE raise == role.prot = "PROTECT" /\ k.prio[t] > mutex.ceil
  <2>1. /\ mutex.owner = NULL /\ mutex'.owner = t /\ mutex'.ceil = mutex.ceil
        /\ k' = IF raise THEN change_thread_prio(k, t, mutex.ceil) ELSE k
        /\ pc'[t] \in {"run", "ceil"}
    BY <1>3 DEF Takes, Mutex, Moves
  <2>2. \A u \in Threads : k.prio[u] = Base[u]
    BY <1>1, <2>1 DEF CeilingExact
  <2>3. CASE raise
    <3>1. k'.prio = [k.prio EXCEPT ![t] = mutex.ceil]
      <4>1. mutex.ceil \in Prios
        BY <1>1 DEF MutexType
      <4> QED
        BY <1>1, <2>1, <2>3, <4>1, ChangePrioSound
    <3>2. k'.prio[t] = mutex.ceil /\ mutex.ceil < Base[t] /\ \A u \in Threads \ {t} : k'.prio[u] = Base[u]
      <4>1. k.prio[t] > mutex.ceil /\ mutex.ceil \in Nat
        BY <1>1, <2>3
      <4>2. k.prio[t] = Base[t]
        BY <2>2
      <4>3. \A u \in Threads : k'.prio[u] = IF u = t THEN mutex.ceil ELSE k.prio[u]
        BY <1>1, <3>1
      <4> QED
        BY <1>a, <2>2, <4>1, <4>2, <4>3
    <3> QED
      <4>1. role.prot # "NONE"
        BY <2>3
      <4> QED
        BY <1>2, <1>a, <2>1, <3>2, <4>1 DEF CeilingExact
  <2>4. CASE ~raise
    <3>1. k' = k /\ (role.prot = "PROTECT" => Base[t] <= mutex.ceil) /\ Base[t] \in Nat
      <4>1. role.prot = "PROTECT" => k.prio[t] <= mutex.ceil
        BY <1>1, <1>a, <2>4
      <4>2. k.prio[t] = Base[t]
        BY <2>2
      <4> QED
        BY <1>a, <2>1, <2>4, <4>1, <4>2
    <3>2. role.prot = "PROTECT" => ~(mutex.ceil < Base[t])
      BY <1>1, <3>1
    <3> QED
      BY <1>1, <1>2, <2>1, <2>2, <3>1, <3>2 DEF CeilingExact
  <2> QED
    BY <2>3, <2>4
<1>4. CASE TakesAgain(t)
  <2>1. /\ mutex'.owner = mutex.owner /\ mutex'.ceil = mutex.ceil /\ k' = k
        /\ pc[t] # "out" /\ pc'[t] # "out" /\ \A u \in Threads \ {t} : pc'[u] = pc[u]
    BY <1>4 DEF TakesAgain, Mutex, Moves
  <2> QED
    BY <1>2, <2>1, ExactSame DEF SameCeiling
<1>5. CASE Blocks(t)
  <2>1. k'.prio = k.prio
    BY <1>1, <1>5, SuspendSound DEF Blocks
  <2>2. /\ mutex'.owner = mutex.owner /\ mutex'.ceil = mutex.ceil
        /\ pc[t] # "out" /\ pc'[t] # "out" /\ \A u \in Threads \ {t} : pc'[u] = pc[u]
    BY <1>5 DEF Blocks, Mutex, Moves
  <2> QED
    BY <1>2, <2>1, <2>2, ExactSame DEF SameCeiling
<1>6. CASE CountsDown(t)
  <2>1. /\ mutex'.owner = mutex.owner /\ mutex'.ceil = mutex.ceil /\ k' = k
        /\ role.type = "RECURSIVE" /\ mutex.counter > 1
        /\ pc'[t] # "out" /\ \A u \in Threads \ {t} : pc'[u] = pc[u]
    BY <1>6 DEF CountsDown, Mutex, Moves, After
  <2>2. pc[t] # "out"
    BY <2>1 DEF Changing
  <2> QED
    BY <1>2, <2>1, <2>2, ExactSame DEF SameCeiling
<1>7. CASE Releases(t)
  <2>1. mutex'.owner = NULL
    BY <1>7 DEF Releases, Mutex
  <2>2. \A u \in Threads : k'.prio[u] = Base[u]
    BY <1>1, <2>1 DEF PrioInv, Restored
  <2> QED
    BY <1>1, <2>1, <2>2 DEF CeilingExact
<1>8. CASE Waits(t)
  <2>1. k'.prio = k.prio
    BY <1>1, <1>8, SuspendSound DEF Waits
  <2>2. /\ mutex' = mutex
        /\ pc[t] # "out" /\ pc'[t] # "out" /\ \A u \in Threads \ {t} : pc'[u] = pc[u]
    BY <1>8 DEF Waits, Moves
  <2> QED
    BY <1>2, <2>1, <2>2, ExactSame DEF SameCeiling
<1>9. CASE SetCeiling(t)
  <2>1. /\ mutex'.owner = mutex.owner /\ k' = k /\ pc[t] = "ceil"
        /\ pc'[t] = "out" /\ mutex.owner = t
    BY <1>1, <1>9 DEF SetCeiling, MutexType, At, Goto, Changing
  <2>2. k.prio[t] <= Base[t] /\ (role.prot = "NONE" => k.prio[t] = Base[t])
    <3>1. IF role.prot = "NONE" THEN k.prio[t] = Base[t]
          ELSE k.prio[t] = IF mutex.ceil < Base[t] THEN mutex.ceil ELSE Base[t]
      BY <2>1 DEF CeilingExact
    <3>2. mutex.ceil \in Nat
      BY <1>1
    <3> QED
      BY <1>a, <3>1, <3>2
  <2>3. \A u \in Threads \ {t} : k.prio[u] = Base[u]
    BY <2>1 DEF CeilingExact
  <2> QED
    BY <1>2, <2>1, <2>2, <2>3 DEF CeilingExact
<1>10. CASE pthread_cond_timedwait_resumes(t)
  BY <1>1, <1>2, <1>10, ExactSame DEF SameCeiling, pthread_cond_timedwait_resumes, At, Goto
<1>11. CASE pthread_cond_signal_sys(t)
  <2>1. cond.head # NULL => cond.head \in Threads
    BY <1>1 DEF ListType
  <2>2. k'.prio = k.prio
    BY <1>1, <1>11, <2>1, ActivateSound DEF pthread_cond_signal_sys
  <2> QED
    BY <1>2, <1>11, <2>2, ExactSame DEF SameCeiling, pthread_cond_signal_sys
<1>12. CASE pthread_cond_broadcast_sys(t)
  <2>1. Within(cond, Threads)
    BY <1>1 DEF ListType, Within
  <2>2. k'.prio = k.prio
    BY <1>1, <1>12, <2>1, WakeAllKeeps DEF pthread_cond_broadcast_sys
  <2> QED
    BY <1>2, <1>12, <2>2, ExactSame DEF SameCeiling, pthread_cond_broadcast_sys
<1>13. CASE MSleep(t)
  <2>1. k'.prio = k.prio
    BY <1>1, <1>13, SuspendSound DEF MSleep
  <2> QED
    BY <1>2, <1>13, <2>1, ExactSame DEF SameCeiling, MSleep
<1>14. CASE MTimer(t)
  <2>1. k'.prio = k.prio
    BY <1>1, <1>14, ActivateSound DEF MTimer
  <2> QED
    BY <1>2, <1>14, <2>1, ExactSame DEF SameCeiling, MTimer
<1> QED
  BY <1>3, <1>4, <1>5, <1>6, <1>7, <1>8, <1>9, <1>10, <1>11, <1>12, <1>13, <1>14 DEF Kind

(* The owner of a protected mutex runs at the ceiling or at its own higher *)
(* priority, everybody else at his own: for any threads, priorities,       *)
(* ceilings and depth, whatever the order of lock, setprioceiling, unlock  *)
(* and condition waits, unless a recursive mutex is taken by               *)
(* pthread_mutex_trylock_sys first.                                        *)
THEOREM CeilingExactHolds == MSpec => [](Counting => CeilingExact)
<1> DEFINE Inv == TypeInv /\ Excl /\ PrioInv /\ (Counting => Changing /\ CeilingExact)
<1>1. MInit => Inv
  <2> SUFFICES ASSUME MInit PROVE Changing /\ CeilingExact /\ Excl
    BY TypeInit, PrioInit
  <2>1. mutex.owner = NULL /\ k.prio = Base /\ \A t \in Threads : pc[t] = "run" /\ held[t] = 0
    BY DEF MInit, Asleep
  <2> QED
    BY <2>1, KThreadsAssumption DEF Changing, CeilingExact, Excl
<1>2. Inv /\ [MNext]_mvars => Inv'
  <2> SUFFICES ASSUME Inv, [MNext]_mvars PROVE Inv'
    OBVIOUS
  <2>1. TypeInv' /\ Excl' /\ PrioInv'
    BY TypeNext, ExclNext, PrioNext
  <2>2. CASE UNCHANGED mvars
    <3>1. Counting' => (Changing' /\ CeilingExact')
      BY <2>2 DEF Changing, CeilingExact, Counting, mvars
    <3> QED
      BY <2>1, <3>1
  <2>3. ASSUME NEW t \in Threads, Kind(t), Counting' PROVE Changing' /\ CeilingExact'
    <3>1. Counting
      BY <2>3, UsersNext DEF PrioInv, Counting
    <3> QED
      BY <2>1, <2>3, <3>1, ChangingNext, ExactNext
  <2> QED
    BY <2>1, <2>2, <2>3, Kinds
<1>3. Inv => (Counting => CeilingExact)
  OBVIOUS
<1> QED
  BY <1>1, <1>2, <1>3, PTL DEF MSpec

(* If no ceiling is below a user of the mutex, a protected mutex never     *)
(* makes a READY thread wait for one of lower priority, although           *)
(* pthread_mutex_unlock_sys wakes waiters without calling scheduling().    *)
THEOREM HighestRunsHolds == MSpec => [](Covers => HighestRuns)
<1>1. PrioInv => (Covers => HighestRuns)
  BY DEF PrioInv
<1> QED
  BY <1>1, TypeInit, TypeNext, PrioInit, PrioNext, PTL DEF MSpec

-----------------------------------------------------------------------------
(* Waiters.  The current thread is READY; without timed waits a thread is  *)
(* in one of the two lists exactly while it sleeps in                      *)
(* pthread_mutex_lock_sys, a timer is armed only for a thread that sleeps  *)
(* in the application, and a free mutex has an empty list.                 *)
Live ==
    /\ \A t \in Threads : k.st[t] \in {"SUSPENDED", "READY"}
    /\ cur # Idle => k.st[cur] = "READY"

Listed ==
    /\ ListSound(mutex.list) /\ ListSound(cond)
    /\ Linked(mutex.list) \cap Linked(cond) = {}
    /\ \A t \in Threads :
           t \in Linked(mutex.list) \cup Linked(cond) <=> pc[t] = "lock" /\ k.st[t] = "SUSPENDED"
    /\ \A t \in Threads : timer[t] => pc[t] = "run" /\ k.st[t] = "SUSPENDED"
    /\ \A t \in Threads : pc[t] \notin {"timed", "woken"}
    /\ mutex.owner = NULL => Linked(mutex.list) = {}

WaitInv == Live /\ (role.timed = {} => Listed)

(* scheduling() picks a READY thread.                                      *)
LEMMA LiveScheduled ==
    ASSUME KSound(k'), cur' = scheduling(k'), \A t \in Threads : k'.st[t] \in {"SUSPENDED", "READY"}
    PROVE  Live'
<1>1. cur' # Idle => k'.st[cur'] = "READY"
  BY SchedulingSound
<1> QED
  BY <1>1 DEF Live

LEMMA LiveNext ==
    ASSUME TypeInv, TypeInv', Live, NEW t \in Threads, Kind(t)
    PROVE  Live'
<1>1. /\ KSound(k) /\ KSound(k') /\ cond \in ListType /\ mutex.list \in ListType
      /\ mutex.ceil \in Prios /\ mutex.owner_prio \in Prios /\ Idle \notin Threads
  BY KThreadsAssumption DEF TypeInv, MutexType
<1>2. \A u \in Threads : k.st[u] \in {"SUSPENDED", "READY"} /\ k.st[u] # "FINISHED"
  BY DEF Live
<1>3. CASE Takes(t)
  <2>1. change_thread_prio(k, t, mutex.ceil).st = k.st
    BY <1>1, ChangePrioSound
  <2>2. k'.st = k.st /\ (cur' = cur \/ cur' = scheduling(k'))
    BY <1>3, <2>1 DEF Takes
  <2> QED
    BY <1>1, <1>2, <2>2, LiveScheduled DEF Live
<1>4. CASE TakesAgain(t) \/ CountsDown(t) \/ SetCeiling(t) \/ pthread_cond_timedwait_resumes(t)
  BY <1>4 DEF Live, TakesAgain, CountsDown, SetCeiling, pthread_cond_timedwait_resumes
<1>5. CASE Blocks(t) \/ Waits(t) \/ MSleep(t)
  <2>1. k' = suspend_thread(k, t) /\ cur' = scheduling(k')
    BY <1>5 DEF Blocks, Waits, MSleep
  <2>2. \A u \in Threads : k'.st[u] = IF u = t THEN "SUSPENDED" ELSE k.st[u]
    BY <1>1, <1>2, <2>1, SuspendStates
  <2> QED
    BY <1>1, <1>2, <2>1, <2>2, LiveScheduled
<1>6. CASE Releases(t)
  <2> DEFINE w == WakeAll(k, mutex.list)
  <2>1. Within(mutex.list, Threads)
    BY <1>1 DEF Within, ListType
  <2>2. KSound(w[1]) /\ \A u \in Threads : w[1].st[u] # k.st[u] => w[1].st[u] = "READY"
    BY <1>1, <2>1, WakeAllKeeps
  <2>3. change_thread_prio(w[1], t, mutex.owner_prio).st = w[1].st
    BY <1>1, <2>2, ChangePrioSound
  <2>4. k'.st = w[1].st /\ (cur' = cur \/ cur' = scheduling(k'))
    BY <1>6, <2>3 DEF Releases
  <2> HIDE DEF w
  <2>5. \A u \in Threads : k'.st[u] \in {"SUSPENDED", "READY"} /\ (k.st[u] = "READY" => k'.st[u] = "READY")
    BY <1>2, <2>2, <2>4
  <2>6. CASE cur' = cur
    BY <2>5, <2>6 DEF Live, TypeInv
  <2>7. CASE cur' = scheduling(k')
    BY <1>1, <2>5, <2>7, LiveScheduled
  <2> QED
    BY <2>4, <2>6, <2>7
<1>7. CASE pthread_cond_signal_sys(t)
  <2>1. cond.head # NULL => cond.head \in Threads
    BY <1>1 DEF ListType
  <2>2. cond.head # NULL => \A u \in Threads : activate_thread(k, cond.head).st[u] = IF u = cond.head THEN "READY" ELSE k.st[u]
    BY <1>1, <1>2, <2>1, ActivateStates
  <2>3. cur' = scheduling(k') /\ \A u \in Threads : k'.st[u] \in {"SUSPENDED", "READY"}
    BY <1>2, <1>7, <2>2 DEF pthread_cond_signal_sys
  <2> QED
    BY <1>1, <2>3, LiveScheduled
<1>8. CASE pthread_cond_broadcast_sys(t)
  <2>1. Within(cond, Threads)
    BY <1>1 DEF Within, ListType
  <2>2. \A u \in Threads : WakeAll(k, cond)[1].st[u] # k.st[u] => WakeAll(k, cond)[1].st[u] = "READY"
    BY <1>1, <2>1, WakeAllKeeps
  <2>3. cur' = scheduling(k') /\ \A u \in Threads : k'.st[u] \in {"SUSPENDED", "READY"}
    BY <1>2, <1>8, <2>2 DEF pthread_cond_broadcast_sys
  <2> QED
    BY <1>1, <2>3, LiveScheduled
<1>9. CASE MTimer(t)
  <2>1. k' = activate_thread(k, t) /\ cur' = scheduling(k')
    BY <1>9 DEF MTimer
  <2>2. \A u \in Threads : k'.st[u] = IF u = t THEN "READY" ELSE k.st[u]
    BY <1>1, <1>2, <2>1, ActivateStates
  <2> QED
    BY <1>1, <1>2, <2>1, <2>2, LiveScheduled
<1> QED
  BY <1>3, <1>4, <1>5, <1>6, <1>7, <1>8, <1>9 DEF Kind

LEMMA ListedNext ==
    ASSUME TypeInv, TypeInv', Live, Listed, role.timed = {}, NEW t \in Threads, Kind(t)
    PROVE  Listed'
<1>1. /\ KSound(k) /\ mutex \in MutexType /\ mutex.ceil \in Prios /\ mutex.owner_prio \in Prios
      /\ NULL \notin Threads /\ Idle \notin Threads /\ pc \in [Threads -> PCs]
      /\ timer \in [Threads -> BOOLEAN]
  BY KThreadsAssumption DEF TypeInv, MutexType
<1>2. \A u \in Threads : k.st[u] \in {"SUSPENDED", "READY"} /\ k.st[u] # "FINISHED"
  BY DEF Live
<1>3. cur = t => k.st[t] = "READY" /\ t \notin Linked(mutex.list) /\ t \notin Linked(cond) /\ ~timer[t]
  BY <1>1 DEF Live, Listed
<1>4. Linked(mutex.list) \subseteq Threads /\ Linked(cond) \subseteq Threads
  BY HeadSound DEF Listed
<1>5. CASE Takes(t)
  <2>1. change_thread_prio(k, t, mutex.ceil).st = k.st
    BY <1>1, ChangePrioSound
  <2>2. k'.st = k.st
    BY <1>5, <2>1 DEF Takes
  <2>3. /\ mutex'.list = mutex.list /\ mutex'.owner = t /\ cond' = cond /\ timer' = timer
        /\ Moves(t, {"run", "ceil"}) /\ cur = t
    BY <1>5 DEF Takes, Mutex
  <2> QED
    BY <1>1, <1>3, <2>2, <2>3 DEF Listed, Moves
<1>6. CASE TakesAgain(t)
  <2>1. /\ mutex'.list = mutex.list /\ mutex'.owner = mutex.owner /\ cond' = cond /\ timer' = timer
        /\ Moves(t, {"run", "ceil"}) /\ cur = t /\ k' = k
    BY <1>6 DEF TakesAgain, Mutex
  <2> QED
    BY <1>1, <1>3, <2>1 DEF Listed, Moves
<1>7. CASE Blocks(t)
  <2>1. /\ mutex'.list = insert_pthread_list(mutex.list, t) /\ mutex'.owner = mutex.owner
        /\ mutex.owner # NULL /\ cond' = cond /\ timer' = timer
        /\ Moves(t, {"lock"}) /\ cur = t /\ k' = suspend_thread(k, t)
    BY <1>7 DEF Blocks, Mutex
  <2>2. \A u \in Threads : k'.st[u] = IF u = t THEN "SUSPENDED" ELSE k.st[u]
    BY <1>1, <1>2, <2>1, SuspendStates
  <2>3. ListSound(mutex.list)
    BY DEF Listed
  <2>4. ListSound(mutex'.list) /\ Linked(mutex'.list) = Linked(mutex.list) \cup {t}
    BY <1>3, <2>1, <2>3, InsertSound
  <2> QED
    BY <1>1, <1>3, <2>1, <2>2, <2>4 DEF Listed, Moves
<1>8. CASE CountsDown(t)
  <2>1. /\ mutex'.list = mutex.list /\ mutex'.owner = mutex.owner /\ cond' = cond /\ timer' = timer
        /\ Moves(t, {"run", "wait"}) /\ cur = t /\ k' = k
    BY <1>8 DEF CountsDown, Mutex, Moves, After
  <2> QED
    BY <1>1, <1>3, <2>1 DEF Listed, Moves
<1>9. CASE Releases(t)
  <2> DEFINE w == WakeAll(k, mutex.list)
  <2>0. ListSound(mutex.list)
    BY DEF Listed
  <2>1. /\ ListSound(w[2]) /\ Linked(w[2]) = {}
        /\ \A u \in Threads : w[1].st[u] = IF u \in Linked(mutex.list) /\ k.st[u] # "FINISHED"
                                           THEN "READY" ELSE k.st[u]
    <3>1. Woken(k, mutex.list, w)
      BY <1>1, <2>0, WakeAllEmpties
    <3> HIDE DEF w
    <3> QED
      BY <3>1 DEF Woken
  <2>2. KSound(w[1])
    <3>1. mutex.list \in ListType /\ Within(mutex.list, Threads)
      BY <1>1 DEF MutexType, ListType, Within
    <3> QED
      BY <1>1, <3>1, WakeAllKeeps
  <2>3. change_thread_prio(w[1], t, mutex.owner_prio).st = w[1].st
    BY <1>1, <2>2, ChangePrioStates, Zenon
  <2>4. /\ mutex'.list = w[2] /\ cond' = cond /\ timer' = timer /\ cur = t /\ k'.st = w[1].st
        /\ Moves(t, {"run", "wait"})
    BY <1>9, <2>3 DEF Releases, Mutex, Moves, After
  <2> HIDE DEF w
  <2>5. \A u \in Threads : k'.st[u] = IF u \in Linked(mutex.list) THEN "READY" ELSE k.st[u]
    BY <1>2, <2>1, <2>4
  <2> QED
    BY <1>1, <1>3, <2>1, <2>4, <2>5 DEF Listed, Moves
<1>10. CASE Waits(t)
  <2>0. pc[t] = "wait"
    BY <1>10 DEF Waits, Listed
  <2>1. /\ mutex' = mutex /\ cond' = insert_pthread_list(cond, t) /\ timer' = timer
        /\ Moves(t, {"lock"}) /\ cur = t /\ k' = suspend_thread(k, t)
    BY <1>10, <2>0 DEF Waits
  <2>2. \A u \in Threads : k'.st[u] = IF u = t THEN "SUSPENDED" ELSE k.st[u]
    BY <1>1, <1>2, <2>1, SuspendStates
  <2>3. ListSound(cond)
    BY DEF Listed
  <2>4. ListSound(cond') /\ Linked(cond') = Linked(cond) \cup {t}
    BY <1>3, <2>1, <2>3, InsertSound
  <2> QED
    BY <1>1, <1>3, <2>1, <2>2, <2>4 DEF Listed, Moves
<1>11. CASE SetCeiling(t)
  <2>1. /\ mutex'.list = mutex.list /\ mutex'.owner = mutex.owner /\ cond' = cond /\ timer' = timer
        /\ pc' = [pc EXCEPT ![t] = "out"] /\ cur = t /\ k' = k
    BY <1>1, <1>11 DEF SetCeiling, MutexType, Goto, At
  <2> QED
    BY <1>1, <1>3, <2>1 DEF Listed
<1>12. CASE pthread_cond_timedwait_resumes(t)
  BY <1>12 DEF pthread_cond_timedwait_resumes, Listed, At
<1>13. CASE pthread_cond_signal_sys(t)
  <2>0. ListSound(cond)
    BY DEF Listed
  <2>1. /\ cond' = remove_head_pthread_list(cond) /\ UNCHANGED <<mutex, pc, timer>>
        /\ k' = IF cond.head = NULL THEN k ELSE activate_thread(k, cond.head)
    BY <1>13 DEF pthread_cond_signal_sys
  <2>2. ListSound(cond') /\ Linked(cond') = Linked(cond) \ {cond.head}
    BY <2>0, <2>1, RemoveHeadSound
  <2>3. CASE cond.head = NULL
    <3>1. k' = k /\ Linked(cond') = Linked(cond)
      BY <1>1, <1>4, <2>1, <2>2, <2>3
    <3> QED
      BY <2>1, <2>2, <3>1 DEF Listed
  <2>4. CASE cond.head # NULL
    <3>1. cond.head \in Linked(cond) /\ cond.head \in Threads
      BY <1>4, <2>0, <2>4, HeadSound
    <3>2. \A u \in Threads : k'.st[u] = IF u = cond.head THEN "READY" ELSE k.st[u]
      BY <1>1, <1>2, <2>1, <2>4, <3>1, ActivateStates
    <3>3. cond.head \notin Linked(mutex.list) /\ pc[cond.head] = "lock"
      BY <3>1 DEF Listed
    <3> QED
      BY <2>1, <2>2, <3>1, <3>2, <3>3 DEF Listed
  <2> QED
    BY <2>3, <2>4
<1>14. CASE pthread_cond_broadcast_sys(t)
  <2> DEFINE w == WakeAll(k, cond)
  <2>0. ListSound(cond)
    BY DEF Listed
  <2>1. /\ ListSound(w[2]) /\ Linked(w[2]) = {}
        /\ \A u \in Threads : w[1].st[u] = IF u \in Linked(cond) /\ k.st[u] # "FINISHED"
                                           THEN "READY" ELSE k.st[u]
    <3>1. Woken(k, cond, w)
      BY <1>1, <2>0, WakeAllEmpties
    <3> HIDE DEF w
    <3> QED
      BY <3>1 DEF Woken
  <2>2. cond' = w[2] /\ k' = w[1] /\ UNCHANGED <<mutex, pc, timer>>
    BY <1>14 DEF pthread_cond_broadcast_sys
  <2> HIDE DEF w
  <2>3. \A u \in Threads : k'.st[u] = IF u \in Linked(cond) THEN "READY" ELSE k.st[u]
    BY <1>2, <2>1, <2>2
  <2> QED
    BY <2>1, <2>2, <2>3 DEF Listed
<1>15. CASE MSleep(t)
  <2>1. /\ pc[t] = "run" /\ cur = t /\ k' = suspend_thread(k, t) /\ timer' = [timer EXCEPT ![t] = TRUE]
        /\ UNCHANGED <<mutex, cond, pc>>
    BY <1>15 DEF MSleep, At
  <2>2. \A u \in Threads : k'.st[u] = IF u = t THEN "SUSPENDED" ELSE k.st[u]
    BY <1>1, <1>2, <2>1, SuspendStates
  <2> QED
    BY <1>1, <1>3, <2>1, <2>2 DEF Listed
<1>16. CASE MTimer(t)
  <2>1. /\ timer[t] /\ k' = activate_thread(k, t) /\ timer' = [timer EXCEPT ![t] = FALSE]
        /\ UNCHANGED <<mutex, cond, pc>>
    BY <1>16 DEF MTimer
  <2>2. \A u \in Threads : k'.st[u] = IF u = t THEN "READY" ELSE k.st[u]
    BY <1>1, <1>2, <2>1, ActivateStates
  <2>3. pc[t] = "run"
    BY <2>1 DEF Listed
  <2> QED
    BY <1>1, <2>1, <2>2, <2>3 DEF Listed
<1> QED
  BY <1>5, <1>6, <1>7, <1>8, <1>9, <1>10, <1>11, <1>12, <1>13, <1>14, <1>15, <1>16 DEF Kind

LEMMA WaitNext == TypeInv /\ WaitInv /\ [MNext]_mvars => WaitInv'
<1> SUFFICES ASSUME TypeInv, WaitInv, [MNext]_mvars PROVE WaitInv'
  OBVIOUS
<1>1. CASE UNCHANGED mvars
  BY <1>1 DEF WaitInv, Live, Listed, mvars
<1>2. ASSUME NEW t \in Threads, Kind(t) PROVE WaitInv'
  <2>1. TypeInv'
    BY TypeNext
  <2>2. Live'
    BY <1>2, <2>1, LiveNext DEF WaitInv
  <2>3. role' = role
    BY <1>2
       DEF Kind, Takes, TakesAgain, Blocks, CountsDown, Releases, Waits, SetCeiling,
           pthread_cond_timedwait_resumes, pthread_cond_signal_sys, pthread_cond_broadcast_sys, MSleep, MTimer
  <2>4. role.timed = {} => Listed'
    BY <1>2, <2>1, ListedNext DEF WaitInv
  <2> QED
    BY <2>2, <2>3, <2>4 DEF WaitInv
<1> QED
  BY <1>1, <1>2, Kinds

LEMMA WaitInit == MInit => WaitInv
<1> SUFFICES ASSUME MInit PROVE WaitInv
  OBVIOUS
<1>1. mutex.list = init_pthread_list /\ cond = init_pthread_list
  BY DEF MInit
<1>2. \A t \in Threads : k.st[t] = "SUSPENDED"
  BY DEF MInit, Asleep
<1>3. /\ ListSound(init_pthread_list) /\ Linked(init_pthread_list) = {}
  BY InitListSound
<1>4. Listed
  BY <1>1, <1>2, <1>3 DEF MInit, Listed
<1>5. Live
  BY <1>2 DEF MInit, Live
<1> QED
  BY <1>4, <1>5 DEF WaitInv

(* No waiter is forgotten: every thread that sleeps in                     *)
(* pthread_mutex_lock_sys is in the list the next unlock wakes or in the   *)
(* list of its condition, and a free mutex has nobody waiting.  Said of    *)
(* uses without timed waits: a sleep timer left armed by one wakes the     *)
(* thread in a list it is then put into a second time.                     *)
THEOREM WaitersKnownHolds == MSpec => [](role.timed = {} => WaitersKnown)
<1>1. WaitInv => (role.timed = {} => WaitersKnown)
  <2> SUFFICES ASSUME Listed PROVE WaitersKnown
    BY DEF WaitInv
  <2>1. mutex.owner = NULL => mutex.list.head = NULL
    BY HeadSound DEF Listed
  <2> QED
    BY <2>1 DEF Listed, WaitersKnown
<1> QED
  BY <1>1, TypeInit, TypeNext, WaitInit, WaitNext, PTL DEF MSpec
=============================================================================
