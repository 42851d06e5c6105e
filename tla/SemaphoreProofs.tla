--------------------------- MODULE SemaphoreProofs ---------------------------
(***************************************************************************)
(* Proofs about Semaphore, for every set of threads, priorities, values    *)
(* and roles.                                                              *)
(***************************************************************************)
EXTENDS Semaphore, KThreadsProofs

(* Types as the proofs need them: the ready queues are sound, priorities   *)
(* never change, and the current thread is READY.                          *)
TypeInv ==
    /\ role \in Roles /\ KSound(k) /\ k.prio = Base /\ cur \in Threads \cup {Idle}
    /\ value \in Int /\ list \in ListType /\ live \in BOOLEAN
    /\ pc \in [Threads -> PCs] /\ reg \in [Threads -> Int] /\ timer \in [Threads -> BOOLEAN]

Live ==
    /\ \A t \in Threads : k.st[t] \in {"SUSPENDED", "READY"}
    /\ cur # Idle => k.st[cur] = "READY"

(* What a step does to the threads.                                        *)
Suspends(t) == k' = suspend_thread(k, t) /\ cur' = scheduling(k')
Wakes(u)    == k' = activate_thread(k, u) /\ cur' \in {cur, scheduling(k')}

LEMMA SuspendsSound ==
    ASSUME TypeInv, Live, NEW t \in Threads, Suspends(t)
    PROVE  /\ KSound(k') /\ k'.prio = Base /\ cur' \in Threads \cup {Idle} /\ Live'
           /\ \A u \in Threads : k'.st[u] = IF u = t THEN "SUSPENDED" ELSE k.st[u]
<1>1. KSound(k) /\ k.st[t] # "FINISHED"
  BY DEF TypeInv, Live
<1>2. KSound(k') /\ k'.prio = Base
  BY <1>1, SuspendSound DEF Suspends, TypeInv
<1>3. \A u \in Threads : k'.st[u] = IF u = t THEN "SUSPENDED" ELSE k.st[u]
  BY <1>1, SuspendStates DEF Suspends
<1>4. cur' \in Threads \cup {Idle} /\ (cur' # Idle => k'.st[cur'] = "READY")
  BY <1>2, SchedulingSound DEF Suspends
<1> QED
  BY <1>2, <1>3, <1>4 DEF Live

LEMMA WakesSound ==
    ASSUME TypeInv, Live, NEW v \in Threads, Wakes(v)
    PROVE  /\ KSound(k') /\ k'.prio = Base /\ cur' \in Threads \cup {Idle} /\ Live'
           /\ \A u \in Threads : k'.st[u] = IF u = v THEN "READY" ELSE k.st[u]
<1>1. KSound(k) /\ k.st[v] # "FINISHED"
  BY DEF TypeInv, Live
<1>2. KSound(k') /\ k'.prio = Base
  BY <1>1, ActivateSound DEF Wakes, TypeInv
<1>3. \A u \in Threads : k'.st[u] = IF u = v THEN "READY" ELSE k.st[u]
  BY <1>1, ActivateStates DEF Wakes
<1>4. scheduling(k') \in Threads \cup {Idle} /\ (scheduling(k') # Idle => k'.st[scheduling(k')] = "READY")
  BY <1>2, SchedulingSound
<1>5. cur' \in Threads \cup {Idle} /\ (cur' # Idle => k'.st[cur'] = "READY")
  BY <1>3, <1>4 DEF Wakes, TypeInv, Live
<1> QED
  BY <1>2, <1>3, <1>5 DEF Live

LEMMA TypeInit == SInit => TypeInv /\ Live
<1> SUFFICES ASSUME SInit PROVE TypeInv /\ Live
  OBVIOUS
<1>1. KSound(k) /\ k.prio = Base
  <2>1. k = Asleep(Threads, Base)
    BY DEF SInit
  <2>2. Asleep(Threads, Base).prio = Base
    BY DEF Asleep
  <2> QED
    BY <2>1, <2>2, AsleepSound, SemaphoreAssumption
<1>2. \A t \in Threads : k.st[t] = "SUSPENDED"
  BY DEF SInit, Asleep
<1>3. init_pthread_list \in ListType
  BY DEF init_pthread_list, ListType
<1>4. value \in Int
  BY SemaphoreAssumption DEF SInit
<1> QED
  BY <1>1, <1>2, <1>3, <1>4 DEF SInit, TypeInv, Live, PCs

LEMMA TypeNext == TypeInv /\ Live /\ [SNext]_svars => (TypeInv /\ Live)'
<1> SUFFICES ASSUME TypeInv, Live, [SNext]_svars PROVE TypeInv' /\ Live'
  OBVIOUS
<1>1. CASE UNCHANGED svars
  BY <1>1 DEF TypeInv, Live, svars
<1>2. ASSUME NEW t \in Threads, SStep(t) \/ STimer(t) PROVE TypeInv' /\ Live'
  <2>1. /\ value \in Int /\ list \in ListType /\ pc \in [Threads -> PCs] /\ reg \in [Threads -> Int]
        /\ timer \in [Threads -> BOOLEAN]
    BY DEF TypeInv
  <2>2. CASE sem_init_sys(t)
    <3>1. value' \in Int
      BY <2>2, SemaphoreAssumption DEF sem_init_sys
    <3>2. list' \in ListType
      BY <2>1, <2>2 DEF sem_init_sys, ListType
    <3> QED
      BY <2>2, <3>1, <3>2 DEF sem_init_sys, TypeInv, Live
  <2>3. CASE sem_destroy_sys(t)
    BY <2>3 DEF sem_destroy_sys, TypeInv, Live
  <2>4. CASE sem_trywait_sys(t)
    BY <2>4 DEF sem_trywait_sys, TypeInv, Live
  <2>5. CASE sem_wait_sys(t) /\ value = 0
    <3>1. Suspends(t) /\ list' = insert_pthread_list(list, t) /\ pc' = [pc EXCEPT ![t] = "wait"]
      BY <2>5 DEF sem_wait_sys, Block, Suspends, Goto
    <3>2. list' \in ListType
      BY <2>1, <3>1, InsertType
    <3> QED
      BY <2>1, <2>5, <3>1, <3>2, SuspendsSound DEF sem_wait_sys, TypeInv, PCs
  <2>6. CASE sem_wait_sys(t) /\ value # 0
    BY <2>6 DEF sem_wait_sys, TypeInv, Live
  <2>7. CASE sem_wait_resumes(t)
    BY <2>7 DEF sem_wait_resumes, Goto, TypeInv, Live, PCs
  <2>8. CASE sem_timedwait_sys(t)
    BY <2>8 DEF sem_timedwait_sys, Goto, TypeInv, Live, PCs
  <2>9. CASE sem_timedwait_takes(t)
    BY <2>9 DEF sem_timedwait_takes, Goto, TypeInv, Live, PCs
  <2>18. CASE sem_timedwait_fails(t)
    BY <2>18 DEF sem_timedwait_fails, Goto, TypeInv, Live, PCs
  <2>10. CASE sem_timedwait_sleeps(t)
    <3>1. Suspends(t) /\ list' = insert_pthread_list(list, t) /\ pc' = [pc EXCEPT ![t] = "tw2"]
      BY <2>10 DEF sem_timedwait_sleeps, Block, Suspends, Goto
    <3>2. list' \in ListType
      BY <2>1, <3>1, InsertType
    <3> QED
      BY <2>1, <2>10, <3>1, <3>2, SuspendsSound DEF sem_timedwait_sleeps, TypeInv, PCs
  <2>11. CASE sem_timedwait_resumes(t)
    <3>1. list' \in ListType
      BY <2>1, <2>11, RemoveType DEF sem_timedwait_resumes
    <3> QED
      BY <2>11, <3>1 DEF sem_timedwait_resumes, Goto, TypeInv, Live, PCs
  <2>12. CASE sem_post_sys(t) /\ value = 0 /\ list.head # NULL
    <3>1. Wakes(list.head) /\ list' = remove_head_pthread_list(list) /\ pc' = [pc EXCEPT ![t] = "post"]
      BY <2>12 DEF sem_post_sys, Wakes, Goto
    <3>2. list' \in ListType /\ list.head \in Threads
      BY <2>1, <2>12, <3>1, RemoveHeadType DEF ListType
    <3> QED
      BY <2>1, <2>12, <3>1, <3>2, WakesSound DEF sem_post_sys, TypeInv, PCs
  <2>13. CASE sem_post_sys(t) /\ ~(value = 0 /\ list.head # NULL)
    BY <2>13 DEF sem_post_sys, TypeInv, Live
  <2>14. CASE sem_post_resumes(t)
    BY <2>14 DEF sem_post_resumes, Goto, TypeInv, Live, PCs
  <2>15. CASE SSleep(t)
    <3>1. Suspends(t)
      BY <2>15 DEF SSleep, Suspends
    <3> QED
      BY <2>15, <3>1, SuspendsSound DEF SSleep, TypeInv
  <2>16. CASE SKill(t)
    <3>1. PICK u \in role.signal : k' = activate_thread(k, u)
      BY <2>16 DEF SKill
    <3>2. u \in Threads
      BY SemaphoreAssumption DEF TypeInv
    <3>3. Wakes(u)
      BY <2>16, <3>1 DEF SKill, Wakes
    <3> QED
      BY <2>16, <3>2, <3>3, WakesSound DEF SKill, TypeInv
  <2>17. CASE STimer(t)
    <3>1. Wakes(t)
      BY <2>17 DEF STimer, Wakes
    <3> QED
      BY <2>17, <3>1, WakesSound DEF STimer, TypeInv
  <2> QED
    BY <1>2, <2>2, <2>3, <2>4, <2>5, <2>6, <2>7, <2>8, <2>9, <2>10, <2>11, <2>12, <2>13, <2>14,
       <2>15, <2>16, <2>17, <2>18 DEF SStep
<1> QED
  BY <1>1, <1>2 DEF SNext

-----------------------------------------------------------------------------
(* The uses for which the semaphore counts: nobody calls sem_wait_sys, or  *)
(* one thread w does, which gets no signals, and whose posters have a      *)
(* higher priority than it.                                                *)
OneWaiter(w) ==
    /\ role.timed = {} /\ role.wait \subseteq {w} /\ role.try \subseteq {w}
    /\ w \notin role.signal \cup role.post
    /\ \A p \in role.post : Base[p] < Base[w]

Proper == role.wait = {} \/ \E w \in Threads : OneWaiter(w)

(* Uses without sem_wait_sys: a thread that sleeps in sem_timedwait_sys is *)
(* in the list, one that is in the list has not left that call.            *)
Timed ==
    /\ value >= 0 /\ ListSound(list)
    /\ \A t \in Threads : pc[t] # "wait" /\ (pc[t] = "tw0" => reg[t] > 0)
    /\ \A t \in Threads : t \in Linked(list) => pc[t] = "tw2"
    /\ \A t \in Threads : pc[t] = "tw2" /\ k.st[t] = "SUSPENDED" => t \in Linked(list)

LEMMA TimedNext ==
    ASSUME TypeInv, Live, role.wait = {}, Timed, NEW t \in Threads, SStep(t) \/ STimer(t)
    PROVE  Timed'
<1>1. /\ value \in Int /\ list \in ListType /\ pc \in [Threads -> PCs] /\ reg \in [Threads -> Int]
      /\ SEM_VALUE_MAX \in Nat
  BY SemaphoreAssumption DEF TypeInv
<1>2. /\ value >= 0 /\ ListSound(list)
      /\ \A u \in Threads : pc[u] # "wait" /\ (pc[u] = "tw0" => reg[u] > 0)
      /\ \A u \in Threads : u \in Linked(list) => pc[u] = "tw2"
      /\ \A u \in Threads : pc[u] = "tw2" /\ k.st[u] = "SUSPENDED" => u \in Linked(list)
  BY DEF Timed
<1>3. cur = t => k.st[t] = "READY"
  BY KThreadsAssumption DEF Live
<1>4. CASE sem_trywait_sys(t)
  BY <1>1, <1>2, <1>4 DEF sem_trywait_sys, Timed
<1>5. CASE sem_init_sys(t) \/ sem_destroy_sys(t) \/ sem_wait_sys(t) \/ sem_wait_resumes(t)
  BY <1>2, <1>5 DEF sem_init_sys, sem_destroy_sys, sem_wait_sys, sem_wait_resumes, At
<1>6. CASE sem_timedwait_sys(t)
  BY <1>1, <1>2, <1>3, <1>6 DEF sem_timedwait_sys, At, Goto, Timed
<1>7. CASE sem_timedwait_takes(t)
  BY <1>1, <1>2, <1>3, <1>7 DEF sem_timedwait_takes, At, Goto, Timed
<1>16. CASE sem_timedwait_fails(t)
  BY <1>1, <1>2, <1>3, <1>16 DEF sem_timedwait_fails, At, Goto, Timed
<1>8. CASE sem_timedwait_sleeps(t)
  <2>1. /\ Suspends(t) /\ list' = insert_pthread_list(list, t) /\ pc' = [pc EXCEPT ![t] = "tw2"]
        /\ value' = value /\ reg' = reg /\ pc[t] = "tw1"
    BY <1>8 DEF sem_timedwait_sleeps, Block, Suspends, Goto, At
  <2>2. t \notin Linked(list)
    BY <1>2, <2>1
  <2>3. ListSound(list') /\ Linked(list') = Linked(list) \cup {t}
    BY <1>2, <2>1, <2>2, InsertSound
  <2>4. \A u \in Threads : k'.st[u] = IF u = t THEN "SUSPENDED" ELSE k.st[u]
    BY <2>1, SuspendsSound
  <2> QED
    BY <1>1, <1>2, <2>1, <2>3, <2>4 DEF Timed
<1>9. CASE sem_timedwait_resumes(t)
  <2>1. /\ list' = remove_pthread_list(list, t) /\ pc' = [pc EXCEPT ![t] = "run"]
        /\ value' = (IF value > 0 THEN value - 1 ELSE value) /\ reg' = reg /\ k' = k
    BY <1>9 DEF sem_timedwait_resumes, Goto
  <2>2. ListSound(list') /\ Linked(list') = Linked(list) \ {t}
    BY <1>2, <2>1, RemoveSound
  <2> QED
    BY <1>1, <1>2, <2>1, <2>2 DEF Timed
<1>10. CASE sem_post_sys(t) /\ value = 0 /\ list.head # NULL
  <2>1. /\ Wakes(list.head) /\ list' = remove_head_pthread_list(list) /\ pc' = [pc EXCEPT ![t] = "post"]
        /\ value' = value /\ reg' = reg /\ pc[t] = "run"
    BY <1>10 DEF sem_post_sys, Wakes, Goto, At
  <2>2. list.head \in Linked(list) /\ list.head \in Threads
    BY <1>2, <1>10, HeadSound
  <2>3. ListSound(list') /\ Linked(list') = Linked(list) \ {list.head}
    BY <1>2, <2>1, RemoveHeadSound
  <2>4. \A u \in Threads : k'.st[u] = IF u = list.head THEN "READY" ELSE k.st[u]
    BY <2>1, <2>2, WakesSound
  <2> QED
    BY <1>1, <1>2, <2>1, <2>2, <2>3, <2>4 DEF Timed
<1>11. CASE sem_post_sys(t) /\ ~(value = 0 /\ list.head # NULL)
  BY <1>1, <1>2, <1>11 DEF sem_post_sys, Timed
<1>12. CASE sem_post_resumes(t)
  BY <1>1, <1>2, <1>12 DEF sem_post_resumes, At, Goto, Timed
<1>13. CASE SSleep(t)
  <2>1. Suspends(t) /\ pc[t] = "run" /\ UNCHANGED <<value, list, pc, reg>>
    BY <1>13 DEF SSleep, Suspends, At
  <2>2. \A u \in Threads : k'.st[u] = IF u = t THEN "SUSPENDED" ELSE k.st[u]
    BY <2>1, SuspendsSound
  <2> QED
    BY <1>1, <1>2, <2>1, <2>2 DEF Timed
<1>14. CASE SKill(t)
  <2>1. PICK u \in role.signal : k' = activate_thread(k, u)
    BY <1>14 DEF SKill
  <2>2. u \in Threads
    BY SemaphoreAssumption DEF TypeInv
  <2>3. Wakes(u) /\ UNCHANGED <<value, list, pc, reg>>
    BY <1>14, <2>1 DEF SKill, Wakes
  <2>4. \A v \in Threads : k'.st[v] = IF v = u THEN "READY" ELSE k.st[v]
    BY <2>2, <2>3, WakesSound
  <2> QED
    BY <1>1, <1>2, <2>3, <2>4 DEF Timed
<1>15. CASE STimer(t)
  <2>1. Wakes(t) /\ UNCHANGED <<value, list, pc, reg>>
    BY <1>15 DEF STimer, Wakes
  <2>2. \A v \in Threads : k'.st[v] = IF v = t THEN "READY" ELSE k.st[v]
    BY <2>1, WakesSound
  <2> QED
    BY <1>1, <1>2, <2>1, <2>2 DEF Timed
<1> QED
  BY <1>4, <1>5, <1>6, <1>7, <1>8, <1>9, <1>10, <1>11, <1>12, <1>13, <1>14, <1>15, <1>16 DEF SStep

(* One waiter w: it is in the list exactly while it sleeps in              *)
(* sem_wait_sys, with value 0 and no post under way; woken there, it finds *)
(* a unit or a post that is still to raise the value, and it does not run  *)
(* before that, because the poster goes first.                             *)
Posting(p) == pc[p] = "post"
Blocked(w) == pc[w] = "wait" /\ k.st[w] = "SUSPENDED"

Single(w) ==
    /\ value >= 0 /\ ListSound(list) /\ Linked(list) = IF Blocked(w) THEN {w} ELSE {}
    /\ \A t \in Threads : /\ pc[t] \in {"run", "wait", "post"} /\ (pc[t] = "wait" => t = w)
                          /\ Posting(t) => t \in role.post /\ k.st[t] = "READY"
    /\ Blocked(w) => value = 0 /\ \A p \in Threads : ~Posting(p)
    /\ pc[w] = "wait" /\ k.st[w] = "READY" => value > 0 \/ \E p \in Threads : Posting(p)
    /\ cur = w => \A p \in Threads : ~Posting(p)
    /\ timer[w] => pc[w] = "run" /\ k.st[w] = "SUSPENDED"

(* The waiter does not get the processor while a post is under way.        *)
LEMMA PosterFirst ==
    ASSUME NEW w \in Threads, OneWaiter(w), NEW kk, KSound(kk), kk.prio = Base, NEW p \in role.post,
           role \in Roles, kk.st[p] = "READY"
    PROVE  scheduling(kk) # w
<1>1. p \in Threads /\ Base[p] < Base[w] /\ w # Idle
  BY SemaphoreAssumption, KThreadsAssumption DEF OneWaiter
<1>2. Base[p] \in Int /\ Base[w] \in Int
  BY <1>1, SemaphoreAssumption, KThreadsAssumption DEF Prios
<1>3. scheduling(kk) # Idle => Base[scheduling(kk)] <= Base[p]
  BY <1>1, SchedulingSound
<1> QED
  BY <1>1, <1>2, <1>3

LEMMA SingleNext ==
    ASSUME TypeInv, Live, NEW w \in Threads, OneWaiter(w), Single(w),
           NEW t \in Threads, SStep(t) \/ STimer(t)
    PROVE  Single(w)'
<1>1. /\ value \in Int /\ list \in ListType /\ pc \in [Threads -> PCs] /\ timer \in [Threads -> BOOLEAN]
      /\ SEM_VALUE_MAX \in Nat \ {0} /\ InitValues \subseteq Nat /\ role \in Roles
      /\ role.post \subseteq Threads /\ role.signal \subseteq Threads
  BY SemaphoreAssumption DEF TypeInv
<1>2. /\ role.timed = {} /\ role.wait \subseteq {w} /\ role.try \subseteq {w}
      /\ w \notin role.signal /\ w \notin role.post
  BY DEF OneWaiter
<1>3. /\ value >= 0 /\ ListSound(list) /\ Linked(list) = (IF Blocked(w) THEN {w} ELSE {})
      /\ \A u \in Threads : /\ pc[u] \in {"run", "wait", "post"} /\ (pc[u] = "wait" => u = w)
                            /\ Posting(u) => u \in role.post /\ k.st[u] = "READY"
      /\ Blocked(w) => value = 0 /\ \A p \in Threads : ~Posting(p)
      /\ pc[w] = "wait" /\ k.st[w] = "READY" => value > 0 \/ \E p \in Threads : Posting(p)
      /\ cur = w => \A p \in Threads : ~Posting(p)
      /\ timer[w] => pc[w] = "run" /\ k.st[w] = "SUSPENDED"
  BY DEF Single
<1>4. cur = t => k.st[t] = "READY" /\ (t = w => ~Blocked(w) /\ ~timer[w] /\ list.head = NULL)
  BY <1>3, KThreadsAssumption, HeadSound DEF Live, Blocked
<1>5. \A u \in Threads : k.st[u] \in {"SUSPENDED", "READY"}
  BY DEF Live
<1>6. CASE sem_init_sys(t)
  <2>1. /\ value' \in InitValues /\ list' = [list EXCEPT !.head = NULL] /\ t = w /\ cur = w
        /\ pc[w] = "run" /\ UNCHANGED <<k, cur, pc, timer>>
    BY <1>2, <1>6 DEF sem_init_sys, At
  <2>2. list' = list
    BY <1>1, <1>4, <2>1 DEF ListType
  <2> QED
    BY <1>1, <1>3, <2>1, <2>2 DEF Single, Blocked, Posting
<1>7. CASE sem_destroy_sys(t)
  BY <1>3, <1>7 DEF sem_destroy_sys, Single, Blocked, Posting
<1>8. CASE sem_trywait_sys(t)
  BY <1>1, <1>2, <1>3, <1>8 DEF sem_trywait_sys, At, Single, Blocked, Posting
<1>9. CASE sem_wait_sys(t) /\ value = 0
  <2>1. /\ Suspends(w) /\ list' = insert_pthread_list(list, w) /\ pc' = [pc EXCEPT ![w] = "wait"]
        /\ cur = w /\ pc[w] = "run" /\ t = w /\ UNCHANGED <<value, timer>>
    BY <1>2, <1>9 DEF sem_wait_sys, Block, Suspends, At, Goto
  <2>2. ListSound(list') /\ Linked(list') = {w}
    BY <1>3, <1>4, <2>1, InsertSound
  <2>3. \A u \in Threads : k'.st[u] = IF u = w THEN "SUSPENDED" ELSE k.st[u]
    BY <2>1, SuspendsSound
  <2> QED
    BY <1>1, <1>3, <1>4, <1>9, <2>1, <2>2, <2>3 DEF Single, Blocked, Posting
<1>10. CASE sem_wait_sys(t) /\ value # 0
  BY <1>1, <1>2, <1>3, <1>10 DEF sem_wait_sys, At, Single, Blocked, Posting
<1>11. CASE sem_wait_resumes(t)
  <2>1. /\ cur = w /\ pc[w] = "wait" /\ value' = value - 1 /\ pc' = [pc EXCEPT ![w] = "run"] /\ t = w
        /\ UNCHANGED <<k, cur, list, timer>>
    BY <1>3, <1>11 DEF sem_wait_resumes, At, Goto
  <2>2. value > 0
    BY <1>3, <1>4, <2>1
  <2> QED
    BY <1>1, <1>3, <1>4, <2>1, <2>2 DEF Single, Blocked, Posting
<1>12. CASE sem_timedwait_sys(t) \/ sem_timedwait_takes(t) \/ sem_timedwait_fails(t)
           \/ sem_timedwait_sleeps(t) \/ sem_timedwait_resumes(t)
  BY <1>2, <1>3, <1>12 DEF sem_timedwait_sys, sem_timedwait_takes, sem_timedwait_fails, sem_timedwait_sleeps,
                           sem_timedwait_resumes, At
<1>13. CASE sem_post_sys(t) /\ value = 0 /\ list.head # NULL
  <2>1. /\ Wakes(list.head) /\ list' = remove_head_pthread_list(list) /\ pc' = [pc EXCEPT ![t] = "post"]
        /\ cur' = scheduling(k') /\ cur = t /\ t \in role.post /\ pc[t] = "run" /\ UNCHANGED <<role, value, timer>>
    BY <1>13 DEF sem_post_sys, Wakes, Goto, At
  <2>2. list.head = w /\ Blocked(w)
    BY <1>3, <1>13, HeadSound
  <2>3. ListSound(list') /\ Linked(list') = {}
    BY <1>3, <2>1, <2>2, RemoveHeadSound
  <2>4. KSound(k') /\ k'.prio = Base /\ \A u \in Threads : k'.st[u] = IF u = w THEN "READY" ELSE k.st[u]
    BY <2>1, <2>2, WakesSound
  <2>5. t # w /\ k'.st[t] = "READY"
    BY <1>2, <1>4, <2>1, <2>4
  <2>6. cur' # w
    BY <1>1, <2>1, <2>4, <2>5, PosterFirst
  <2>7. \A u \in Threads : pc'[u] = IF u = t THEN "post" ELSE pc[u]
    BY <1>1, <2>1
  <2> QED
    BY <1>1, <1>3, <2>1, <2>2, <2>3, <2>4, <2>5, <2>6, <2>7 DEF Single, Blocked, Posting
<1>14. CASE sem_post_sys(t) /\ ~(value = 0 /\ list.head # NULL)
  <2>1. /\ value' = (IF value < SEM_VALUE_MAX THEN value + 1 ELSE value)
        /\ UNCHANGED <<role, k, cur, list, pc, timer>>
    BY <1>14 DEF sem_post_sys
  <2>2. ~Blocked(w)
    <3> SUFFICES ASSUME Blocked(w) PROVE FALSE
      OBVIOUS
    <3>1. value = 0 /\ Linked(list) = {w}
      BY <1>3
    <3>2. list.head # NULL
      BY <1>3, <3>1, HeadSound
    <3> QED
      BY <1>14, <3>1, <3>2
  <2> QED
    BY <1>1, <1>3, <2>1, <2>2 DEF Single, Blocked, Posting
<1>15. CASE sem_post_resumes(t)
  <2>1. /\ value' = (IF value < SEM_VALUE_MAX THEN value + 1 ELSE value) /\ Posting(t) /\ cur = t
        /\ pc' = [pc EXCEPT ![t] = "run"] /\ UNCHANGED <<role, k, cur, list, timer>>
    BY <1>15 DEF sem_post_resumes, At, Goto, Posting
  <2>2. t # w /\ ~Blocked(w)
    BY <1>2, <1>3, <2>1
  <2>3. \A u \in Threads : pc'[u] = IF u = t THEN "run" ELSE pc[u]
    BY <1>1, <2>1
  <2>4. value' > 0
    BY <1>1, <1>3, <2>1
  <2> QED
    BY <1>1, <1>3, <2>1, <2>2, <2>3, <2>4 DEF Single, Blocked, Posting
<1>16. CASE SSleep(t)
  <2>1. /\ Suspends(t) /\ cur = t /\ pc[t] = "run" /\ timer' = [timer EXCEPT ![t] = TRUE]
        /\ UNCHANGED <<role, value, list, pc>>
    BY <1>16 DEF SSleep, Suspends, At
  <2>2. KSound(k') /\ k'.prio = Base /\ \A u \in Threads : k'.st[u] = IF u = t THEN "SUSPENDED" ELSE k.st[u]
    BY <2>1, SuspendsSound
  <2>3. \A u \in Threads : timer'[u] = IF u = t THEN TRUE ELSE timer[u]
    BY <1>1, <2>1
  <2>4. \A p \in Threads : Posting(p) => cur' # w
    <3> SUFFICES ASSUME NEW p \in Threads, Posting(p) PROVE cur' # w
      OBVIOUS
    <3>1. p \in role.post /\ k'.st[p] = "READY"
      BY <1>3, <2>1, <2>2 DEF Posting
    <3> QED
      BY <1>1, <2>1, <2>2, <3>1, PosterFirst DEF Suspends
  <2> QED
    BY <1>1, <1>3, <2>1, <2>2, <2>3, <2>4 DEF Single, Blocked, Posting
<1>17. CASE SKill(t)
  <2>1. PICK u \in role.signal : k' = activate_thread(k, u) /\ k.st[u] = "SUSPENDED"
    BY <1>17 DEF SKill
  <2>2. u \in Threads /\ u # w
    BY <1>1, <1>2
  <2>3. Wakes(u) /\ UNCHANGED <<role, cur, value, list, pc, timer>>
    BY <1>17, <2>1 DEF SKill, Wakes
  <2>4. \A v \in Threads : k'.st[v] = IF v = u THEN "READY" ELSE k.st[v]
    BY <2>2, <2>3, WakesSound
  <2> QED
    BY <1>1, <1>3, <2>2, <2>3, <2>4 DEF Single, Blocked, Posting
<1>18. CASE STimer(t)
  <2>1. /\ Wakes(t) /\ cur' = scheduling(k') /\ timer[t] /\ timer' = [timer EXCEPT ![t] = FALSE]
        /\ UNCHANGED <<role, value, list, pc>>
    BY <1>18 DEF STimer, Wakes
  <2>2. KSound(k') /\ k'.prio = Base /\ \A v \in Threads : k'.st[v] = IF v = t THEN "READY" ELSE k.st[v]
    BY <2>1, WakesSound
  <2>3. \A u \in Threads : timer'[u] = IF u = t THEN FALSE ELSE timer[u]
    BY <1>1, <2>1
  <2>4. \A p \in Threads : Posting(p) => cur' # w
    <3> SUFFICES ASSUME NEW p \in Threads, Posting(p) PROVE cur' # w
      OBVIOUS
    <3>1. p \in role.post /\ k'.st[p] = "READY"
      BY <1>3, <2>2
    <3> QED
      BY <1>1, <2>1, <2>2, <3>1, PosterFirst
  <2> QED
    BY <1>1, <1>3, <2>1, <2>2, <2>3, <2>4 DEF Single, Blocked, Posting
<1> QED
  BY <1>6, <1>7, <1>8, <1>9, <1>10, <1>11, <1>12, <1>13, <1>14, <1>15, <1>16, <1>17, <1>18 DEF SStep

-----------------------------------------------------------------------------
(* Without timed waits no thread is inside sem_timedwait_sys.              *)
Untimed == role.timed = {} => \A t \in Threads : pc[t] \in {"run", "wait", "post"}

LEMMA UntimedNext ==
    ASSUME TypeInv, Untimed, NEW t \in Threads, SStep(t) \/ STimer(t)
    PROVE  role' = role /\ Untimed'
<1>1. pc \in [Threads -> PCs]
  BY DEF TypeInv
<1>2. CASE sem_init_sys(t) \/ sem_destroy_sys(t) \/ sem_trywait_sys(t) \/ SSleep(t) \/ SKill(t) \/ STimer(t)
  BY <1>2 DEF sem_init_sys, sem_destroy_sys, sem_trywait_sys, SSleep, SKill, STimer, Untimed
<1>3. CASE sem_wait_sys(t) \/ sem_wait_resumes(t)
  BY <1>1, <1>3 DEF sem_wait_sys, sem_wait_resumes, Block, Goto, Untimed
<1>4. CASE sem_post_sys(t) \/ sem_post_resumes(t)
  BY <1>1, <1>4 DEF sem_post_sys, sem_post_resumes, Goto, Untimed
<1>5. CASE sem_timedwait_sys(t) \/ sem_timedwait_takes(t) \/ sem_timedwait_fails(t)
           \/ sem_timedwait_sleeps(t) \/ sem_timedwait_resumes(t)
  BY <1>1, <1>5 DEF sem_timedwait_sys, sem_timedwait_takes, sem_timedwait_fails, sem_timedwait_sleeps,
                    sem_timedwait_resumes, At, Goto, Untimed
<1> QED
  BY <1>2, <1>3, <1>4, <1>5 DEF SStep

(* A semaphore that was destroyed is in use by nobody.                     *)
Whole == live \/ (role.wait # {} /\ \A t \in Threads : pc[t] = "run")

LEMMA WholeNext ==
    ASSUME TypeInv, Proper, \A w \in Threads : OneWaiter(w) => Single(w), Whole,
           NEW t \in Threads, SStep(t) \/ STimer(t)
    PROVE  Whole'
<1>1. pc \in [Threads -> PCs]
  BY DEF TypeInv
<1>2. CASE sem_init_sys(t)
  BY <1>2 DEF sem_init_sys, Whole
<1>3. CASE sem_destroy_sys(t)
  <2>1. t \in role.wait /\ cur = t /\ pc[t] = "run" /\ role' = role /\ pc' = pc
    BY <1>3 DEF sem_destroy_sys, At
  <2>2. PICK w \in Threads : OneWaiter(w)
    BY <2>1 DEF Proper
  <2>3. t = w /\ Single(w)
    BY <2>1, <2>2 DEF OneWaiter
  <2>4. \A u \in Threads : pc[u] = "run"
    BY <2>1, <2>3 DEF Single, Posting
  <2> QED
    BY <2>1, <2>4 DEF Whole
<1>4. CASE sem_trywait_sys(t) \/ sem_wait_sys(t) \/ sem_timedwait_sys(t) \/ sem_post_sys(t)
  BY <1>4 DEF sem_trywait_sys, sem_wait_sys, sem_timedwait_sys, sem_post_sys, Whole
<1>5. CASE sem_wait_resumes(t) \/ sem_post_resumes(t) \/ sem_timedwait_takes(t) \/ sem_timedwait_fails(t)
           \/ sem_timedwait_sleeps(t) \/ sem_timedwait_resumes(t)
  <2>1. pc[t] # "run" /\ live' = live
    BY <1>5 DEF sem_wait_resumes, sem_post_resumes, sem_timedwait_takes, sem_timedwait_fails,
                sem_timedwait_sleeps, sem_timedwait_resumes, At
  <2> QED
    BY <2>1 DEF Whole
<1>6. CASE SSleep(t) \/ SKill(t) \/ STimer(t)
  BY <1>6 DEF SSleep, SKill, STimer, Whole
<1> QED
  BY <1>2, <1>3, <1>4, <1>5, <1>6 DEF SStep

(* The inductive invariant.                                                *)
SemInv ==
    /\ TypeInv /\ Live /\ Untimed /\ InitValues # {} /\ (Proper => Whole)
    /\ role.wait = {} => Timed
    /\ \A w \in Threads : OneWaiter(w) => Single(w)

LEMMA SemInit == SInit => SemInv
<1> SUFFICES ASSUME SInit PROVE SemInv
  OBVIOUS
<1>1. ListSound(list) /\ Linked(list) = {}
  BY InitListSound DEF SInit
<1>2. \A t \in Threads : pc[t] = "run" /\ k.st[t] = "SUSPENDED"
  BY DEF SInit, Asleep
<1>3. value \in InitValues /\ value >= 0 /\ cur = Idle
  BY SemaphoreAssumption DEF SInit
<1>4. Timed
  BY <1>1, <1>2, <1>3 DEF Timed
<1>5. ASSUME NEW w \in Threads PROVE Single(w)
  BY <1>1, <1>2, <1>3, KThreadsAssumption DEF Single, Blocked, Posting
<1> QED
  BY <1>2, <1>3, <1>4, <1>5, TypeInit DEF SInit, SemInv, Untimed, Whole

LEMMA SemNext == SemInv /\ [SNext]_svars => SemInv'
<1> SUFFICES ASSUME SemInv, [SNext]_svars PROVE SemInv'
  OBVIOUS
<1>1. TypeInv' /\ Live'
  BY TypeNext DEF SemInv
<1>2. CASE UNCHANGED svars
  BY <1>1, <1>2 DEF SemInv, Untimed, Whole, Proper, Timed, OneWaiter, Single, Blocked, Posting, svars
<1>3. ASSUME NEW t \in Threads, SStep(t) \/ STimer(t) PROVE SemInv'
  <2>1. role' = role /\ Untimed'
    BY <1>3, UntimedNext DEF SemInv
  <2>2. role.wait = {} => Timed'
    BY <1>3, TimedNext DEF SemInv
  <2>3. ASSUME NEW w \in Threads, OneWaiter(w) PROVE Single(w)'
    BY <1>3, <2>3, SingleNext DEF SemInv
  <2>4. Proper => Whole'
    BY <1>3, WholeNext DEF SemInv
  <2>5. Proper' => Proper
    BY <2>1 DEF Proper, OneWaiter
  <2> QED
    BY <1>1, <2>1, <2>2, <2>3, <2>4, <2>5 DEF SemInv, OneWaiter
<1> QED
  BY <1>2, <1>3 DEF SNext

LEMMA SemAlways == SSpec => []SemInv
BY SemInit, SemNext, PTL DEF SSpec

(* The value never falls below zero, for every proper use: a waiter that   *)
(* sem_post_sys wakes at value 0 does not take its unit before the poster, *)
(* which called scheduling() first, has raised the value.                  *)
THEOREM NeverNegativeHolds == SSpec => [](Proper => NeverNegative)
<1>1. SemInv => (Proper => NeverNegative)
  BY DEF SemInv, Proper, NeverNegative, Timed, Single
<1> QED
  BY <1>1, SemAlways, PTL

(* A thread blocked in a wait is in the list that sem_post_sys takes from, *)
(* and the waiter never sleeps while a unit is there, for every proper     *)
(* use: no post is lost, neither to a timeout nor to the window between    *)
(* sem_post_sys waking the waiter and raising the value.                   *)
THEOREM BlockedAreLinkedHolds == SSpec => [](Proper => BlockedAreLinked)
<1>1. ASSUME SemInv, role.wait = {} PROVE BlockedAreLinked
  BY <1>1 DEF SemInv, Timed, BlockedAreLinked
<1>2. ASSUME SemInv, NEW w \in Threads, OneWaiter(w) PROVE BlockedAreLinked
  <2>1. Single(w) /\ role.wait \subseteq {w}
    BY <1>2 DEF SemInv, OneWaiter
  <2> QED
    BY <2>1 DEF Single, Blocked, BlockedAreLinked
<1>3. SemInv => (Proper => BlockedAreLinked)
  BY <1>1, <1>2 DEF Proper
<1> QED
  BY <1>3, SemAlways, PTL

(* What a step does, as the abstract semaphore sees it.                    *)
LEMMA CountNext ==
    ASSUME SemInv, Proper, role.timed = {}, NEW t \in Threads, SStep(t) \/ STimer(t)
    PROVE  \/ live' = live /\ pc' = pc
              /\ \/ live /\ value < SEM_VALUE_MAX /\ value' = value + 1
                 \/ live /\ value > 0 /\ value' = value - 1
                 \/ value' = value
           \/ live /\ ~live' /\ value' = value /\ pc' = pc /\ \A u \in Threads : pc[u] = "run"
           \/ ~live /\ live' /\ value' \in InitValues /\ pc' = pc
           \/ /\ live /\ live' /\ pc[t] = "run"
              /\ \/ pc' = [pc EXCEPT ![t] = "wait"] /\ value = 0 /\ value' = value
                 \/ pc' = [pc EXCEPT ![t] = "post"] /\ value' = value
           \/ /\ live /\ live' /\ pc' = [pc EXCEPT ![t] = "run"]
              /\ \/ pc[t] = "wait" /\ value > 0 /\ value' = value - 1
                 \/ /\ pc[t] = "post"
                    /\ value' = IF value < SEM_VALUE_MAX THEN value + 1 ELSE value
<1>1. value \in Int /\ value >= 0 /\ pc \in [Threads -> PCs] /\ live \in BOOLEAN /\ Whole
  BY DEF SemInv, TypeInv, Proper, Timed, Single
<1>2. CASE sem_init_sys(t)
  BY <1>1, <1>2 DEF sem_init_sys
<1>3. CASE SSleep(t) \/ SKill(t) \/ STimer(t)
  BY <1>3 DEF SSleep, SKill, STimer
<1>4. CASE sem_trywait_sys(t) \/ (sem_wait_sys(t) /\ value # 0)
  BY <1>1, <1>4 DEF sem_trywait_sys, sem_wait_sys
<1>5. CASE sem_wait_sys(t) /\ value = 0
  BY <1>1, <1>5 DEF sem_wait_sys, Block, Goto, At
<1>6. CASE sem_post_sys(t)
  BY <1>1, <1>6 DEF sem_post_sys, Goto, At
<1>7. CASE sem_post_resumes(t)
  BY <1>1, <1>7 DEF sem_post_resumes, Goto, At, Whole
<1>8. CASE sem_wait_resumes(t)
  <2>1. /\ cur = t /\ pc[t] = "wait" /\ value' = value - 1 /\ k.st[t] = "READY" /\ live' = live
        /\ pc' = [pc EXCEPT ![t] = "run"]
    BY <1>8, KThreadsAssumption DEF sem_wait_resumes, At, Goto, SemInv, Live
  <2>2. PICK w \in Threads : OneWaiter(w)
    BY <2>1 DEF SemInv, Proper, Timed
  <2>3. Single(w)
    BY <2>2 DEF SemInv
  <2>4. value > 0
    BY <2>1, <2>3 DEF Single
  <2> QED
    BY <1>1, <2>1, <2>4 DEF Whole
<1>9. CASE sem_destroy_sys(t)
  <2>1. live /\ ~live' /\ value' = value /\ pc' = pc /\ Whole'
    BY <1>1, <1>9, WholeNext DEF SemInv, sem_destroy_sys
  <2> QED
    BY <2>1 DEF Whole
<1>10. CASE sem_timedwait_sys(t) \/ sem_timedwait_takes(t) \/ sem_timedwait_fails(t)
            \/ sem_timedwait_sleeps(t) \/ sem_timedwait_resumes(t)
  BY <1>10 DEF sem_timedwait_sys, sem_timedwait_takes, sem_timedwait_fails, sem_timedwait_sleeps,
              sem_timedwait_resumes, At, SemInv, Untimed
<1> QED
  BY <1>2, <1>3, <1>4, <1>5, <1>6, <1>7, <1>8, <1>9, <1>10 DEF SStep

(* The kernel's semaphore implements the counting semaphore, for every     *)
(* proper use: a wait that ends, at once or after it was woken, takes one  *)
(* unit that is there; a post, at once or after it let others run, adds    *)
(* one; and the semaphore is only destroyed when nobody is in a call.      *)
THEOREM CountsHolds == SSpec /\ []Proper => Counts
<1>1. SInit => Abs!Init
  BY DEF SInit, Abs!Init, Seen, AtPc
<1>2. ASSUME SemInv, Proper, [SNext]_svars PROVE [Abs!Next]_(Abs!vars)
  <2>1. CASE UNCHANGED svars
    BY <2>1 DEF svars, Abs!vars, Seen, AtPc
  <2>2. ASSUME NEW t \in Threads, SStep(t) \/ STimer(t) PROVE [Abs!Next]_(Abs!vars)
    <3>1. role' = role /\ pc \in [Threads -> PCs] /\ live \in BOOLEAN /\ live' \in BOOLEAN
      BY <1>2, <2>2, UntimedNext, TypeNext DEF SemInv, TypeInv
    <3>2. CASE role.timed # {}
      <4>1. role'.timed # {}
        BY <3>1, <3>2
      <4>2. UNCHANGED Abs!vars
        <5>1. UNCHANGED Seen(value, CHOOSE v \in InitValues : TRUE)
          BY <3>1, <3>2, <4>1 DEF Seen
        <5>2. UNCHANGED Seen(live, TRUE)
          BY <3>1, <3>2, <4>1 DEF Seen
        <5>3. UNCHANGED <<Seen(AtPc("wait"), {}), Seen(AtPc("post"), {})>>
          BY <3>1, <3>2, <4>1 DEF Seen
        <5> QED
          BY <5>1, <5>2, <5>3 DEF Abs!vars
      <4> QED
        BY <4>2
    <3>3. CASE role.timed = {}
      <4> DEFINE w == AtPc("wait")
                 p == AtPc("post")
      <4>2. role'.timed = {}
        BY <3>1, <3>3
      <4>3. pc' = pc => w' = w /\ p' = p
        BY DEF AtPc
      <4>4. (\A u \in Threads : pc[u] = "run") => w = {} /\ p = {}
        BY DEF AtPc
      <4>5. pc[t] = "run" /\ pc' = [pc EXCEPT ![t] = "wait"] => w' = w \cup {t} /\ p' = p
        BY <3>1 DEF AtPc
      <4>6. pc[t] = "run" /\ pc' = [pc EXCEPT ![t] = "post"] => p' = p \cup {t} /\ w' = w
        BY <3>1 DEF AtPc
      <4>7. pc[t] = "wait" /\ pc' = [pc EXCEPT ![t] = "run"] => t \in w /\ w' = w \ {t} /\ p' = p
        BY <3>1 DEF AtPc
      <4>8. pc[t] = "post" /\ pc' = [pc EXCEPT ![t] = "run"] => t \in p /\ p' = p \ {t} /\ w' = w
        BY <3>1 DEF AtPc
      <4> HIDE DEF w, p
      <4>9. \/ UNCHANGED <<value, live, w, p>>
            \/ live /\ value < SEM_VALUE_MAX /\ value' = value + 1 /\ UNCHANGED <<live, w, p>>
            \/ live /\ value > 0 /\ value' = value - 1 /\ UNCHANGED <<live, w, p>>
            \/ live /\ w = {} /\ p = {} /\ live' = FALSE /\ UNCHANGED <<value, w, p>>
            \/ ~live /\ live' = TRUE /\ value' \in InitValues /\ UNCHANGED <<w, p>>
            \/ live /\ p' = p \cup {t} /\ UNCHANGED <<value, live, w>>
            \/ live /\ value = 0 /\ w' = w \cup {t} /\ UNCHANGED <<value, live, p>>
            \/ /\ live /\ t \in p /\ p' = p \ {t} /\ UNCHANGED <<live, w>>
               /\ value' = IF value < SEM_VALUE_MAX THEN value + 1 ELSE value
            \/ live /\ t \in w /\ w' = w \ {t} /\ value > 0 /\ value' = value - 1 /\ UNCHANGED <<live, p>>
        BY <1>2, <2>2, <3>1, <3>3, <4>3, <4>4, <4>5, <4>6, <4>7, <4>8, CountNext
      <4> QED
        BY <3>3, <4>2, <4>9 DEF w, p, Seen, Abs!vars, Abs!Next, Abs!Post, Abs!Take, Abs!Destroy, Abs!Reuse,
           Abs!PostBegins, Abs!PostEnds, Abs!WaitBegins, Abs!WaitEnds
    <3> QED
      BY <3>2, <3>3
  <2> QED
    BY <1>2, <2>1, <2>2 DEF SNext
<1> QED
  BY <1>1, <1>2, SemAlways, PTL DEF SSpec, Counts, Abs!Spec
=============================================================================
