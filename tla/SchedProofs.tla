----------------------------- MODULE SchedProofs -----------------------------
(***************************************************************************)
(* Proofs about Sched, for every set of threads, every width of the        *)
(* priority matrix, every number of kernel stacks and every set of         *)
(* priorities and deletions the application may ask for.                   *)
(***************************************************************************)
EXTENDS SchedWindow, SchedStructProofs, FiniteSetTheorems

(* The kernel data is well typed and active_threads holds exactly the      *)
(* READY threads.                                                          *)
KInv(kk) == kk \in KType /\ Linked(kk.ss, Ready(kk), kk.prio)

-----------------------------------------------------------------------------
(* What the functions of sched.c and arm_l4_stack.c do to the kernel data. *)

(* Changing the state and the lists keeps the type of the kernel data.     *)
LEMMA SetStateType ==
    ASSUME NEW kk \in KType, NEW q \in StructType, NEW t \in Threads, NEW st \in States
    PROVE  [kk EXCEPT !.ss = q, !.state[t] = st] \in KType
BY DEF KType

(* Changing a priority and the lists keeps the type of the kernel data.    *)
LEMMA SetPrioType ==
    ASSUME NEW kk \in KType, NEW q \in StructType, NEW t \in Threads, NEW p \in Nat
    PROVE  [kk EXCEPT !.ss = q, !.prio[t] = p] \in KType
BY DEF KType

(* Taking a kernel stack keeps the type of the kernel data.                *)
LEMMA SetKStackType ==
    ASSUME NEW kk \in KType, NEW t \in Threads, NEW i \in KStacks
    PROVE  [kk EXCEPT !.kentry[t] = i, !.kflag = kk.kflag \cup {i}] \in KType
BY DEF KType

(* Filling in a new structure keeps the type of the kernel data.           *)
LEMMA SetNewType ==
    ASSUME NEW kk \in KType, NEW q \in StructType, NEW t \in Threads, NEW p \in Nat
    PROVE  [kk EXCEPT !.ss = q, !.state[t] = "SUSPENDED", !.prio[t] = p,
                      !.kentry[t] = 0] \in KType
BY DEF KType, States

(* activate_thread links the thread unless it is READY or FINISHED, and    *)
(* writes nothing else.                                                    *)
LEMMA ActivateKernel ==
    ASSUME NEW kk \in KType, KInv(kk), NEW t \in Threads, NEW r, r = activate_thread(kk, t)
    PROVE  /\ KInv(r)
           /\ r.state = [kk.state EXCEPT ![t] = IF @ \in {"FINISHED", "READY"}
                                                THEN @ ELSE "READY"]
           /\ r.prio = kk.prio /\ r.kentry = kk.kentry
           /\ r.kflag = kk.kflag /\ r.fault = kk.fault
<1>1. CASE kk.state[t] \in {"FINISHED", "READY"}
  BY <1>1 DEF activate_thread, KInv, KType
<1>2. CASE kk.state[t] \notin {"FINISHED", "READY"}
  <2> DEFINE q == insert_ss(kk.ss, t, kk.prio[t])
  <2>1. r = [kk EXCEPT !.ss = q, !.state[t] = "READY"]
    BY <1>2 DEF activate_thread
  <2>2. /\ kk.ss \in StructType /\ Ready(kk) \in SUBSET Threads
        /\ kk.prio \in [Threads -> Nat] /\ t \in Threads \ Ready(kk)
    BY <1>2 DEF KInv, KType, Ready
  <2>3. q \in StructType /\ Linked(q, Ready(kk) \cup {t}, kk.prio)
    BY <2>2, InsertLinked DEF KInv
  <2> HIDE DEF q
  <2>4. /\ r \in KType /\ r.ss = q /\ r.prio = kk.prio /\ r.kentry = kk.kentry
        /\ r.kflag = kk.kflag /\ r.fault = kk.fault
        /\ r.state = [kk.state EXCEPT ![t] = "READY"]
    <3>1. r \in KType
      <4>1. [kk EXCEPT !.ss = q, !.state[t] = "READY"] \in KType
        BY <2>3, SetStateType DEF States
      <4> QED
        BY <2>1, <4>1
    <3>2. /\ r.ss = q /\ r.prio = kk.prio /\ r.kentry = kk.kentry
          /\ r.kflag = kk.kflag /\ r.fault = kk.fault
      BY <2>1, <2>3 DEF KInv, KType, States
    <3>3. r.state = [kk.state EXCEPT ![t] = "READY"]
      BY <2>1, <2>3 DEF KInv, KType, States
    <3> QED
      BY <3>1, <3>2, <3>3
  <2>5. Ready(r) = Ready(kk) \cup {t}
    BY <2>4 DEF Ready, KInv, KType
  <2> QED
    BY <1>2, <2>3, <2>4, <2>5 DEF KInv
<1> QED
  BY <1>1, <1>2

(* suspend_thread unlinks the thread, and never revives a FINISHED one.    *)
LEMMA SuspendKernel ==
    ASSUME NEW kk \in KType, KInv(kk), NEW t \in Threads, NEW r, r = suspend_thread(kk, t)
    PROVE  /\ KInv(r)
           /\ r.state = [kk.state EXCEPT ![t] = IF @ = "FINISHED" THEN @
                                                ELSE "SUSPENDED"]
           /\ r.prio = kk.prio /\ r.kentry = kk.kentry
           /\ r.kflag = kk.kflag /\ r.fault = kk.fault
<1> DEFINE q == remove_ss(kk.ss, t)
           st == IF kk.state[t] = "FINISHED" THEN "FINISHED" ELSE "SUSPENDED"
<1>1. r = [kk EXCEPT !.ss = q, !.state[t] = st]
  BY DEF suspend_thread
<1>2. kk.ss \in StructType /\ Ready(kk) \in SUBSET Threads /\ kk.prio \in [Threads -> Nat]
  BY DEF KInv, KType, Ready
<1>3. q \in StructType /\ Linked(q, Ready(kk) \ {t}, kk.prio)
  BY <1>2, RemoveLinked DEF KInv
<1>4. st \in States \ {"READY"}
  BY DEF States
<1> HIDE DEF q
<1>5. /\ r \in KType /\ r.ss = q /\ r.prio = kk.prio /\ r.kentry = kk.kentry
      /\ r.kflag = kk.kflag /\ r.fault = kk.fault
      /\ r.state = [kk.state EXCEPT ![t] = st]
  <2> HIDE DEF st
  <2>1. r \in KType
    <3>1. [kk EXCEPT !.ss = q, !.state[t] = st] \in KType
      BY <1>3, <1>4, SetStateType
    <3> QED
      BY <1>1, <3>1
  <2>2. /\ r.ss = q /\ r.prio = kk.prio /\ r.kentry = kk.kentry
        /\ r.kflag = kk.kflag /\ r.fault = kk.fault
    BY <1>1, <1>3, <1>4 DEF KInv, KType
  <2>3. r.state = [kk.state EXCEPT ![t] = st]
    BY <1>1, <1>3, <1>4 DEF KInv, KType
  <2> QED
    BY <2>1, <2>2, <2>3
<1>6. Ready(r) = Ready(kk) \ {t}
  BY <1>4, <1>5 DEF Ready, KInv, KType
<1> QED
  BY <1>3, <1>5, <1>6 DEF KInv

(* What free_kstack and alloc_kstack leave in the flags and the thread.     *)
Freed(kk, t, r) ==
    /\ kk.kentry[t] = 0 => r.fault
    /\ kk.kentry[t] # 0 => r.fault = kk.fault /\ r.kflag = kk.kflag \ {kk.kentry[t]}

Allocated(kk, t, r) ==
    /\ KStacks \subseteq kk.kflag => r.fault /\ r.kentry = kk.kentry
    /\ ~(KStacks \subseteq kk.kflag) =>
         \E i \in KStacks \ kk.kflag :
           /\ r.kentry = [kk.kentry EXCEPT ![t] = i]
           /\ r.kflag = kk.kflag \cup {i} /\ r.fault = kk.fault

(* finish_thread unlinks the thread and frees its kernel stack.            *)
LEMMA FinishKernel ==
    ASSUME NEW kk \in KType, KInv(kk), NEW t \in Threads, NEW r, r = finish_thread(kk, t)
    PROVE  /\ KInv(r)
           /\ r.state = [kk.state EXCEPT ![t] = "FINISHED"]
           /\ r.prio = kk.prio /\ r.kentry = kk.kentry
           /\ Freed(kk, t, r)
<1> DEFINE q  == remove_ss(kk.ss, t)
           k1 == [kk EXCEPT !.ss = q]
           k2 == free_kstack(k1, t)
<1>1. r = [k2 EXCEPT !.state[t] = "FINISHED"]
  BY DEF finish_thread
<1>2. kk.ss \in StructType /\ Ready(kk) \in SUBSET Threads /\ kk.prio \in [Threads -> Nat]
  BY DEF KInv, KType, Ready
<1>3. q \in StructType /\ Linked(q, Ready(kk) \ {t}, kk.prio)
  BY <1>2, RemoveLinked DEF KInv
<1> HIDE DEF q
<1>4. /\ k1 \in KType /\ k1.ss = q /\ k1.state = kk.state /\ k1.prio = kk.prio
      /\ k1.kentry = kk.kentry /\ k1.kflag = kk.kflag /\ k1.fault = kk.fault
  BY <1>3 DEF KInv, KType
<1> HIDE DEF k1
<1>5. /\ k2 \in KType /\ k2.ss = q /\ k2.state = kk.state /\ k2.prio = kk.prio
      /\ k2.kentry = kk.kentry
      /\ kk.kentry[t] = 0 => k2.fault
      /\ kk.kentry[t] # 0 => /\ k2.fault = kk.fault
                             /\ k2.kflag = kk.kflag \ {kk.kentry[t]}
  BY <1>4 DEF free_kstack, KType
<1> HIDE DEF k2
<1>6. /\ r \in KType /\ r.ss = q /\ r.prio = kk.prio /\ r.kentry = kk.kentry
      /\ r.state = [kk.state EXCEPT ![t] = "FINISHED"]
      /\ r.kflag = k2.kflag /\ r.fault = k2.fault
  BY <1>1, <1>5 DEF KType, States
<1>7. Ready(r) = Ready(kk) \ {t}
  BY <1>6 DEF Ready, KInv, KType
<1>8. Freed(kk, t, r)
  BY <1>5, <1>6 DEF Freed
<1> QED
  BY <1>3, <1>6, <1>7, <1>8 DEF KInv

(* What change_thread_prio writes.                                         *)
Reprioritised(kk, t, p, r) ==
    /\ r.prio = [kk.prio EXCEPT ![t] = p]
    /\ r.state = kk.state /\ r.kentry = kk.kentry
    /\ r.kflag = kk.kflag /\ r.fault = kk.fault

(* change_thread_prio moves a READY thread to the list of its new priority *)
(* and leaves any other one in no list.                                    *)
LEMMA ChangePrioKernel ==
    ASSUME NEW kk \in KType, KInv(kk), NEW t \in Threads, NEW p \in Nat,
           NEW r, r = change_thread_prio(kk, t, p)
    PROVE  KInv(r) /\ Reprioritised(kk, t, p, r)
<1> DEFINE q  == remove_ss(kk.ss, t)
           pr == [kk.prio EXCEPT ![t] = p]
           qq == IF kk.state[t] = "READY" THEN insert_ss(q, t, p) ELSE q
<1>1. r = [kk EXCEPT !.ss = qq, !.prio[t] = p]
  BY DEF change_thread_prio
<1>2. kk.ss \in StructType /\ Ready(kk) \in SUBSET Threads /\ kk.prio \in [Threads -> Nat]
  BY DEF KInv, KType, Ready
<1>3. q \in StructType /\ Linked(q, Ready(kk) \ {t}, kk.prio)
  BY <1>2, RemoveLinked DEF KInv
<1> HIDE DEF q
<1>4. pr \in [Threads -> Nat] /\ pr[t] = p /\ Linked(q, Ready(kk) \ {t}, pr)
  <2>1. pr \in [Threads -> Nat] /\ pr[t] = p
    BY <1>2
  <2>2. \A u \in Ready(kk) \ {t} : pr[u] = kk.prio[u]
    BY <1>2
  <2> HIDE DEF pr
  <2> QED
    BY <1>3, <2>1, <2>2, PrioLinked
<1>5. qq \in StructType /\ Linked(qq, Ready(kk), pr)
  <2>1. CASE kk.state[t] = "READY"
    <3>1. t \in Threads \ (Ready(kk) \ {t}) /\ Ready(kk) \ {t} \in SUBSET Threads
      BY <1>2
    <3>2. /\ insert_ss(q, t, pr[t]) \in StructType
          /\ Linked(insert_ss(q, t, pr[t]), (Ready(kk) \ {t}) \cup {t}, pr)
      <4> HIDE DEF pr
      <4> QED
        BY <1>3, <1>4, <3>1, InsertLinked
    <3>3. (Ready(kk) \ {t}) \cup {t} = Ready(kk)
      BY <2>1 DEF Ready
    <3> QED
      BY <1>4, <2>1, <3>2, <3>3
  <2>2. CASE kk.state[t] # "READY"
    <3>1. Ready(kk) \ {t} = Ready(kk)
      BY <2>2 DEF Ready
    <3> QED
      BY <1>3, <1>4, <2>2, <3>1
  <2> QED
    BY <2>1, <2>2
<1> HIDE DEF qq
<1>6. /\ r \in KType /\ r.ss = qq /\ r.prio = pr /\ r.state = kk.state
      /\ r.kentry = kk.kentry /\ r.kflag = kk.kflag /\ r.fault = kk.fault
  <2>1. r \in KType
    <3>1. [kk EXCEPT !.ss = qq, !.prio[t] = p] \in KType
      BY <1>5, SetPrioType
    <3> QED
      BY <1>1, <3>1
  <2>2. /\ r.ss = qq /\ r.state = kk.state /\ r.kentry = kk.kentry
        /\ r.kflag = kk.kflag /\ r.fault = kk.fault
    BY <1>1, <1>5 DEF KInv, KType
  <2>3. r.prio = pr
    BY <1>1, <1>5 DEF KInv, KType
  <2> QED
    BY <2>1, <2>2, <2>3
<1>7. Ready(r) = Ready(kk)
  BY <1>6 DEF Ready
<1>8. Reprioritised(kk, t, p, r)
  BY <1>6 DEF Reprioritised
<1> QED
  BY <1>5, <1>6, <1>7, <1>8 DEF KInv

(* yield_thread keeps the structure only for a thread that is READY.       *)
LEMMA YieldKernel ==
    ASSUME NEW kk \in KType, KInv(kk), NEW t \in Ready(kk), NEW r, r = yield_thread(kk, t)
    PROVE  /\ KInv(r)
           /\ r.state = kk.state /\ r.prio = kk.prio /\ r.kentry = kk.kentry
           /\ r.kflag = kk.kflag /\ r.fault = kk.fault
<1> DEFINE q  == remove_ss(kk.ss, t)
           qq == insert_ss_tail(q, t, kk.prio[t])
<1>1. r = [kk EXCEPT !.ss = qq]
  BY DEF yield_thread
<1>2. /\ kk.ss \in StructType /\ Ready(kk) \in SUBSET Threads
      /\ kk.prio \in [Threads -> Nat] /\ t \in Threads
  BY DEF KInv, KType, Ready
<1>3. q \in StructType /\ Linked(q, Ready(kk) \ {t}, kk.prio)
  BY <1>2, RemoveLinked DEF KInv
<1> HIDE DEF q
<1>4. qq \in StructType /\ Linked(qq, (Ready(kk) \ {t}) \cup {t}, kk.prio)
  <2>1. t \in Threads \ (Ready(kk) \ {t}) /\ Ready(kk) \ {t} \in SUBSET Threads
    BY <1>2
  <2> QED
    BY <1>2, <1>3, <2>1, AppendLinked
<1>5. (Ready(kk) \ {t}) \cup {t} = Ready(kk)
  OBVIOUS
<1> HIDE DEF qq
<1>6. /\ r \in KType /\ r.ss = qq /\ r.prio = kk.prio /\ r.state = kk.state
      /\ r.kentry = kk.kentry /\ r.kflag = kk.kflag /\ r.fault = kk.fault
  BY <1>1, <1>4 DEF KInv, KType
<1>7. Ready(r) = Ready(kk)
  BY <1>6 DEF Ready
<1> QED
  BY <1>4, <1>5, <1>6, <1>7 DEF KInv

(* What create_pthread_struct writes.                                      *)
Created(kk, t, p, r) ==
    /\ r.state = [kk.state EXCEPT ![t] = "SUSPENDED"]
    /\ r.prio = [kk.prio EXCEPT ![t] = p]
    /\ r.kentry = [kk.kentry EXCEPT ![t] = 0]
    /\ r.kflag = kk.kflag /\ r.fault = kk.fault

(* create_pthread_struct leaves the other threads as they are.             *)
LEMMA CreateKernel ==
    ASSUME NEW kk \in KType, KInv(kk), NEW t \in Threads \ Ready(kk), NEW p \in Nat,
           NEW r, r = create_pthread_struct(kk, t, p)
    PROVE  KInv(r) /\ Created(kk, t, p, r)
<1> DEFINE q  == zero_ss(kk.ss, t)
           pr == [kk.prio EXCEPT ![t] = p]
<1>1. r = [kk EXCEPT !.ss = q, !.state[t] = "SUSPENDED",
                     !.prio[t] = p, !.kentry[t] = 0]
  BY DEF create_pthread_struct
<1>2. kk.ss \in StructType /\ Ready(kk) \in SUBSET Threads /\ kk.prio \in [Threads -> Nat]
  BY DEF KInv, KType, Ready
<1>3. q \in StructType /\ Linked(q, Ready(kk), kk.prio)
  BY <1>2, ZeroLinked DEF KInv
<1>4. \A u \in Ready(kk) : pr[u] = kk.prio[u]
  BY <1>2
<1> HIDE DEF q
<1>5. /\ r \in KType /\ r.ss = q /\ r.prio = pr
      /\ r.state = [kk.state EXCEPT ![t] = "SUSPENDED"]
      /\ r.kentry = [kk.kentry EXCEPT ![t] = 0]
      /\ r.kflag = kk.kflag /\ r.fault = kk.fault
  <2>1. r \in KType
    <3>1. [kk EXCEPT !.ss = q, !.state[t] = "SUSPENDED", !.prio[t] = p,
                    !.kentry[t] = 0] \in KType
      BY <1>3, SetNewType
    <3> QED
      BY <1>1, <3>1
  <2>2. r.ss = q /\ r.kflag = kk.kflag /\ r.fault = kk.fault
    BY <1>1, <1>3 DEF KInv, KType, States
  <2>3. r.prio = pr
    BY <1>1, <1>3 DEF KInv, KType, States
  <2>4. r.state = [kk.state EXCEPT ![t] = "SUSPENDED"]
    BY <1>1, <1>3 DEF KInv, KType, States
  <2>5. r.kentry = [kk.kentry EXCEPT ![t] = 0]
    BY <1>1, <1>3 DEF KInv, KType, States
  <2> QED
    BY <2>1, <2>2, <2>3, <2>4, <2>5
<1>6. Ready(r) = Ready(kk)
  BY <1>5 DEF Ready, KInv, KType
<1> HIDE DEF pr
<1>7. Linked(q, Ready(kk), pr)
  BY <1>3, <1>4, PrioLinked
<1>8. Created(kk, t, p, r)
  BY <1>5 DEF Created, pr
<1> QED
  BY <1>5, <1>6, <1>7, <1>8 DEF KInv, pr

(* delete_pthread_struct unlinks the thread before its memory goes.        *)
LEMMA DeleteKernel ==
    ASSUME NEW kk \in KType, KInv(kk), NEW t \in Threads, NEW r, r = delete_pthread_struct(kk, t)
    PROVE  /\ KInv(r)
           /\ r.state = [kk.state EXCEPT ![t] = "FREE"]
           /\ r.prio = kk.prio /\ r.kentry = kk.kentry
           /\ r.kflag = kk.kflag /\ r.fault = kk.fault
<1> DEFINE q == remove_ss(kk.ss, t)
<1>1. r = [kk EXCEPT !.ss = q, !.state[t] = "FREE"]
  BY DEF delete_pthread_struct
<1>2. kk.ss \in StructType /\ Ready(kk) \in SUBSET Threads /\ kk.prio \in [Threads -> Nat]
  BY DEF KInv, KType, Ready
<1>3. q \in StructType /\ Linked(q, Ready(kk) \ {t}, kk.prio)
  BY <1>2, RemoveLinked DEF KInv
<1> HIDE DEF q
<1>4. /\ r \in KType /\ r.ss = q /\ r.prio = kk.prio /\ r.kentry = kk.kentry
      /\ r.kflag = kk.kflag /\ r.fault = kk.fault
      /\ r.state = [kk.state EXCEPT ![t] = "FREE"]
  <2>1. r \in KType
    <3>1. [kk EXCEPT !.ss = q, !.state[t] = "FREE"] \in KType
      BY <1>3, SetStateType DEF States
    <3> QED
      BY <1>1, <3>1
  <2>2. /\ r.ss = q /\ r.prio = kk.prio /\ r.kentry = kk.kentry
        /\ r.kflag = kk.kflag /\ r.fault = kk.fault
    BY <1>1, <1>3 DEF KInv, KType, States
  <2>3. r.state = [kk.state EXCEPT ![t] = "FREE"]
    BY <1>1, <1>3 DEF KInv, KType, States
  <2> QED
    BY <2>1, <2>2, <2>3
<1>5. Ready(r) = Ready(kk) \ {t}
  BY <1>4 DEF Ready, KInv, KType
<1> QED
  BY <1>3, <1>4, <1>5 DEF KInv

(* alloc_kstack takes a stack that was free, or halts.                     *)
LEMMA AllocKernel ==
    ASSUME NEW kk \in KType, KInv(kk), NEW t \in Threads, NEW r, r = alloc_kstack(kk, t)
    PROVE  /\ KInv(r)
           /\ r.state = kk.state /\ r.prio = kk.prio
           /\ Allocated(kk, t, r)
<1>1. CASE KStacks \subseteq kk.kflag
  <2>1. r = [kk EXCEPT !.fault = TRUE]
    BY <1>1 DEF alloc_kstack
  <2>2. /\ r \in KType /\ r.ss = kk.ss /\ r.prio = kk.prio /\ r.state = kk.state
        /\ r.kentry = kk.kentry /\ r.fault
    BY <2>1 DEF KInv, KType
  <2>3. Ready(r) = Ready(kk)
    BY <2>2 DEF Ready
  <2>4. Allocated(kk, t, r)
    BY <1>1, <2>2 DEF Allocated
  <2> QED
    BY <2>2, <2>3, <2>4 DEF KInv
<1>2. CASE ~(KStacks \subseteq kk.kflag)
  <2> DEFINE i == _ffs(KStacks \ kk.kflag)
  <2>1. i \in KStacks \ kk.kflag
    <3>1. KStacks \ kk.kflag \in SUBSET Nat /\ KStacks \ kk.kflag # {}
      BY <1>2, KStackAssumption DEF KStacks
    <3>2. \E x \in KStacks \ kk.kflag : \A y \in KStacks \ kk.kflag : x <= y
      BY <3>1, LeastElement
    <3> QED
      BY <3>2 DEF _ffs
  <2>2. r = [kk EXCEPT !.kentry[t] = i, !.kflag = kk.kflag \cup {i}]
    BY <1>2 DEF alloc_kstack
  <2> HIDE DEF i
  <2>3. /\ r \in KType /\ r.ss = kk.ss /\ r.prio = kk.prio /\ r.state = kk.state
        /\ r.kentry = [kk.kentry EXCEPT ![t] = i] /\ r.kflag = kk.kflag \cup {i}
        /\ r.fault = kk.fault
    <3>1. r \in KType
      <4>1. [kk EXCEPT !.kentry[t] = i, !.kflag = kk.kflag \cup {i}] \in KType
        BY <2>1, SetKStackType
      <4> QED
        BY <2>2, <4>1
    <3>2. /\ r.ss = kk.ss /\ r.prio = kk.prio /\ r.state = kk.state
          /\ r.kflag = kk.kflag \cup {i} /\ r.fault = kk.fault
      BY <2>1, <2>2 DEF KInv, KType
    <3>3. r.kentry = [kk.kentry EXCEPT ![t] = i]
      BY <2>1, <2>2 DEF KInv, KType
    <3> QED
      BY <3>1, <3>2, <3>3
  <2>4. Ready(r) = Ready(kk)
    BY <2>3 DEF Ready
  <2>5. Allocated(kk, t, r)
    BY <1>2, <2>1, <2>3 DEF Allocated
  <2> QED
    BY <2>3, <2>4, <2>5 DEF KInv
<1> QED
  BY <1>1, <1>2

-----------------------------------------------------------------------------
(* The inductive invariant.                                                *)

(* Before pthread_create_idle_sys only the boot thread exists; after it    *)
(* the idle thread is READY for good.                                      *)
Booting ==
    /\ current = Boot /\ idle = Boot
    /\ resched = {} /\ pend = FALSE /\ k.fault = FALSE
    /\ ctx[Boot] \in {"user", "irq_user"}
    /\ k.kentry[Boot] = 1 /\ k.kflag = {1}
    /\ \A t \in Threads : k.state[t] = IF t = Boot THEN "SUSPENDED" ELSE "FREE"

Booted ==
    /\ current # Boot /\ idle # Boot
    /\ k.state[Boot] = "FINISHED" /\ k.state[idle] = "READY"
    /\ k.prio[idle] = IDLE_SCHED_PRIORITY

(* A call of scheduling() is outstanding only in a frame that exists.      *)
FramesMatch ==
    \A t \in Threads :
        /\ <<t, "irq">> \in resched => ctx[t] \in {"irq_user", "irq_sys"}
        /\ <<t, "sys">> \in resched => ctx[t] \in {"sys", "irq_sys"}

SInv ==
    /\ TypeOK
    /\ Linked(k.ss, Ready(k), k.prio)
    /\ Booting \/ Booted
    /\ FramesMatch
    /\ RunnerReady

(* The state setup_kernel leaves satisfies the invariant.                  *)
LEMMA InitSInv == Init => SInv
<1> SUFFICES ASSUME Init PROVE SInv
  OBVIOUS
<1> DEFINE z  == zero_ss(init_ss, Boot)
           pr == [t \in Threads |-> 0]
<1>1. Boot \in Threads \ {} /\ pr \in [Threads -> Nat] /\ {} \in SUBSET Threads
  BY BootAssumption
<1>2. z \in StructType /\ Linked(z, {}, pr)
  BY <1>1, InitHolds, ZeroLinked
<1>3. k = [ss     |-> z,
           state  |-> [t \in Threads |-> IF t = Boot THEN "SUSPENDED" ELSE "FREE"],
           prio   |-> pr,
           kentry |-> [t \in Threads |-> IF t = Boot THEN 1 ELSE 0],
           kflag  |-> {1},
           fault  |-> FALSE]
  BY DEF Init
<1>4. 1 \in KStacks
  BY KStackAssumption DEF KStacks
<1> HIDE DEF z
<1>5. k \in KType
  BY <1>2, <1>3, <1>4 DEF KType, States
<1>6. /\ k.ss = z /\ k.prio = pr /\ k.kflag = {1} /\ k.fault = FALSE
      /\ \A t \in Threads : k.state[t] = IF t = Boot THEN "SUSPENDED" ELSE "FREE"
      /\ \A t \in Threads : k.kentry[t] = IF t = Boot THEN 1 ELSE 0
  BY <1>3
<1>7. Ready(k) = {}
  BY <1>6 DEF Ready
<1>8. /\ current = Boot /\ idle = Boot /\ ctx = [t \in Threads |-> "user"]
      /\ resched = {} /\ irq_on = TRUE /\ nest = 0 /\ pend = FALSE
  BY DEF Init
<1>9. TypeOK
  BY <1>1, <1>5, <1>8 DEF TypeOK, Contexts, Frames
<1>10. Booting
  BY <1>1, <1>6, <1>8 DEF Booting
<1>11. FramesMatch /\ RunnerReady
  BY <1>8 DEF FramesMatch, RunnerReady
<1> QED
  BY <1>2, <1>6, <1>7, <1>9, <1>10, <1>11 DEF SInv

(* A thread that may do anything next, outside an interrupted system call, *)
(* is READY.                                                               *)
LEMMA SyscallReady ==
    ASSUME SInv, InSyscall
    PROVE  Booted /\ k.state[current] = "READY" /\ current \in Threads
<1>1. Booted
  BY DEF SInv, InSyscall, Booting
<1>2. <<current, "sys">> \notin resched
  BY DEF InSyscall, Free, Frame
<1>3. <<current, "irq">> \notin resched
  BY DEF SInv, FramesMatch, InSyscall, TypeOK
<1>4. resched \cap ({current} \X Frames) = {}
  BY <1>2, <1>3 DEF Frames
<1> QED
  BY <1>1, <1>4 DEF SInv, RunnerReady, InSyscall, Free, InKernel, Booted, TypeOK

(* What a call of scheduling() outside interrupts does.                    *)
LEMMA SchedulingStep ==
    ASSUME SInv, Booted, Scheduling
    PROVE  /\ current' \in Threads /\ k.state[current'] = "READY" /\ Best(k', current')
           /\ KInv(k') /\ k'.state = k.state /\ k'.prio = k.prio
           /\ ctx' = ctx /\ resched' \in SUBSET resched
           /\ irq_on' \in BOOLEAN /\ pend' \in BOOLEAN
           /\ \/ k' = k
              \/ k.kentry[current'] = 0 /\ k' = alloc_kstack(k, current')
<1> DEFINE h == get_head_ss(k.ss)
<1>1. KInv(k) /\ k \in KType /\ k.ss \in StructType /\ k.prio \in [Threads -> Nat]
  BY DEF SInv, TypeOK, KInv, KType
<1>2. Ready(k) \in SUBSET Threads /\ Ready(k) # {}
  BY DEF Ready, Booted, SInv, TypeOK
<1>3. h \in Ready(k) /\ \A u \in Ready(k) : Level(k.prio[h]) <= Level(k.prio[u])
  BY <1>1, <1>2, HeadBest DEF KInv
<1>4. h \in Threads /\ k.state[h] = "READY" /\ h # NULL
  BY <1>3, NullAssumption DEF Ready
<1> HIDE DEF h
<1>5. IF h = current
      THEN /\ resched' = resched \ {Frame(current)}
           /\ pend' = FALSE
           /\ UNCHANGED <<k, current, ctx, irq_on>>
      ELSE context_switch_to(h)
  BY <1>4 DEF Scheduling, h
<1>6. CASE h = current
  BY <1>1, <1>3, <1>4, <1>5, <1>6 DEF Best, SInv, TypeOK
<1>7. CASE h # current
  <2>1. /\ current' = h /\ ctx' = ctx
        /\ irq_on' \in BOOLEAN /\ pend' \in BOOLEAN /\ resched' \in SUBSET resched
    BY <1>5, <1>7 DEF context_switch_to, SInv, TypeOK
  <2>2. CASE k.kentry[h] = 0
    <3>1. k' = alloc_kstack(k, h)
      BY <1>5, <1>7, <2>2 DEF context_switch_to
    <3>2. KInv(k') /\ k'.state = k.state /\ k'.prio = k.prio
      BY <1>1, <1>4, <3>1, AllocKernel
    <3>3. Ready(k') = Ready(k)
      BY <3>2 DEF Ready
    <3> QED
      BY <1>3, <1>4, <2>1, <2>2, <3>1, <3>2, <3>3 DEF Best
  <2>3. CASE k.kentry[h] # 0
    <3>1. k' = k
      BY <1>5, <1>7, <2>3 DEF context_switch_to
    <3> QED
      BY <1>1, <1>3, <1>4, <2>1, <3>1 DEF Best
  <2> QED
    BY <2>2, <2>3
<1> QED
  BY <1>6, <1>7

(* A step of kernel code keeps the invariant if its change of the kernel   *)
(* data does, keeps the idle thread READY and, unless it goes on to call   *)
(* scheduling(), keeps the current thread READY.                           *)
LEMMA KernelStepSInv ==
    ASSUME SInv, Booted, InKernel, NEW kk, KInv(kk), NEW b \in BOOLEAN,
           KernelStep(kk, b),
           kk.state[Boot] = "FINISHED", kk.state[idle] = "READY",
           kk.prio[idle] = IDLE_SCHED_PRIORITY,
           \/ b
           \/ k.state[current] = "READY" => kk.state[current] = "READY"
    PROVE  SInv'
<1>1. /\ k' = kk /\ current' = current /\ idle' = idle /\ ctx' = ctx
      /\ irq_on' = irq_on /\ nest' = nest /\ pend' = pend
      /\ resched' = IF b THEN resched \cup {Frame(current)} ELSE resched
  BY DEF KernelStep
<1>2. /\ Frame(current) \in Threads \X Frames
      /\ Frame(current) = <<current, "sys">> => ctx[current] = "sys"
      /\ Frame(current) = <<current, "irq">> => ctx[current] \in {"irq_user", "irq_sys"}
  BY DEF Frame, Frames, SInv, TypeOK, InKernel, Contexts
<1>3. current \in Threads /\ k.fault = FALSE
  BY DEF SInv, TypeOK, InKernel, KType
<1>4. TypeOK'
  BY <1>1, <1>2 DEF SInv, TypeOK, KInv
<1>5. Linked(k.ss, Ready(k), k.prio)'
  BY <1>1 DEF KInv, Ready
<1>6. Booted'
  BY <1>1 DEF Booted
<1>7. FramesMatch'
  <2>1. ASSUME NEW t \in Threads
        PROVE  /\ <<t, "irq">> \in resched' => ctx[t] \in {"irq_user", "irq_sys"}
               /\ <<t, "sys">> \in resched' => ctx[t] \in {"sys", "irq_sys"}
    BY <1>1, <1>2 DEF SInv, FramesMatch, Frame
  <2> QED
    BY <1>1, <2>1 DEF FramesMatch
<1>8. RunnerReady'
  <2>1. CASE b
    <3>1. Frame(current) \in resched' \cap ({current} \X Frames)
      BY <1>1, <1>2, <2>1 DEF Frame
    <3> QED
      BY <1>1, <3>1 DEF RunnerReady
  <2>2. CASE ~b
    BY <1>1, <1>3, <2>2 DEF RunnerReady, SInv
  <2> QED
    BY <2>1, <2>2
<1> QED
  BY <1>4, <1>5, <1>6, <1>7, <1>8 DEF SInv

(* A step that leaves the kernel data alone.                               *)
LEMMA ControlStepSInv ==
    ASSUME SInv, UNCHANGED <<k, current, idle, resched, pend>>,
           TypeOK', FramesMatch',
           current = Boot => ctx'[Boot] \in {"user", "irq_user"}
    PROVE  SInv'
<1>1. Linked(k.ss, Ready(k), k.prio)'
  BY DEF SInv, Ready
<1>2. (Booting \/ Booted)'
  BY DEF SInv, Booting, Booted
<1>3. RunnerReady'
  BY DEF SInv, RunnerReady
<1> QED
  BY <1>1, <1>2, <1>3 DEF SInv

(* A call of scheduling().                                                 *)
LEMMA SchedulingSInv ==
    ASSUME SInv, Booted, Scheduling, idle' = idle, nest' \in {0, 1}
    PROVE  SInv'
<1>1. /\ current' \in Threads /\ k.state[current'] = "READY"
      /\ KInv(k') /\ k'.state = k.state /\ k'.prio = k.prio
      /\ ctx' = ctx /\ resched' \in SUBSET resched
      /\ irq_on' \in BOOLEAN /\ pend' \in BOOLEAN
  BY SchedulingStep
<1>2. TypeOK'
  BY <1>1 DEF SInv, TypeOK, KInv
<1>3. Linked(k.ss, Ready(k), k.prio)'
  BY <1>1 DEF KInv, Ready
<1>4. Booted'
  BY <1>1 DEF Booted
<1>5. FramesMatch'
  BY <1>1 DEF SInv, FramesMatch
<1>6. RunnerReady'
  BY <1>1 DEF RunnerReady
<1> QED
  BY <1>2, <1>3, <1>4, <1>5, <1>6 DEF SInv

(* What pthread_create_idle_sys leaves.                                    *)
LEMMA CreateIdleStep ==
    ASSUME SInv, NEW t \in Threads, CreateIdle(t)
    PROVE  /\ Booting /\ t # Boot /\ KInv(k')
           /\ k'.state = [k.state EXCEPT ![t] = "READY", ![Boot] = "FINISHED"]
           /\ k'.prio = [k.prio EXCEPT ![t] = IDLE_SCHED_PRIORITY]
           /\ ~k'.fault => \E i \in KStacks \ {1} :
                              k'.kentry = [k.kentry EXCEPT ![t] = i] /\ k'.kflag = {i}
           /\ Ready(k') = {t}
<1>1. /\ Booting /\ t # Boot /\ k.state[t] = "FREE" /\ KInv(k) /\ k \in KType
      /\ t \notin Ready(k) /\ Boot \in Threads /\ Ready(k) = {}
  <2>1. Booting /\ k.state[t] = "FREE"
    BY DEF CreateIdle, SInv, Booted
  <2> QED
    BY <2>1, BootAssumption DEF Booting, SInv, TypeOK, KInv, Ready
<1>2. MIN_SCHED_PRIORITY \in Nat /\ IDLE_SCHED_PRIORITY \in Nat
  <2>1. Width \in Nat /\ Width >= 2
    BY WidthAssumption, ParamAssumption
  <2>2. Width * Width >= 2 /\ Width * Width \in Nat
    BY <2>1
  <2> QED
    BY <2>2 DEF MIN_SCHED_PRIORITY, IDLE_SCHED_PRIORITY, Levels
<1>3. PICK k0 : k0 = create_pthread_struct(k, t, MIN_SCHED_PRIORITY)
  OBVIOUS
<1>4. /\ KInv(k0) /\ k0 \in KType
      /\ k0.state = [k.state EXCEPT ![t] = "SUSPENDED"]
      /\ k0.prio = [k.prio EXCEPT ![t] = MIN_SCHED_PRIORITY]
      /\ k0.kentry = [k.kentry EXCEPT ![t] = 0]
      /\ k0.kflag = k.kflag /\ k0.fault = k.fault
  <2>1. KInv(k0) /\ Created(k, t, MIN_SCHED_PRIORITY, k0)
    BY <1>1, <1>2, <1>3, CreateKernel
  <2> QED
    BY <2>1 DEF KInv, Created
<1>5. PICK k1 : k1 = activate_thread(k0, t)
  OBVIOUS
<1>6. /\ KInv(k1) /\ k1 \in KType
      /\ k1.state = [k.state EXCEPT ![t] = "READY"]
      /\ k1.prio = k0.prio /\ k1.kentry = k0.kentry
      /\ k1.kflag = k.kflag /\ k1.fault = k.fault
  <2>1. /\ KInv(k1)
        /\ k1.state = [k0.state EXCEPT ![t] = IF @ \in {"FINISHED", "READY"}
                                              THEN @ ELSE "READY"]
        /\ k1.prio = k0.prio /\ k1.kentry = k0.kentry
        /\ k1.kflag = k0.kflag /\ k1.fault = k0.fault
    BY <1>4, <1>5, ActivateKernel
  <2>2. [k0.state EXCEPT ![t] = IF @ \in {"FINISHED", "READY"} THEN @ ELSE "READY"]
           = [k.state EXCEPT ![t] = "READY"]
    BY <1>1, <1>4 DEF KType
  <2> QED
    BY <1>4, <2>1, <2>2 DEF KInv
<1>7. PICK ka : ka = alloc_kstack(k1, t)
  OBVIOUS
<1>8. /\ KInv(ka) /\ ka \in KType /\ ka.state = k1.state /\ ka.prio = k1.prio
      /\ Allocated(k1, t, ka)
  <2>1. KInv(ka) /\ ka.state = k1.state /\ ka.prio = k1.prio /\ Allocated(k1, t, ka)
    BY <1>6, <1>7, AllocKernel
  <2> QED
    BY <2>1 DEF KInv
<1>9. PICK k2 : k2 = finish_thread(ka, Boot)
  OBVIOUS
<1>10. /\ KInv(k2) /\ k2 \in KType
       /\ k2.state = [ka.state EXCEPT ![Boot] = "FINISHED"]
       /\ k2.prio = ka.prio /\ k2.kentry = ka.kentry
       /\ Freed(ka, Boot, k2)
  <2>1. /\ KInv(k2) /\ k2.state = [ka.state EXCEPT ![Boot] = "FINISHED"]
        /\ k2.prio = ka.prio /\ k2.kentry = ka.kentry /\ Freed(ka, Boot, k2)
    BY <1>1, <1>8, <1>9, FinishKernel
  <2> QED
    BY <2>1 DEF KInv
<1>11. ka.kentry[Boot] = 1
  BY <1>1, <1>4, <1>6, <1>8 DEF Booting, KType, Allocated
<1>12. PICK ks : ks = suspend_thread(k2, t)
  OBVIOUS
<1>13. /\ KInv(ks) /\ ks \in KType
       /\ ks.state = [k2.state EXCEPT ![t] = IF @ = "FINISHED" THEN @ ELSE "SUSPENDED"]
       /\ ks.prio = k2.prio /\ ks.kentry = k2.kentry
       /\ ks.kflag = k2.kflag /\ ks.fault = k2.fault
  BY <1>10, <1>12, SuspendKernel DEF KInv
<1>14. PICK k3 : k3 = change_thread_prio(ks, t, IDLE_SCHED_PRIORITY)
  OBVIOUS
<1>15. /\ KInv(k3) /\ k3 \in KType
       /\ k3.prio = [ks.prio EXCEPT ![t] = IDLE_SCHED_PRIORITY]
       /\ k3.state = ks.state /\ k3.kentry = ks.kentry
       /\ k3.kflag = ks.kflag /\ k3.fault = ks.fault
  <2>1. KInv(k3) /\ Reprioritised(ks, t, IDLE_SCHED_PRIORITY, k3)
    BY <1>2, <1>13, <1>14, ChangePrioKernel
  <2> QED
    BY <2>1 DEF KInv, Reprioritised
<1>16. k' = activate_thread(k3, t)
  BY <1>1, <1>3, <1>5, <1>7, <1>9, <1>12, <1>14 DEF CreateIdle, Booting
<1>17. /\ KInv(k')
       /\ k'.state = [k3.state EXCEPT ![t] = IF @ \in {"FINISHED", "READY"}
                                             THEN @ ELSE "READY"]
       /\ k'.prio = k3.prio /\ k'.kentry = k3.kentry
       /\ k'.kflag = k3.kflag /\ k'.fault = k3.fault
  BY <1>15, <1>16, ActivateKernel
<1>18. k'.state = [k.state EXCEPT ![t] = "READY", ![Boot] = "FINISHED"]
  <2>1. /\ k.state \in [Threads -> States] /\ k1.state = [k.state EXCEPT ![t] = "READY"]
        /\ k2.state = [k1.state EXCEPT ![Boot] = "FINISHED"]
    BY <1>1, <1>6, <1>8, <1>10 DEF KType
  <2>2. k2.state[t] = "READY"
    BY <1>1, <2>1
  <2>3. ks.state = [k2.state EXCEPT ![t] = "SUSPENDED"]
    BY <1>13, <2>1, <2>2
  <2>4. k'.state = [ks.state EXCEPT ![t] = "READY"]
    BY <1>1, <1>15, <1>17, <2>1, <2>3
  <2> QED
    BY <1>1, <2>1, <2>3, <2>4
<1>19. k'.prio = [k.prio EXCEPT ![t] = IDLE_SCHED_PRIORITY]
  <2>1. k.prio \in [Threads -> Nat]
    BY <1>1 DEF KType
  <2> QED
    BY <1>4, <1>6, <1>8, <1>10, <1>13, <1>15, <1>17, <2>1
<1>20. ~k'.fault => \E i \in KStacks \ {1} :
                       k'.kentry = [k.kentry EXCEPT ![t] = i] /\ k'.kflag = {i}
  <2>1. SUFFICES ASSUME ~k'.fault
                 PROVE  \E i \in KStacks \ {1} :
                          k'.kentry = [k.kentry EXCEPT ![t] = i] /\ k'.kflag = {i}
    OBVIOUS
  <2>2. /\ k'.fault = ka.fault /\ k'.kentry = ka.kentry
        /\ k'.kflag = ka.kflag \ {1}
    BY <1>10, <1>11, <1>13, <1>15, <1>17 DEF Freed
  <2>3. k1.kflag = {1}
    BY <1>1, <1>6 DEF Booting
  <2>4. PICK i \in KStacks \ {1} : /\ ka.kentry = [k1.kentry EXCEPT ![t] = i]
                                   /\ ka.kflag = {1} \cup {i}
    BY <1>8, <2>1, <2>2, <2>3 DEF Allocated
  <2>5. k'.kflag = {i}
    BY <2>2, <2>4
  <2>6. [k1.kentry EXCEPT ![t] = i] = [k.kentry EXCEPT ![t] = i]
    BY <1>1, <1>4, <1>6 DEF KType
  <2> QED
    BY <2>2, <2>4, <2>5, <2>6
<1>21. Ready(k') = {t}
  BY <1>1, <1>18 DEF Ready, Booting, KType
<1> QED
  BY <1>1, <1>17, <1>18, <1>19, <1>20, <1>21

(* Deleting a thread other than the running one.                           *)
LEMMA ForgetSInv ==
    ASSUME SInv, InSyscall, NEW t \in Threads \ {Boot, idle, current}, KInv(k'),
           k'.state[Boot] = "FINISHED", k'.state[idle] = "READY",
           k'.prio[idle] = IDLE_SCHED_PRIORITY, k'.state[current] = "READY",
           NEW calls \in SUBSET {Frame(current)}, Forget(t, calls)
    PROVE  SInv'
<1>1. /\ ctx' = [ctx EXCEPT ![t] = "user"]
      /\ resched' = (resched \ ({t} \X Frames)) \cup calls
      /\ current' = current /\ idle' = idle /\ irq_on' = irq_on /\ nest' = nest
      /\ pend' = pend
  BY DEF Forget
<1>2. Booted /\ current \in Threads
  BY SyscallReady
<1>3. Frame(current) = <<current, "sys">> /\ ctx[current] = "sys"
  BY DEF Frame, InSyscall
<1>4. TypeOK'
  <2>1. resched' \subseteq Threads \X Frames
    BY <1>1, <1>2, <1>3 DEF SInv, TypeOK, Frames
  <2>2. ctx' \in [Threads -> Contexts]
    BY <1>1 DEF SInv, TypeOK, Contexts
  <2> QED
    BY <1>1, <2>1, <2>2 DEF SInv, TypeOK, KInv
<1>5. Linked(k.ss, Ready(k), k.prio)'
  BY DEF KInv, Ready
<1>6. Booted'
  BY <1>1, <1>2 DEF Booted
<1>7. FramesMatch'
  <2>1. ASSUME NEW u \in Threads
        PROVE  /\ <<u, "irq">> \in resched' => ctx'[u] \in {"irq_user", "irq_sys"}
               /\ <<u, "sys">> \in resched' => ctx'[u] \in {"sys", "irq_sys"}
    <3>1. CASE u = t
      BY <1>1, <1>3, <3>1 DEF Frames
    <3>2. CASE u # t
      <4>1. ctx'[u] = ctx[u]
        BY <1>1, <3>2 DEF SInv, TypeOK
      <4>2. /\ <<u, "irq">> \in resched' => <<u, "irq">> \in resched
            /\ <<u, "sys">> \in resched' => <<u, "sys">> \in resched \/ u = current
        BY <1>1, <1>3
      <4> QED
        BY <1>3, <4>1, <4>2 DEF SInv, FramesMatch
    <3> QED
      BY <3>1, <3>2
  <2> QED
    BY <2>1 DEF FramesMatch
<1>8. RunnerReady'
  BY <1>1 DEF RunnerReady
<1> QED
  BY <1>4, <1>5, <1>6, <1>7, <1>8 DEF SInv

(* pthread_create_idle_sys establishes the invariant of the booted kernel. *)
LEMMA CreateIdleSInv ==
    ASSUME SInv, NEW t \in Threads, CreateIdle(t)
    PROVE  SInv'
<1>1. /\ Booting /\ t # Boot /\ KInv(k')
      /\ k'.state = [k.state EXCEPT ![t] = "READY", ![Boot] = "FINISHED"]
      /\ k'.prio = [k.prio EXCEPT ![t] = IDLE_SCHED_PRIORITY]
  BY CreateIdleStep
<1>2. /\ idle' = t /\ current' = t /\ irq_on' = TRUE
      /\ ctx' = ctx /\ resched' = resched /\ nest' = nest /\ pend' = pend
  BY DEF CreateIdle
<1>3. TypeOK'
  BY <1>1, <1>2 DEF SInv, TypeOK, KInv
<1>4. Linked(k.ss, Ready(k), k.prio)'
  BY <1>1 DEF KInv, Ready
<1>5. /\ k'.state[Boot] = "FINISHED" /\ k'.state[t] = "READY"
      /\ k'.prio[t] = IDLE_SCHED_PRIORITY
  BY <1>1, BootAssumption DEF SInv, TypeOK, KType
<1>6. Booted'
  BY <1>1, <1>2, <1>5 DEF Booted
<1>7. FramesMatch' /\ RunnerReady'
  BY <1>1, <1>2, <1>5 DEF SInv, FramesMatch, RunnerReady
<1> QED
  BY <1>3, <1>4, <1>6, <1>7 DEF SInv

(* Every step keeps the invariant: one step of the proof per action.       *)
LEMMA NextSInv == SInv /\ [Next]_vars => SInv'
<1> SUFFICES ASSUME SInv, [Next]_vars PROVE SInv'
  OBVIOUS
<1>0. /\ KInv(k) /\ k \in KType /\ k.state \in [Threads -> States]
      /\ k.prio \in [Threads -> Nat] /\ current \in Threads /\ idle \in Threads
      /\ Boot \in Threads /\ ctx \in [Threads -> Contexts]
  BY BootAssumption DEF SInv, TypeOK, KInv, KType
<1>1. CASE SyscallEnter
  <2>1. TypeOK' /\ FramesMatch'
    BY <1>0, <1>1 DEF SyscallEnter, SInv, TypeOK, FramesMatch, Contexts
  <2> QED
    BY <1>1, <2>1, ControlStepSInv DEF SyscallEnter
<1>2. CASE SyscallReturn
  <2>1. Booted /\ <<current, "sys">> \notin resched
    BY <1>2, SyscallReady DEF SyscallReturn, InSyscall, Free, Frame
  <2>2. TypeOK'
    BY <1>0, <1>2 DEF SyscallReturn, SInv, TypeOK, Contexts
  <2>3. FramesMatch'
    BY <1>0, <1>2, <2>1 DEF SyscallReturn, SInv, FramesMatch, InSyscall
  <2> QED
    BY <1>2, <2>1, <2>2, <2>3, ControlStepSInv DEF SyscallReturn, Booted
<1>3. CASE IrqEnter
  <2>1. TypeOK' /\ FramesMatch'
    BY <1>0, <1>3 DEF IrqEnter, SInv, TypeOK, FramesMatch, Contexts
  <2>2. current = Boot => ctx'[Boot] \in {"user", "irq_user"}
    BY <1>0, <1>3 DEF IrqEnter, SInv, Booting, Booted
  <2> QED
    BY <1>3, <2>1, <2>2, ControlStepSInv DEF IrqEnter
<1>4. CASE IrqReturn
  <2>1. TypeOK'
    BY <1>0, <1>4 DEF IrqReturn, SInv, TypeOK, Contexts
  <2>2. <<current, "irq">> \notin resched
    BY <1>4 DEF IrqReturn, Free, Frame
  <2>3. FramesMatch'
    BY <1>0, <1>4, <2>2 DEF IrqReturn, SInv, FramesMatch
  <2>4. current = Boot => ctx'[Boot] \in {"user", "irq_user"}
    BY <1>0, <1>4 DEF IrqReturn, SInv, Booting, Booted
  <2> QED
    BY <1>4, <2>1, <2>3, <2>4, ControlStepSInv DEF IrqReturn
<1>5. CASE Suspend
  <2>1. PICK kk : kk = suspend_thread(k, current)
    OBVIOUS
  <2>2. KernelStep(kk, TRUE) /\ InKernel /\ current # idle
    BY <1>5, <2>1 DEF Suspend, Free
  <2>3. /\ KInv(kk) /\ kk.prio = k.prio
        /\ kk.state = [k.state EXCEPT ![current] = IF @ = "FINISHED" THEN @
                                                   ELSE "SUSPENDED"]
    BY <1>0, <2>1, SuspendKernel
  <2>4. Booted
    BY <2>2 DEF SInv, Booting
  <2>5. /\ kk.state[Boot] = "FINISHED" /\ kk.state[idle] = "READY"
        /\ kk.prio[idle] = IDLE_SCHED_PRIORITY
    BY <1>0, <2>2, <2>3, <2>4 DEF Booted
  <2> QED
    BY <2>2, <2>3, <2>4, <2>5, KernelStepSInv
<1>6. CASE Finish
  <2>1. PICK kk : kk = finish_thread(k, current)
    OBVIOUS
  <2>2. KernelStep(kk, TRUE) /\ InKernel /\ current # idle
    BY <1>6, <2>1 DEF Finish, Free
  <2>3. /\ KInv(kk) /\ kk.prio = k.prio
        /\ kk.state = [k.state EXCEPT ![current] = "FINISHED"]
    BY <1>0, <2>1, FinishKernel
  <2>4. Booted
    BY <2>2 DEF SInv, Booting
  <2>5. /\ kk.state[Boot] = "FINISHED" /\ kk.state[idle] = "READY"
        /\ kk.prio[idle] = IDLE_SCHED_PRIORITY
    BY <1>0, <2>2, <2>3, <2>4 DEF Booted
  <2> QED
    BY <2>2, <2>3, <2>4, <2>5, KernelStepSInv
<1>7. CASE pthread_yield_sys
  <2>1. PICK kk : kk = yield_thread(k, current)
    OBVIOUS
  <2>2. KernelStep(kk, TRUE) /\ InKernel
    BY <1>7, <2>1 DEF pthread_yield_sys, InSyscall, Free
  <2>3. Booted /\ current \in Ready(k)
    BY <1>7, SyscallReady DEF pthread_yield_sys, Ready
  <2>4. KInv(kk) /\ kk.prio = k.prio /\ kk.state = k.state
    BY <1>0, <2>1, <2>3, YieldKernel
  <2>5. /\ kk.state[Boot] = "FINISHED" /\ kk.state[idle] = "READY"
        /\ kk.prio[idle] = IDLE_SCHED_PRIORITY
    BY <2>3, <2>4 DEF Booted
  <2> QED
    BY <2>2, <2>3, <2>4, <2>5, KernelStepSInv
<1>8. CASE CallScheduling
  <2>1. Booted
    BY <1>8 DEF CallScheduling, SInv, Booting
  <2> QED
    BY <1>8, <2>1, SchedulingSInv DEF CallScheduling, SInv, TypeOK
<1>9. CASE IrqExit
  <2>1. CASE pend
    <3>1. Booted
      BY <2>1 DEF SInv, Booting
    <3> QED
      BY <1>9, <2>1, <3>1, SchedulingSInv DEF IrqExit
  <2>2. CASE ~pend
    <3>1. UNCHANGED <<k, current, idle, ctx, resched, irq_on, pend>> /\ nest' = 0
      BY <1>9, <2>2 DEF IrqExit
    <3>2. TypeOK' /\ FramesMatch'
      BY <3>1 DEF SInv, TypeOK, FramesMatch
    <3>3. current = Boot => ctx'[Boot] \in {"user", "irq_user"}
      BY <3>1 DEF SInv, Booting, Booted
    <3> QED
      BY <3>1, <3>2, <3>3, ControlStepSInv
  <2> QED
    BY <2>1, <2>2
<1>10. ASSUME NEW t \in Threads, CreateIdle(t) PROVE SInv'
  BY <1>10, CreateIdleSInv
<1>11. ASSUME NEW t \in Threads, Activate(t) PROVE SInv'
  <2>1. PICK kk : kk = activate_thread(k, t)
    OBVIOUS
  <2>2. PICK b \in BOOLEAN : KernelStep(kk, b)
    BY <1>11, <2>1 DEF Activate
  <2>3. /\ KInv(kk) /\ kk.prio = k.prio
        /\ kk.state = [k.state EXCEPT ![t] = IF @ \in {"FINISHED", "READY"} THEN @
                                             ELSE "READY"]
    BY <1>0, <1>11, <2>1, ActivateKernel
  <2>4. Booted /\ InKernel
    BY <1>0, <1>11 DEF Activate, InKernel, SInv, Booting
  <2>5. /\ kk.state[Boot] = "FINISHED" /\ kk.state[idle] = "READY"
        /\ kk.prio[idle] = IDLE_SCHED_PRIORITY
        /\ k.state[current] = "READY" => kk.state[current] = "READY"
    BY <1>0, <2>3, <2>4 DEF Booted
  <2> QED
    BY <2>2, <2>3, <2>4, <2>5, KernelStepSInv
<1>12. ASSUME NEW t \in Threads, Delete(t) PROVE SInv'
  <2>1. /\ InSyscall /\ k.state[t] = "FINISHED" /\ t # Boot
        /\ k' = delete_pthread_struct(k, t) /\ Forget(t, {})
    BY <1>12 DEF Delete
  <2>2. Booted /\ k.state[current] = "READY"
    BY <2>1, SyscallReady
  <2>3. /\ KInv(k') /\ k'.prio = k.prio /\ k'.state = [k.state EXCEPT ![t] = "FREE"]
    BY <1>0, <1>12, <2>1, DeleteKernel
  <2>4. t \in Threads \ {Boot, idle, current}
    BY <1>12, <2>1, <2>2 DEF Booted
  <2>5. /\ k'.state[Boot] = "FINISHED" /\ k'.state[idle] = "READY"
        /\ k'.prio[idle] = IDLE_SCHED_PRIORITY /\ k'.state[current] = "READY"
    BY <1>0, <2>2, <2>3, <2>4 DEF Booted
  <2> QED
    BY <2>1, <2>3, <2>4, <2>5, ForgetSInv
<1>13. ASSUME NEW t \in Threads, pthread_delete_np_sys(t) PROVE SInv'
  <2>1. PICK kf : kf = finish_thread(k, t)
    OBVIOUS
  <2>2. /\ InSyscall /\ t \in Threads \ {Boot, idle, current}
        /\ k' = delete_pthread_struct(kf, t) /\ Forget(t, {Frame(current)})
    BY <1>13, <2>1 DEF pthread_delete_np_sys
  <2>3. Booted /\ k.state[current] = "READY"
    BY <2>2, SyscallReady
  <2>4. KInv(kf) /\ kf.prio = k.prio /\ kf.state = [k.state EXCEPT ![t] = "FINISHED"]
    BY <1>0, <2>1, <2>2, FinishKernel
  <2>5. kf \in KType
    BY <2>4 DEF KInv
  <2>6. KInv(k') /\ k'.prio = kf.prio /\ k'.state = [kf.state EXCEPT ![t] = "FREE"]
    BY <2>2, <2>4, <2>5, DeleteKernel
  <2>7. /\ k'.state[Boot] = "FINISHED" /\ k'.state[idle] = "READY"
        /\ k'.prio[idle] = IDLE_SCHED_PRIORITY /\ k'.state[current] = "READY"
    BY <1>0, <2>2, <2>3, <2>4, <2>6 DEF Booted
  <2> QED
    BY <2>2, <2>6, <2>7, ForgetSInv
<1>14. ASSUME NEW t \in Threads, IrqWake(t) PROVE SInv'
  <2>1. /\ k.state[t] # "FREE" /\ t # Boot /\ k' = activate_thread(k, t) /\ pend' = TRUE
        /\ UNCHANGED <<current, idle, ctx, resched, irq_on, nest>> /\ ~k.fault
    BY <1>14 DEF IrqWake
  <2>2. Booted
    BY <1>14, <2>1 DEF SInv, Booting
  <2>3. /\ KInv(k') /\ k'.prio = k.prio /\ k'.fault = k.fault
        /\ k'.state = [k.state EXCEPT ![t] = IF @ \in {"FINISHED", "READY"} THEN @
                                             ELSE "READY"]
    BY <1>0, <1>14, <2>1, ActivateKernel
  <2>4. TypeOK'
    BY <2>1, <2>3 DEF SInv, TypeOK, KInv
  <2>5. Linked(k.ss, Ready(k), k.prio)'
    BY <2>3 DEF KInv, Ready
  <2>6. Booted'
    BY <1>0, <2>1, <2>2, <2>3 DEF Booted
  <2>7. FramesMatch' /\ RunnerReady'
    BY <1>0, <2>1, <2>3 DEF SInv, FramesMatch, RunnerReady
  <2> QED
    BY <2>4, <2>5, <2>6, <2>7 DEF SInv
<1>15. ASSUME NEW t \in Threads, NEW p \in Params, Create(t, p) PROVE SInv'
  <2>1. PICK k1 : k1 = create_pthread_struct(k, t, p)
    OBVIOUS
  <2>2. PICK k2 : k2 = activate_thread(k1, t)
    OBVIOUS
  <2>3. /\ InSyscall /\ k.state[t] = "FREE"
        /\ KernelStep(k2, TRUE) \/ KernelStep(k1, FALSE)
    BY <1>15, <2>1, <2>2 DEF Create
  <2>4. Booted /\ k.state[current] = "READY" /\ InKernel
    BY <2>3, SyscallReady DEF InSyscall, Free
  <2>5. p \in Nat /\ t \in Threads \ Ready(k)
    BY <1>15, <2>3, ParamAssumption DEF Ready
  <2>6. /\ KInv(k1) /\ k1.state = [k.state EXCEPT ![t] = "SUSPENDED"]
        /\ k1.prio = [k.prio EXCEPT ![t] = p]
    <3>1. KInv(k1) /\ Created(k, t, p, k1)
      BY <1>0, <2>1, <2>5, CreateKernel
    <3> QED
      BY <3>1 DEF Created
  <2>7. k1 \in KType
    BY <2>6 DEF KInv
  <2>8. /\ KInv(k2) /\ k2.prio = k1.prio
        /\ k2.state = [k1.state EXCEPT ![t] = IF @ \in {"FINISHED", "READY"} THEN @
                                              ELSE "READY"]
    BY <2>2, <2>5, <2>6, <2>7, ActivateKernel
  <2>9. t \notin {Boot, idle, current}
    BY <2>3, <2>4 DEF Booted
  <2>10. /\ k1.state[Boot] = "FINISHED" /\ k1.state[idle] = "READY"
         /\ k1.prio[idle] = IDLE_SCHED_PRIORITY /\ k1.state[current] = "READY"
    BY <1>0, <2>4, <2>6, <2>9 DEF Booted
  <2>11. /\ k2.state[Boot] = "FINISHED" /\ k2.state[idle] = "READY"
         /\ k2.prio[idle] = IDLE_SCHED_PRIORITY
    BY <1>0, <2>6, <2>8, <2>9, <2>10
  <2>12. CASE KernelStep(k2, TRUE)
    BY <2>4, <2>8, <2>11, <2>12, KernelStepSInv
  <2>13. CASE KernelStep(k1, FALSE)
    BY <2>4, <2>6, <2>10, <2>13, KernelStepSInv
  <2> QED
    BY <2>3, <2>12, <2>13
<1>16. ASSUME NEW t \in Threads, NEW p \in Params, SetPrio(t, p) PROVE SInv'
  <2>1. PICK kk : kk = change_thread_prio(k, t, p)
    OBVIOUS
  <2>2. KernelStep(kk, TRUE) /\ InKernel /\ t # idle
    BY <1>16, <2>1 DEF SetPrio, InSyscall, Free
  <2>3. Booted
    BY <1>16, SyscallReady DEF SetPrio
  <2>4. p \in Nat
    BY <1>16, ParamAssumption
  <2>5. KInv(kk) /\ kk.prio = [k.prio EXCEPT ![t] = p] /\ kk.state = k.state
    <3>1. KInv(kk) /\ Reprioritised(k, t, p, kk)
      BY <1>0, <1>16, <2>1, <2>4, ChangePrioKernel
    <3> QED
      BY <3>1 DEF Reprioritised
  <2>6. /\ kk.state[Boot] = "FINISHED" /\ kk.state[idle] = "READY"
        /\ kk.prio[idle] = IDLE_SCHED_PRIORITY
    BY <1>0, <2>2, <2>3, <2>5 DEF Booted
  <2> QED
    BY <2>2, <2>3, <2>5, <2>6, KernelStepSInv
<1>17. CASE UNCHANGED vars
  <2>1. TypeOK' /\ FramesMatch'
    BY <1>17 DEF vars, SInv, TypeOK, FramesMatch
  <2>2. current = Boot => ctx'[Boot] \in {"user", "irq_user"}
    BY <1>17 DEF vars, SInv, Booting, Booted
  <2> QED
    BY <1>17, <2>1, <2>2, ControlStepSInv DEF vars
<1> QED
  BY <1>1, <1>2, <1>3, <1>4, <1>5, <1>6, <1>7, <1>8, <1>9, <1>10, <1>11, <1>12,
     <1>13, <1>14, <1>15, <1>16, <1>17 DEF Next, CurrentStep, ThreadStep

(* The invariant of every behaviour of the scheduler.                      *)
THEOREM SchedInv == Spec => []SInv
<1> QED
  BY InitSInv, NextSInv, PTL DEF Spec

-----------------------------------------------------------------------------
(* The invariants of the runs.                                             *)

(* The variables always have their types.                                  *)
THEOREM TypeCorrect == Spec => []TypeOK
<1>1. SInv => TypeOK
  BY DEF SInv
<1> QED
  BY <1>1, SchedInv, PTL

(* active_threads always holds exactly the READY threads, each linked in   *)
(* the list of its priority, whatever mixture of the functions of          *)
(* sched_struct.h was called before.                                       *)
THEOREM StructAlwaysSound == Spec => []StructSound
<1>1. SInv => StructSound
  <2> SUFFICES ASSUME SInv PROVE StructSound
    OBVIOUS
  <2>1. PICK rank, tail : Holds(k.ss, Ready(k), k.prio, rank) /\ Tails(k.ss, Ready(k), tail)
    BY DEF SInv, Linked
  <2> QED
    BY <2>1 DEF Holds, StructSound
<1> QED
  BY <1>1, SchedInv, PTL

(* Code that is not on its way to scheduling() runs for a READY thread.    *)
THEOREM RunnerAlwaysReady == Spec => []RunnerReady
<1>1. SInv => RunnerReady
  BY DEF SInv
<1> QED
  BY <1>1, SchedInv, PTL

-----------------------------------------------------------------------------
(* The action properties of the runs.                                      *)

(* The processor changes hands only in pthread_create_idle_sys and in      *)
(* scheduling(), called directly or at the end of an interrupt.            *)
LEMMA SwitchStep ==
    ASSUME SInv, [Next]_vars, current' # current
    PROVE  (\E t \in Threads : CreateIdle(t)) \/ (Booted /\ Scheduling /\ idle' = idle)
<1>1. CASE CallScheduling
  BY <1>1 DEF CallScheduling, SInv, Booting
<1>2. CASE IrqExit
  BY <1>2 DEF IrqExit, SInv, Booting
<1> QED
  BY <1>1, <1>2
  DEF Next, CurrentStep, ThreadStep, vars, SyscallEnter, SyscallReturn, Suspend, Finish,
      pthread_yield_sys, IrqEnter, IrqReturn, Activate, Delete, pthread_delete_np_sys,
      Forget, IrqWake, Create, SetPrio, KernelStep

(* Whoever scheduling() gives the processor to is READY and of the highest *)
(* priority.                                                               *)
THEOREM DispatchIsOptimal == Spec => DispatchOptimal
<1>1. SInv /\ [Next]_vars =>
        [current' # current => k'.state[current'] = "READY" /\ Best(k', current')]_vars
  <2> SUFFICES ASSUME SInv, [Next]_vars, current' # current
               PROVE  k'.state[current'] = "READY" /\ Best(k', current')
    OBVIOUS
  <2>1. CASE \E t \in Threads : CreateIdle(t)
    <3>1. PICK t \in Threads : CreateIdle(t)
      BY <2>1
    <3>2. KInv(k') /\ Ready(k') = {t} /\ current' = t
      BY <3>1, CreateIdleStep DEF CreateIdle
    <3>3. k'.state[t] = "READY"
      BY <3>2 DEF Ready
    <3>4. Level(k'.prio[t]) \in Int
      BY <3>2, LevelsNat DEF KInv, KType, Level
    <3> QED
      BY <3>2, <3>3, <3>4 DEF Best
  <2>2. CASE Booted /\ Scheduling
    BY <2>2, SchedulingStep
  <2> QED
    BY <2>1, <2>2, SwitchStep
<1> QED
  BY <1>1, SchedInv, PTL DEF Spec, DispatchOptimal

(* A call of scheduling() made in an interrupt handler is made good at the *)
(* end of do_irq.                                                          *)
THEOREM DeferredIsNotLost == Spec => DeferredNotLost
<1>1. SInv /\ [Next]_vars =>
        [nest = 1 /\ nest' = 0 /\ pend => Best(k', current')]_vars
  <2> SUFFICES ASSUME SInv, [Next]_vars, nest = 1, nest' = 0, pend
               PROVE  Best(k', current')
    OBVIOUS
  <2>1. IrqExit
    BY DEF Next, CurrentStep, ThreadStep, vars, SyscallEnter, SyscallReturn, Suspend,
           Finish, pthread_yield_sys, IrqEnter, IrqReturn, Activate, Delete,
           pthread_delete_np_sys, Forget, IrqWake, Create, SetPrio, KernelStep,
           CreateIdle, CallScheduling
  <2>2. Booted /\ Scheduling
    BY <2>1 DEF IrqExit, SInv, Booting
  <2> QED
    BY <2>2, SchedulingStep
<1> QED
  BY <1>1, SchedInv, PTL DEF Spec, DeferredNotLost

-----------------------------------------------------------------------------
(* The idle thread.  Its priority is reserved as long as the application   *)
(* asks for priorities down to MIN_SCHED_PRIORITY only.                    *)

IdleAlone ==
    \A t \in Threads : t # idle \/ idle = Boot => k.prio[t] \in 0 .. MIN_SCHED_PRIORITY

(* A thread is activated and suspended without its priority.               *)
LEMMA PrioKept ==
    ASSUME NEW kk, kk \in KType, NEW t
    PROVE  activate_thread(kk, t).prio = kk.prio /\ suspend_thread(kk, t).prio = kk.prio
  BY DEF activate_thread, suspend_thread, KType

(* What a step does to the priorities.                                     *)
LEMMA PrioStep ==
    ASSUME SInv, [Next]_vars
    PROVE  \/ \E t \in Threads : CreateIdle(t)
           \/ idle' = idle /\ k'.prio = k.prio
           \/ idle' = idle /\ \E t \in Threads, p \in Params :
                                k'.prio = [k.prio EXCEPT ![t] = p]
<1> DEFINE Goal == \/ idle' = idle /\ k'.prio = k.prio
                   \/ idle' = idle /\ \E t \in Threads, p \in Params :
                                        k'.prio = [k.prio EXCEPT ![t] = p]
<1>0. KInv(k) /\ k \in KType /\ current \in Threads
  BY DEF SInv, TypeOK, KInv
<1>1. CASE SyscallEnter \/ SyscallReturn \/ IrqEnter \/ IrqReturn \/ UNCHANGED vars
  BY <1>1 DEF SyscallEnter, SyscallReturn, IrqEnter, IrqReturn, vars
<1>2. CASE Suspend
  <2>1. k' = suspend_thread(k, current) /\ idle' = idle
    BY <1>2 DEF Suspend, KernelStep
  <2>2. k'.prio = k.prio
    BY <1>0, <2>1, PrioKept
  <2> QED
    BY <2>1, <2>2
<1>3. CASE Finish
  <2>1. k' = finish_thread(k, current) /\ idle' = idle
    BY <1>3 DEF Finish, KernelStep
  <2>2. k'.prio = k.prio
    BY <1>0, <2>1, FinishKernel
  <2> QED
    BY <2>1, <2>2
<1>4. CASE pthread_yield_sys
  <2>1. k' = yield_thread(k, current) /\ idle' = idle /\ current \in Ready(k)
    BY <1>4, SyscallReady DEF pthread_yield_sys, KernelStep, Ready
  <2>2. k'.prio = k.prio
    BY <1>0, <2>1, YieldKernel
  <2> QED
    BY <2>1, <2>2
<1>5. CASE CallScheduling
  BY <1>5, SchedulingStep DEF CallScheduling, SInv, Booting
<1>6. CASE IrqExit
  BY <1>6, SchedulingStep DEF IrqExit, SInv, Booting
<1>7. ASSUME NEW t \in Threads, Activate(t) PROVE Goal
  <2>1. k' = activate_thread(k, t) /\ idle' = idle
    BY <1>7 DEF Activate, KernelStep
  <2>2. k'.prio = k.prio
    BY <1>0, <2>1, PrioKept
  <2> QED
    BY <2>1, <2>2
<1>8. ASSUME NEW t \in Threads, IrqWake(t) PROVE Goal
  <2>1. k' = activate_thread(k, t) /\ idle' = idle
    BY <1>8 DEF IrqWake
  <2>2. k'.prio = k.prio
    BY <1>0, <2>1, PrioKept
  <2> QED
    BY <2>1, <2>2
<1>9. ASSUME NEW t \in Threads, Delete(t) PROVE Goal
  <2>1. k' = delete_pthread_struct(k, t) /\ idle' = idle
    BY <1>9 DEF Delete, Forget
  <2>2. k'.prio = k.prio
    BY <1>0, <1>9, <2>1, DeleteKernel
  <2> QED
    BY <2>1, <2>2
<1>10. ASSUME NEW t \in Threads, pthread_delete_np_sys(t) PROVE Goal
  <2>1. PICK kf : kf = finish_thread(k, t)
    OBVIOUS
  <2>2. k' = delete_pthread_struct(kf, t) /\ idle' = idle
    BY <1>10, <2>1 DEF pthread_delete_np_sys, Forget
  <2>3. KInv(kf) /\ kf.prio = k.prio
    BY <1>0, <1>10, <2>1, FinishKernel
  <2>4. kf \in KType
    BY <2>3 DEF KInv
  <2>5. k'.prio = kf.prio
    BY <1>10, <2>2, <2>3, <2>4, DeleteKernel
  <2> QED
    BY <2>2, <2>3, <2>5
<1>11. ASSUME NEW t \in Threads, NEW p \in Params, Create(t, p) PROVE Goal
  <2>1. PICK k1 : k1 = create_pthread_struct(k, t, p)
    OBVIOUS
  <2>2. /\ k.state[t] = "FREE" /\ idle' = idle
        /\ k' = activate_thread(k1, t) \/ k' = k1
    BY <1>11, <2>1 DEF Create, KernelStep
  <2>3. p \in Nat /\ t \in Threads \ Ready(k)
    BY <1>11, <2>2, ParamAssumption DEF Ready
  <2>4. KInv(k1) /\ Created(k, t, p, k1)
    BY <1>0, <2>1, <2>3, CreateKernel
  <2>5. k1 \in KType
    BY <2>4 DEF KInv
  <2>6. k'.prio = k1.prio
    <3>1. CASE k' = activate_thread(k1, t)
      BY <2>5, <3>1, PrioKept
    <3> QED
      BY <2>2, <3>1
  <2> QED
    BY <1>11, <2>2, <2>4, <2>6 DEF Created
<1>12. ASSUME NEW t \in Threads, NEW p \in Params, SetPrio(t, p) PROVE Goal
  <2>1. k' = change_thread_prio(k, t, p) /\ idle' = idle /\ p \in Nat
    BY <1>12, ParamAssumption DEF SetPrio, KernelStep
  <2>2. k'.prio = [k.prio EXCEPT ![t] = p]
    <3>1. KInv(k') /\ Reprioritised(k, t, p, k')
      BY <1>0, <1>12, <2>1, ChangePrioKernel
    <3> QED
      BY <3>1 DEF Reprioritised
  <2> QED
    BY <1>12, <2>1, <2>2
<1> QED
  BY <1>1, <1>2, <1>3, <1>4, <1>5, <1>6, <1>7, <1>8, <1>9, <1>10, <1>11, <1>12
  DEF Next, CurrentStep, ThreadStep

(* While the application stays within MAX_SCHED_PRIORITY and               *)
(* MIN_SCHED_PRIORITY, the idle thread gets the processor only when no     *)
(* other thread is READY.                                                  *)
THEOREM IdleIsLast ==
    ASSUME Params \subseteq 0 .. MIN_SCHED_PRIORITY
    PROVE  Spec => IdleLast
<1>1. /\ Levels \in Nat \ {0} /\ IDLE_SCHED_PRIORITY \in Nat
      /\ MIN_SCHED_PRIORITY \in Nat /\ MIN_SCHED_PRIORITY < IDLE_SCHED_PRIORITY
      /\ \A p \in 0 .. IDLE_SCHED_PRIORITY : Level(p) = p
  <2>1. Width \in Nat /\ Width >= 2
    BY WidthAssumption, ParamAssumption
  <2>2. Width * Width >= 2 /\ Width * Width \in Nat
    BY <2>1
  <2>3. Levels \in Nat /\ Levels >= 2
    BY <2>2 DEF Levels
  <2> QED
    BY <2>3 DEF MIN_SCHED_PRIORITY, IDLE_SCHED_PRIORITY, Level
<1>2. Init => IdleAlone
  BY <1>1 DEF Init, IdleAlone
<1>3. SInv /\ IdleAlone /\ [Next]_vars => IdleAlone'
  <2> SUFFICES ASSUME SInv, IdleAlone, [Next]_vars PROVE IdleAlone'
    OBVIOUS
  <2>1. k.prio \in [Threads -> Nat]
    BY DEF SInv, TypeOK, KType
  <2>2. CASE \E t \in Threads : CreateIdle(t)
    <3>1. PICK t \in Threads : CreateIdle(t)
      BY <2>2
    <3>2. /\ Booting /\ idle' = t /\ t # Boot
          /\ k'.prio = [k.prio EXCEPT ![t] = IDLE_SCHED_PRIORITY]
      BY <3>1, CreateIdleStep DEF CreateIdle
    <3>3. \A u \in Threads : k.prio[u] \in 0 .. MIN_SCHED_PRIORITY
      BY <3>2 DEF IdleAlone, Booting
    <3>4. \A u \in Threads : u # t => k'.prio[u] = k.prio[u]
      BY <2>1, <3>2
    <3> QED
      BY <3>2, <3>3, <3>4 DEF IdleAlone
  <2>3. CASE idle' = idle /\ k'.prio = k.prio
    BY <2>3 DEF IdleAlone
  <2>4. CASE idle' = idle /\ \E t \in Threads, p \in Params :
                               k'.prio = [k.prio EXCEPT ![t] = p]
    BY <2>1, <2>4 DEF IdleAlone
  <2> QED
    BY <2>2, <2>3, <2>4, PrioStep
<1>4. SInv /\ IdleAlone /\ IdleAlone' /\ [Next]_vars =>
        [current' = idle' /\ current # idle' => Ready(k') = {idle'}]_vars
  <2> SUFFICES ASSUME SInv, IdleAlone, [Next]_vars, current' = idle', current # idle'
               PROVE  Ready(k') = {idle'}
    OBVIOUS
  <2>1. CASE \E t \in Threads : CreateIdle(t)
    BY <2>1, CreateIdleStep DEF CreateIdle
  <2>2. CASE Booted /\ Scheduling /\ idle' = idle
    <3>1. /\ k.state[idle] = "READY" /\ Best(k', idle) /\ idle \in Threads
          /\ k'.state = k.state /\ k'.prio = k.prio
      BY <2>2, SchedulingStep
    <3>2. k.prio[idle] = IDLE_SCHED_PRIORITY
      BY <2>2 DEF Booted
    <3>3. ASSUME NEW u \in Ready(k'), u # idle PROVE FALSE
      <4>1. u \in Threads \ {idle} /\ Level(k.prio[idle]) <= Level(k.prio[u])
        BY <3>1, <3>3 DEF Best, Ready
      <4>2. k.prio[u] \in 0 .. MIN_SCHED_PRIORITY
        BY <4>1 DEF IdleAlone
      <4> QED
        BY <1>1, <3>2, <4>1, <4>2
    <3>4. idle \in Ready(k')
      BY <3>1 DEF Ready
    <3> QED
      BY <2>2, <3>3, <3>4
  <2> QED
    BY <2>1, <2>2, SwitchStep
<1> QED
  BY <1>2, <1>3, <1>4, SchedInv, PTL DEF Spec, IdleLast

-----------------------------------------------------------------------------
(* The kernel stacks: kstack_flag marks exactly the stacks of the threads  *)
(* that have run and still live, as long as the application only deletes   *)
(* threads that have not finished.                                         *)
Runs(kk, t) == kk.state[t] \in {"READY", "SUSPENDED"} /\ kk.kentry[t] # 0

(* KStackExact, stack by stack.                                            *)
Exact(kk) ==
    /\ \A i \in KStacks : i \in kk.kflag <=> \E t \in Threads : Runs(kk, t) /\ kk.kentry[t] = i
    /\ \A t, u \in Threads : Runs(kk, t) /\ Runs(kk, u) /\ kk.kentry[t] = kk.kentry[u] => t = u

(* The running thread may have finished; its stack is then already free,   *)
(* and it may be finished again by an interrupt before it is switched out. *)
KStackInv ==
    /\ k.state[current] # "FREE"
    /\ ~k.fault => /\ Exact(k)
                   /\ k.state[current] = "FINISHED" => k.kentry[current] \notin k.kflag

-----------------------------------------------------------------------------
(* A change of states that starts and ends no thread.                      *)
LEMMA SameExact ==
    ASSUME NEW kk \in KType, NEW r \in KType, Exact(kk),
           r.kentry = kk.kentry, r.kflag = kk.kflag,
           \A t \in Threads : r.state[t] \in {"READY", "SUSPENDED"}
                                <=> kk.state[t] \in {"READY", "SUSPENDED"}
    PROVE  Exact(r)
<1>1. \A t \in Threads : Runs(r, t) <=> Runs(kk, t)
  BY DEF Runs
<1> QED
  BY <1>1 DEF Exact

(* A thread without a stack may change its state freely.                   *)
LEMMA StacklessExact ==
    ASSUME NEW kk \in KType, NEW r \in KType, Exact(kk), NEW t \in Threads,
           ~Runs(kk, t), ~Runs(r, t), r.kflag = kk.kflag,
           \A u \in Threads \ {t} : r.kentry[u] = kk.kentry[u] /\ r.state[u] = kk.state[u]
    PROVE  Exact(r)
<1>1. \A u \in Threads : Runs(r, u) <=> Runs(kk, u)
  BY DEF Runs
<1>2. \A u \in Threads : Runs(r, u) => r.kentry[u] = kk.kentry[u]
  OBVIOUS
<1> QED
  BY <1>1, <1>2 DEF Exact

(* finish_thread gives back the stack of the thread and no other one's.    *)
LEMMA FinishExact ==
    ASSUME NEW kk \in KType, NEW r \in KType, Exact(kk), NEW t \in Threads,
           kk.kentry[t] # 0,
           Runs(kk, t) \/ kk.kentry[t] \notin kk.kflag,
           ~Runs(r, t), r.kentry = kk.kentry,
           r.kflag = kk.kflag \ {kk.kentry[t]},
           \A u \in Threads \ {t} : r.state[u] = kk.state[u]
    PROVE  Exact(r)
<1>1. \A u \in Threads \ {t} : Runs(r, u) <=> Runs(kk, u)
  BY DEF Runs
<1>2. \A u \in Threads : Runs(r, u) => Runs(kk, u) /\ u # t
  BY <1>1
<1>3. \A u, v \in Threads :
        Runs(r, u) /\ Runs(r, v) /\ r.kentry[u] = r.kentry[v] => u = v
  BY <1>2 DEF Exact
<1>4. \A u \in Threads : /\ kk.kentry[u] \in KStacks \cup {0}
                         /\ Runs(kk, u) => kk.kentry[u] \in KStacks
  BY DEF KType, Runs
<1>5. ASSUME NEW i \in KStacks
      PROVE  i \in r.kflag <=> \E u \in Threads : Runs(r, u) /\ r.kentry[u] = i
  <2>1. ASSUME i \in r.kflag PROVE \E u \in Threads : Runs(r, u) /\ r.kentry[u] = i
    <3>1. i \in kk.kflag /\ i # kk.kentry[t]
      BY <2>1
    <3>2. PICK u \in Threads : Runs(kk, u) /\ kk.kentry[u] = i
      BY <1>5, <3>1 DEF Exact
    <3>3. u # t
      BY <3>1, <3>2
    <3> QED
      BY <1>1, <3>2, <3>3
  <2>2. ASSUME NEW u \in Threads, Runs(r, u), r.kentry[u] = i PROVE i \in r.kflag
    <3>1. Runs(kk, u) /\ u # t /\ kk.kentry[u] = i
      BY <1>2, <2>2
    <3>2. i \in kk.kflag
      BY <1>5, <3>1 DEF Exact
    <3>3. i # kk.kentry[t]
      BY <3>1, <3>2 DEF Exact
    <3> QED
      BY <3>2, <3>3
  <2> QED
    BY <2>1, <2>2
<1> QED
  BY <1>3, <1>5 DEF Exact

(* alloc_kstack gives a READY thread a stack nobody has.                   *)
LEMMA AllocExact ==
    ASSUME NEW kk \in KType, NEW r \in KType, Exact(kk), NEW t \in Threads,
           kk.kentry[t] = 0, kk.state[t] = "READY",
           NEW i \in KStacks \ kk.kflag,
           r.kentry = [kk.kentry EXCEPT ![t] = i], r.kflag = kk.kflag \cup {i},
           r.state = kk.state
    PROVE  Exact(r)
<1>1. i # 0 /\ 0 \notin KStacks
  BY KStackAssumption DEF KStacks
<1>2. r.kentry[t] = i /\ \A u \in Threads \ {t} : r.kentry[u] = kk.kentry[u]
  BY DEF KType
<1>3. Runs(r, t) /\ ~Runs(kk, t)
  BY <1>1, <1>2 DEF Runs
<1>4. \A u \in Threads \ {t} : Runs(r, u) <=> Runs(kk, u)
  BY <1>2 DEF Runs
<1>5. \A u \in Threads : Runs(kk, u) => kk.kentry[u] \in kk.kflag
  BY DEF Exact, Runs, KType
<1>6. \A u \in Threads \ {t} : Runs(r, u) => r.kentry[u] # i
  BY <1>2, <1>4, <1>5
<1>7. \A u, v \in Threads :
        Runs(r, u) /\ Runs(r, v) /\ r.kentry[u] = r.kentry[v] => u = v
  <2> SUFFICES ASSUME NEW u \in Threads, NEW v \in Threads, Runs(r, u), Runs(r, v),
                      r.kentry[u] = r.kentry[v], u # v
               PROVE  FALSE
    OBVIOUS
  <2>1. u # t /\ v # t
    BY <1>2, <1>6
  <2> QED
    BY <1>2, <1>4, <2>1 DEF Exact
<1>8. ASSUME NEW j \in KStacks
      PROVE  j \in r.kflag <=> \E u \in Threads : Runs(r, u) /\ r.kentry[u] = j
  <2>1. CASE j = i
    BY <1>2, <1>3, <2>1
  <2>2. CASE j # i
    <3>1. j \in r.kflag <=> j \in kk.kflag
      BY <2>2
    <3>2. \A u \in Threads : Runs(r, u) /\ r.kentry[u] = j
                               <=> Runs(kk, u) /\ kk.kentry[u] = j
      BY <1>2, <1>3, <1>4, <2>2
    <3> QED
      BY <1>8, <3>1, <3>2 DEF Exact
  <2> QED
    BY <2>1, <2>2
<1> QED
  BY <1>7, <1>8 DEF Exact

-----------------------------------------------------------------------------
(* A call of scheduling().                                                 *)
LEMMA SchedulingKStack ==
    ASSUME SInv, Booted, Scheduling, KStackInv, ~k.fault
    PROVE  KStackInv'
<1>1. /\ current' \in Threads /\ k.state[current'] = "READY" /\ KInv(k')
      /\ k'.state = k.state
  BY SchedulingStep
<1> SUFFICES ASSUME ~k'.fault PROVE Exact(k')
  BY <1>1 DEF KStackInv, Exact, Runs
<1>2. \/ k' = k
      \/ k.kentry[current'] = 0 /\ k' = alloc_kstack(k, current')
  BY SchedulingStep
<1>3. KInv(k) /\ k \in KType /\ k' \in KType /\ Exact(k)
  BY <1>1 DEF SInv, TypeOK, KInv, KStackInv
<1>4. CASE k' = k
  BY <1>1, <1>3, <1>4
<1>5. CASE k.kentry[current'] = 0 /\ k' = alloc_kstack(k, current')
  <2>1. Allocated(k, current', k')
    BY <1>1, <1>3, <1>5, AllocKernel
  <2>2. PICK i \in KStacks \ k.kflag : /\ k'.kentry = [k.kentry EXCEPT ![current'] = i]
                                       /\ k'.kflag = k.kflag \cup {i}
    BY <2>1 DEF Allocated
  <2>3. Exact(k')
    BY <1>1, <1>3, <1>5, <2>2, AllocExact
  <2> QED
    BY <1>1, <2>3
<1> QED
  BY <1>2, <1>4, <1>5

(* A step of the kernel that neither switches threads nor finishes one.    *)
LEMMA QuietKStack ==
    ASSUME SInv, KStackInv, ~k.fault, current' = current, KInv(k'),
           k'.kentry = k.kentry, k'.kflag = k.kflag, NEW t \in Threads,
           NEW st, k'.state = [k.state EXCEPT ![t] = st],
           \/ st = k.state[t]
           \/ {st, k.state[t]} \subseteq {"READY", "SUSPENDED"}
    PROVE  KStackInv'
<1>1. /\ k \in KType /\ k' \in KType /\ Exact(k) /\ current \in Threads
      /\ k.state \in [Threads -> States]
  BY DEF SInv, TypeOK, KInv, KStackInv, KType
<1>2. \A u \in Threads : k'.state[u] \in {"READY", "SUSPENDED"}
                           <=> k.state[u] \in {"READY", "SUSPENDED"}
  BY <1>1
<1>3. Exact(k')
  BY <1>1, <1>2, SameExact
<1>4. /\ k'.state[current] # "FREE"
      /\ k'.state[current] = "FINISHED" => k.state[current] = "FINISHED"
  BY <1>1 DEF KStackInv
<1> QED
  BY <1>3, <1>4 DEF KStackInv, Exact, Runs

(* Every step keeps the invariant: one step of the proof per action.       *)
LEMMA NextKStack ==
    ASSUME DeleteStates \subseteq {"READY", "SUSPENDED"},
           SInv, KStackInv, [Next]_vars
    PROVE  KStackInv'
<1>0. /\ KInv(k) /\ k \in KType /\ k.state \in [Threads -> States]
      /\ k.kentry \in [Threads -> KStacks \cup {0}]
      /\ current \in Threads /\ idle \in Threads /\ Boot \in Threads
  BY BootAssumption DEF SInv, TypeOK, KInv, KType
<1>1. CASE UNCHANGED <<k, current>>
  BY <1>1 DEF KStackInv, Exact, Runs
<1>2. CASE Suspend
  <2>1. k' = suspend_thread(k, current) /\ current' = current /\ ~k.fault
    BY <1>2 DEF Suspend, KernelStep, Free, InKernel
  <2>2. /\ KInv(k') /\ k'.prio = k.prio /\ k'.kentry = k.kentry /\ k'.kflag = k.kflag
        /\ k'.state = [k.state EXCEPT ![current] = IF @ = "FINISHED" THEN @
                                                   ELSE "SUSPENDED"]
    BY <1>0, <2>1, SuspendKernel
  <2>3. k.state[current] \in {"FINISHED", "READY", "SUSPENDED"}
    BY <1>0 DEF KStackInv, States
  <2>4. PICK st : st = IF k.state[current] = "FINISHED" THEN "FINISHED" ELSE "SUSPENDED"
    OBVIOUS
  <2>5. k'.state = [k.state EXCEPT ![current] = st]
    BY <1>0, <2>2, <2>4
  <2>6. st = k.state[current] \/ {st, k.state[current]} \subseteq {"READY", "SUSPENDED"}
    BY <2>3, <2>4
  <2> QED
    BY <1>0, <2>1, <2>2, <2>5, <2>6, QuietKStack
<1>3. CASE Finish
  <2>1. /\ k' = finish_thread(k, current) /\ current' = current /\ ~k.fault
    BY <1>3 DEF Finish, KernelStep, Free, InKernel
  <2>2. /\ KInv(k') /\ k'.kentry = k.kentry
        /\ k'.state = [k.state EXCEPT ![current] = "FINISHED"] /\ Freed(k, current, k')
    BY <1>0, <2>1, FinishKernel
  <2>3. /\ k' \in KType /\ Exact(k) /\ k.state[current] # "FREE"
        /\ k.state[current] = "FINISHED" => k.kentry[current] \notin k.kflag
        /\ k'.state[current] = "FINISHED"
        /\ \A u \in Threads \ {current} : k'.state[u] = k.state[u]
    BY <1>0, <2>1, <2>2 DEF KInv, KStackInv
  <2>4. CASE k.kentry[current] = 0
    BY <2>1, <2>2, <2>3, <2>4 DEF Freed, KStackInv
  <2>5. CASE k.kentry[current] # 0
    <3>1. Runs(k, current) \/ k.kentry[current] \notin k.kflag
      BY <1>0, <2>3, <2>5 DEF Runs, States
    <3>2. ~Runs(k', current) /\ k'.kflag = k.kflag \ {k.kentry[current]}
      BY <2>2, <2>3, <2>5 DEF Runs, Freed
    <3>3. Exact(k')
      BY <1>0, <2>2, <2>3, <2>5, <3>1, <3>2, FinishExact
    <3> QED
      BY <2>1, <2>2, <2>3, <3>2, <3>3 DEF KStackInv, Exact, Runs
  <2> QED
    BY <2>4, <2>5
<1>4. CASE pthread_yield_sys
  <2>1. /\ k' = yield_thread(k, current) /\ current' = current /\ ~k.fault
        /\ current \in Ready(k)
    BY <1>4, SyscallReady
    DEF pthread_yield_sys, KernelStep, InSyscall, Free, InKernel, Ready
  <2>2. KInv(k') /\ k'.state = k.state /\ k'.kentry = k.kentry /\ k'.kflag = k.kflag
    BY <1>0, <2>1, YieldKernel
  <2>3. k'.state = [k.state EXCEPT ![current] = k.state[current]]
    BY <1>0, <2>2
  <2> QED
    BY <1>0, <2>1, <2>2, <2>3, QuietKStack
<1>5. CASE CallScheduling
  BY <1>5, SchedulingKStack DEF CallScheduling, InKernel, SInv, Booting
<1>6. CASE IrqExit
  <2>1. CASE pend
    BY <1>6, <2>1, SchedulingKStack DEF IrqExit, SInv, Booting
  <2>2. CASE ~pend
    BY <1>1, <1>6, <2>2 DEF IrqExit
  <2> QED
    BY <2>1, <2>2
<1>7. ASSUME NEW t \in Threads, CreateIdle(t) PROVE KStackInv'
  <2>1. /\ Booting /\ t # Boot /\ KInv(k') /\ current' = t
        /\ k'.state = [k.state EXCEPT ![t] = "READY", ![Boot] = "FINISHED"]
    BY <1>7, CreateIdleStep DEF CreateIdle
  <2>2. ~k'.fault => \E i \in KStacks \ {1} :
                        k'.kentry = [k.kentry EXCEPT ![t] = i] /\ k'.kflag = {i}
    BY <1>7, CreateIdleStep
  <2>3. /\ k'.state[t] = "READY"
        /\ \A u \in Threads \ {t} : k'.state[u] \notin {"READY", "SUSPENDED"}
    BY <1>0, <1>7, <2>1 DEF Booting
  <2>4. ASSUME ~k'.fault PROVE Exact(k')
    <3>1. PICK i \in KStacks \ {1} : k'.kentry = [k.kentry EXCEPT ![t] = i] /\ k'.kflag = {i}
      BY <2>2, <2>4
    <3>2. k'.kentry[t] = i /\ i # 0
      BY <1>0, <1>7, <3>1, KStackAssumption DEF KStacks
    <3>3. \A u \in Threads : Runs(k', u) <=> u = t
      BY <1>7, <2>3, <3>2 DEF Runs
    <3> QED
      BY <1>7, <3>1, <3>2, <3>3 DEF Exact
  <2> QED
    BY <2>1, <2>3, <2>4 DEF KStackInv, Exact, Runs
<1>8. ASSUME NEW t \in Threads, Activate(t) \/ IrqWake(t) PROVE KStackInv'
  <2>1. /\ k' = activate_thread(k, t) /\ current' = current /\ ~k.fault
        /\ k.state[t] # "FREE"
    BY <1>8 DEF Activate, IrqWake, KernelStep, InKernel
  <2>2. /\ KInv(k') /\ k'.prio = k.prio /\ k'.kentry = k.kentry /\ k'.kflag = k.kflag
        /\ k'.state = [k.state EXCEPT ![t] = IF @ \in {"FINISHED", "READY"} THEN @
                                             ELSE "READY"]
    BY <1>0, <1>8, <2>1, ActivateKernel
  <2>3. k.state[t] \in {"FINISHED", "READY", "SUSPENDED"}
    BY <1>0, <1>8, <2>1 DEF States
  <2>4. PICK st : st = IF k.state[t] = "FINISHED" THEN "FINISHED" ELSE "READY"
    OBVIOUS
  <2>5. k'.state = [k.state EXCEPT ![t] = st]
    BY <1>0, <1>8, <2>2, <2>4
  <2>6. st = k.state[t] \/ {st, k.state[t]} \subseteq {"READY", "SUSPENDED"}
    BY <2>3, <2>4
  <2> QED
    BY <1>0, <1>8, <2>1, <2>2, <2>5, <2>6, QuietKStack
<1>9. ASSUME NEW t \in Threads, Delete(t) PROVE KStackInv'
  <2>1. /\ k' = delete_pthread_struct(k, t) /\ current' = current /\ ~k.fault
        /\ k.state[t] = "FINISHED" /\ k.state[current] = "READY"
    BY <1>9, SyscallReady DEF Delete, Forget, InSyscall, Free, InKernel
  <2>2. /\ KInv(k') /\ k'.kentry = k.kentry /\ k'.kflag = k.kflag
        /\ k'.state = [k.state EXCEPT ![t] = "FREE"]
    BY <1>0, <1>9, <2>1, DeleteKernel
  <2>3. /\ k' \in KType /\ Exact(k) /\ ~Runs(k, t) /\ ~Runs(k', t)
        /\ \A u \in Threads \ {t} : k'.state[u] = k.state[u] /\ k'.kentry[u] = k.kentry[u]
    BY <1>0, <1>9, <2>1, <2>2 DEF KInv, KStackInv, Runs
  <2>4. Exact(k')
    BY <1>0, <1>9, <2>2, <2>3, StacklessExact
  <2> QED
    BY <1>0, <2>1, <2>2, <2>3, <2>4 DEF KStackInv, Exact, Runs
<1>10. ASSUME NEW t \in Threads, pthread_delete_np_sys(t) PROVE KStackInv'
  <2>1. PICK kf : kf = finish_thread(k, t)
    OBVIOUS
  <2>2. /\ k' = delete_pthread_struct(kf, t) /\ current' = current /\ ~k.fault
        /\ k.state[t] \in {"READY", "SUSPENDED"} /\ k.state[current] = "READY"
        /\ t # current
    BY <1>10, <2>1, SyscallReady DEF pthread_delete_np_sys, Forget, InSyscall, Free, InKernel
  <2>3. /\ KInv(kf) /\ kf.kentry = k.kentry
        /\ kf.state = [k.state EXCEPT ![t] = "FINISHED"] /\ Freed(k, t, kf)
    BY <1>0, <1>10, <2>1, FinishKernel
  <2>4. kf \in KType
    BY <2>3 DEF KInv
  <2>5. /\ KInv(k') /\ k'.kentry = kf.kentry /\ k'.kflag = kf.kflag /\ k'.fault = kf.fault
        /\ k'.state = [kf.state EXCEPT ![t] = "FREE"]
    BY <1>10, <2>2, <2>3, <2>4, DeleteKernel
  <2>6. /\ k' \in KType /\ Exact(k) /\ ~Runs(k', t) /\ k'.kentry = k.kentry
        /\ \A u \in Threads \ {t} : k'.state[u] = k.state[u]
    BY <1>0, <1>10, <2>2, <2>3, <2>5 DEF KInv, KStackInv, Runs
  <2>7. CASE k.kentry[t] = 0
    <3>1. k'.fault
      BY <2>3, <2>5, <2>7 DEF Freed
    <3> QED
      BY <1>0, <2>2, <2>6, <3>1 DEF KStackInv
  <2>8. CASE k.kentry[t] # 0
    <3>1. Runs(k, t)
      BY <2>2, <2>8 DEF Runs
    <3>2. k'.kflag = k.kflag \ {k.kentry[t]}
      BY <2>3, <2>5, <2>8 DEF Freed
    <3>3. Exact(k')
      BY <1>0, <1>10, <2>6, <2>8, <3>1, <3>2, FinishExact
    <3> QED
      BY <1>0, <2>2, <2>6, <3>3 DEF KStackInv, Exact, Runs
  <2> QED
    BY <2>7, <2>8
<1>11. ASSUME NEW t \in Threads, NEW p \in Params, Create(t, p) PROVE KStackInv'
  <2>1. PICK k1 : k1 = create_pthread_struct(k, t, p)
    OBVIOUS
  <2>2. /\ k.state[t] = "FREE" /\ current' = current /\ ~k.fault
        /\ k' = activate_thread(k1, t) \/ k' = k1
        /\ k.state[current] = "READY"
    BY <1>11, <2>1, SyscallReady DEF Create, KernelStep, InSyscall, Free, InKernel
  <2>3. p \in Nat /\ t \in Threads \ Ready(k)
    BY <1>11, <2>2, ParamAssumption DEF Ready
  <2>4. KInv(k1) /\ Created(k, t, p, k1)
    BY <1>0, <2>1, <2>3, CreateKernel
  <2>5. k1 \in KType
    BY <2>4 DEF KInv
  <2>6. /\ k1.state = [k.state EXCEPT ![t] = "SUSPENDED"]
        /\ k1.kentry = [k.kentry EXCEPT ![t] = 0] /\ k1.kflag = k.kflag
    BY <2>4 DEF Created
  <2>7. /\ KInv(k') /\ k'.kentry = k1.kentry /\ k'.kflag = k1.kflag
        /\ k'.state = [k1.state EXCEPT ![t] = k'.state[t]]
    <3>1. CASE k' = activate_thread(k1, t)
      <4>1. /\ KInv(k') /\ k'.prio = k1.prio /\ k'.kentry = k1.kentry /\ k'.kflag = k1.kflag
            /\ k'.state = [k1.state EXCEPT ![t] = IF @ \in {"FINISHED", "READY"}
                                                  THEN @ ELSE "READY"]
        BY <1>11, <2>4, <2>5, <3>1, ActivateKernel
      <4> QED
        BY <1>11, <2>5, <4>1 DEF KType
    <3>2. CASE k' = k1
      BY <1>11, <2>4, <2>5, <3>2 DEF KType
    <3> QED
      BY <2>2, <3>1, <3>2
  <2>8. /\ k' \in KType /\ Exact(k) /\ ~Runs(k, t) /\ ~Runs(k', t)
        /\ \A u \in Threads \ {t} : k'.state[u] = k.state[u] /\ k'.kentry[u] = k.kentry[u]
    BY <1>0, <1>11, <2>2, <2>6, <2>7 DEF KInv, KStackInv, Runs
  <2>9. Exact(k') /\ t # current
    BY <1>0, <1>11, <2>2, <2>6, <2>7, <2>8, StacklessExact
  <2> QED
    BY <1>0, <2>2, <2>8, <2>9 DEF KStackInv, Exact, Runs
<1>12. ASSUME NEW t \in Threads, NEW p \in Params, SetPrio(t, p) PROVE KStackInv'
  <2>1. k' = change_thread_prio(k, t, p) /\ current' = current /\ p \in Nat /\ ~k.fault
    BY <1>12, ParamAssumption DEF SetPrio, KernelStep, InSyscall, Free, InKernel
  <2>2. KInv(k') /\ k'.state = k.state /\ k'.kentry = k.kentry /\ k'.kflag = k.kflag
    <3>1. KInv(k') /\ Reprioritised(k, t, p, k')
      BY <1>0, <1>12, <2>1, ChangePrioKernel
    <3> QED
      BY <3>1 DEF Reprioritised
  <2>3. k'.state = [k.state EXCEPT ![t] = k.state[t]]
    BY <1>0, <2>2
  <2> QED
    BY <1>0, <1>12, <2>1, <2>2, <2>3, QuietKStack
<1>13. CASE SyscallEnter \/ SyscallReturn \/ IrqEnter \/ IrqReturn \/ UNCHANGED vars
  BY <1>1, <1>13 DEF SyscallEnter, SyscallReturn, IrqEnter, IrqReturn, vars
<1> QED
  BY <1>2, <1>3, <1>4, <1>5, <1>6, <1>7, <1>8, <1>9, <1>10, <1>11, <1>12, <1>13
  DEF Next, CurrentStep, ThreadStep

(* As long as the application deletes only threads that have not finished, *)
(* kstack_flag marks exactly the kernel stacks in use and no two live      *)
(* threads share one.                                                      *)
THEOREM KStacksExact ==
    ASSUME DeleteStates \subseteq {"READY", "SUSPENDED"}
    PROVE  Spec => []KStackExact
<1>1. Init => KStackInv
  <2> SUFFICES ASSUME Init PROVE KStackInv
    OBVIOUS
  <2>1. /\ current = Boot /\ Boot \in Threads /\ k.kflag = {1}
        /\ \A t \in Threads : k.state[t] = IF t = Boot THEN "SUSPENDED" ELSE "FREE"
        /\ \A t \in Threads : k.kentry[t] = IF t = Boot THEN 1 ELSE 0
    BY BootAssumption DEF Init
  <2>2. \A t \in Threads : Runs(k, t) <=> t = Boot
    BY <2>1 DEF Runs
  <2> QED
    BY <2>1, <2>2 DEF KStackInv, Exact
<1>2. SInv /\ KStackInv /\ [Next]_vars => KStackInv'
  BY NextKStack
<1>3. SInv /\ KStackInv => KStackExact
  <2> SUFFICES ASSUME SInv, KStackInv, ~k.fault
               PROVE  /\ k.kflag = {k.kentry[t] : t \in {u \in Threads : Running(u)}}
                      /\ \A t, u \in Threads :
                           Running(t) /\ Running(u) /\ k.kentry[t] = k.kentry[u] => t = u
    BY DEF KStackExact
  <2>1. \A t \in Threads : Running(t) <=> Runs(k, t)
    BY DEF Running, Runs
  <2>2. /\ k.kflag \subseteq KStacks
        /\ \A t \in Threads : Runs(k, t) => k.kentry[t] \in KStacks
    BY DEF SInv, TypeOK, KType, Runs
  <2>3. Exact(k)
    BY DEF KStackInv
  <2>4. \A i : i \in k.kflag <=> \E t \in Threads : Runs(k, t) /\ k.kentry[t] = i
    BY <2>2, <2>3 DEF Exact
  <2> QED
    BY <2>1, <2>3, <2>4 DEF Exact
<1> QED
  BY <1>1, <1>2, <1>3, SchedInv, PTL DEF Spec

-----------------------------------------------------------------------------
(* The refinement of ReadyQueue.  The walk along each list is part of the  *)
(* invariant: what following the links meets is known from the operations  *)
(* that built the list.                                                    *)

(* w is what following next_matrix from the head of list s meets: each     *)
(* thread of S whose place is s, once.                                     *)
Walk(q, S, s, w) ==
    /\ w \in Seq(Threads)
    /\ \A u \in Threads : (\E i \in 1 .. Len(w) : w[i] = u) <=> u \in S /\ q.pos[u] = s
    /\ \A i, j \in 1 .. Len(w) : w[i] = w[j] => i = j
    /\ q.head[s] = IF Len(w) = 0 THEN NULL ELSE w[1]
    /\ \A i \in 1 .. Len(w) : q.next[w[i]] = IF i = Len(w) THEN NULL ELSE w[i + 1]

(* Induction, for a set of numbers.                                        *)
LEMMA Induct ==
    ASSUME NEW T \in SUBSET Nat, 0 \in T, \A n \in Nat : n \in T => n + 1 \in T
    PROVE  T = Nat
<1> SUFFICES ASSUME Nat \ T # {} PROVE FALSE
  OBVIOUS
<1>1. PICK n \in Nat \ T : \A m \in Nat \ T : n <= m
  BY LeastElement
<1>2. n - 1 \in Nat /\ n - 1 \in T
  BY <1>1
<1> QED
  BY <1>1, <1>2

(* A walk is no longer than there are threads.                             *)
LEMMA WalkBound ==
    ASSUME NEW q, NEW S, NEW s, NEW w, Walk(q, S, s, w)
    PROVE  Cardinality(Threads) \in Nat /\ Len(w) \in Nat /\ Len(w) <= Cardinality(Threads)
<1>1. /\ Len(w) \in Nat /\ w \in [1 .. Len(w) -> Threads]
      /\ \A i, j \in 1 .. Len(w) : w[i] = w[j] => i = j
  BY DEF Walk
<1>2. w \in Injection(1 .. Len(w), Threads)
  BY <1>1 DEF Injection, IsInjective
<1>3. Cardinality(1 .. Len(w)) <= Cardinality(Threads)
  BY <1>2, FS_Injection, FiniteAssumption
<1>4. Cardinality(1 .. Len(w)) = Len(w)
  BY <1>1, FS_Interval
<1>5. Cardinality(Threads) \in Nat
  BY FS_CardinalityType, FiniteAssumption
<1> QED
  BY <1>1, <1>3, <1>4, <1>5

(* ListOf finds the walk.                                                  *)
LEMMA WalkList ==
    ASSUME NEW q, NEW S, NEW s, NEW w, Walk(q, S, s, w)
    PROVE  ListOf(q, s) = w
<1> DEFINE N == Cardinality(Threads)
           L == Len(w)
           Step(g) == [n \in 0 .. N |->
                          IF n = 0 THEN q.head[s]
                          ELSE IF g[n - 1] = NULL THEN NULL ELSE q.next[g[n - 1]]]
           node == CHOOSE g : g = Step(g)
           Ends(n) == /\ \A m \in 0 .. n - 1 : node[m] # NULL
                      /\ n = N + 1 \/ node[n] = NULL
           len == CHOOSE n \in 0 .. N + 1 : Ends(n)
           v == [n \in 0 .. N |-> IF n < L THEN w[n + 1] ELSE NULL]
<1>1. ListOf(q, s) = [n \in 1 .. len |-> node[n - 1]]
  BY DEF ListOf
<1>2. N \in Nat /\ L \in Nat /\ L <= N
  BY WalkBound
<1>3. \A i \in 1 .. L : w[i] \in Threads /\ w[i] # NULL
  BY NullAssumption DEF Walk
<1>3a. w \in [1 .. L -> Threads]
  BY DEF Walk
<1>3b. /\ q.head[s] = IF L = 0 THEN NULL ELSE w[1]
       /\ \A i \in 1 .. L : q.next[w[i]] = IF i = L THEN NULL ELSE w[i + 1]
  BY DEF Walk
<1> HIDE DEF N, L
<1>4. \A i \in 0 .. N : v[i] = Step(v)[i]
  <2> SUFFICES ASSUME NEW i \in 0 .. N PROVE v[i] = Step(v)[i]
    OBVIOUS
  <2>1. CASE i = 0
    BY <1>2, <1>3b, <2>1
  <2>2. CASE i # 0 /\ i <= L
    <3>1. i \in 1 .. L /\ i - 1 \in 0 .. N /\ v[i - 1] = w[i]
      BY <1>2, <2>2
    <3>2. Step(v)[i] = q.next[w[i]]
      BY <1>3, <2>2, <3>1
    <3> QED
      BY <1>2, <1>3b, <2>2, <3>1, <3>2
  <2>3. CASE i # 0 /\ ~(i <= L)
    BY <1>2, <2>3
  <2> QED
    BY <2>1, <2>2, <2>3
<1>5. v = Step(v)
  BY <1>4
<1>6. node = Step(node)
  <2> HIDE DEF Step, v
  <2> QED
    BY <1>5
<1>7. \A i \in 0 .. N : node[i] = v[i]
  <2> DEFINE T == {i \in Nat : i \in 0 .. N => node[i] = v[i]}
  <2> HIDE DEF node, v
  <2>1. node[0] = v[0]
    BY <1>2, <1>5, <1>6
  <2>2. ASSUME NEW i \in Nat, i \in T PROVE i + 1 \in T
    <3> SUFFICES ASSUME i + 1 \in 0 .. N PROVE node[i + 1] = v[i + 1]
      OBVIOUS
    <3>1. i \in 0 .. N /\ node[i] = v[i]
      BY <1>2, <2>2
    <3>2. Step(node)[i + 1] = (IF node[i] = NULL THEN NULL ELSE q.next[node[i]])
      BY <1>2
    <3>3. Step(v)[i + 1] = (IF v[i] = NULL THEN NULL ELSE q.next[v[i]])
      BY <1>2
    <3> QED
      BY <1>5, <1>6, <3>1, <3>2, <3>3
  <2>3. 0 \in T
    BY <2>1
  <2>4. T = Nat
    <3> HIDE DEF T
    <3>1. T \in SUBSET Nat
      BY DEF T
    <3> QED
      BY <2>2, <2>3, <3>1, Induct
  <2> QED
    BY <1>2, <2>4
<1>8. \A i \in 0 .. N : (node[i] = NULL) <=> ~(i < L)
  <2> HIDE DEF node
  <2> QED
    BY <1>2, <1>3, <1>7
<1> HIDE DEF node
<1>9. L \in 0 .. N + 1 /\ Ends(L)
  BY <1>2, <1>8
<1>10. ASSUME NEW n \in 0 .. N + 1, Ends(n) PROVE n = L
  <2>1. CASE n < L
    BY <1>2, <1>8, <1>10, <2>1
  <2>2. CASE n > L
    <3>1. L \in 0 .. n - 1 /\ L \in 0 .. N
      BY <1>2, <2>2
    <3> QED
      BY <1>8, <1>10, <3>1
  <2> QED
    BY <1>2, <2>1, <2>2
<1>11. len = L
  <2> HIDE DEF Ends
  <2> QED
    BY <1>9, <1>10
<1> HIDE DEF len
<1>12. \A i \in 1 .. L : node[i - 1] = w[i]
  BY <1>2, <1>7
<1>13. [n \in 1 .. L |-> node[n - 1]] = w
  BY <1>3a, <1>12
<1> QED
  BY <1>1, <1>11, <1>13

(* Another structure with the same links and members in list s has the     *)
(* same walk.                                                              *)
LEMMA SameWalk ==
    ASSUME NEW q, NEW r, NEW S, NEW R, NEW s, NEW w, Walk(q, S, s, w),
           r.head[s] = q.head[s],
           \A u \in Threads : u \in R /\ r.pos[u] = s <=> u \in S /\ q.pos[u] = s,
           \A u \in Threads : u \in S /\ q.pos[u] = s => r.next[u] = q.next[u]
    PROVE  Walk(r, R, s, w)
<1>1. \A i \in 1 .. Len(w) : w[i] \in Threads /\ w[i] \in S /\ q.pos[w[i]] = s
  BY DEF Walk
<1>2. \A u \in Threads : (\E i \in 1 .. Len(w) : w[i] = u) <=> u \in R /\ r.pos[u] = s
  BY DEF Walk
<1>3. \A i \in 1 .. Len(w) : r.next[w[i]] = IF i = Len(w) THEN NULL ELSE w[i + 1]
  BY <1>1 DEF Walk
<1> QED
  BY <1>2, <1>3 DEF Walk

(* Insertion at the head puts the thread in front of its walk.             *)
LEMMA InsertWalk ==
    ASSUME NEW q, NEW r, NEW S \in SUBSET Threads, NEW s \in Slots, NEW t \in Threads \ S,
           InsertedLinks(q, t, s, r), NEW w, Walk(q, S, s, w)
    PROVE  Walk(r, S \cup {t}, s, <<t>> \o w)
<1> DEFINE z == <<t>> \o w
           L == Len(w)
<1>1. w \in Seq(Threads) /\ L \in Nat /\ \A i \in 1 .. L : w[i] \in Threads /\ w[i] \in S /\ w[i] # t
  BY DEF Walk
<1>2. z \in Seq(Threads) /\ Len(z) = L + 1
  BY <1>1
<1>3. z[1] = t /\ \A i \in 1 .. L : z[i + 1] = w[i]
  BY <1>1
<1>4. /\ \A u \in Threads : (\E i \in 1 .. L : w[i] = u) <=> u \in S /\ q.pos[u] = s
      /\ \A i, j \in 1 .. L : w[i] = w[j] => i = j
      /\ q.head[s] = IF L = 0 THEN NULL ELSE w[1]
      /\ \A i \in 1 .. L : q.next[w[i]] = IF i = L THEN NULL ELSE w[i + 1]
  BY DEF Walk
<1> HIDE DEF z, L
<1>5. \A i \in 1 .. L + 1 : i # 1 => i - 1 \in 1 .. L /\ z[i] = w[i - 1]
  <2> SUFFICES ASSUME NEW i \in 1 .. L + 1, i # 1 PROVE i - 1 \in 1 .. L /\ z[i] = w[i - 1]
    OBVIOUS
  <2>1. i - 1 \in 1 .. L
    BY <1>1
  <2> QED
    BY <1>1, <1>3, <2>1
<1>6. \A i, j \in 1 .. L + 1 : z[i] = z[j] => i = j
  <2> SUFFICES ASSUME NEW i \in 1 .. L + 1, NEW j \in 1 .. L + 1, z[i] = z[j] PROVE i = j
    OBVIOUS
  <2>1. CASE i = 1 \/ j = 1
    BY <2>1, <1>1, <1>3, <1>5
  <2>2. CASE i # 1 /\ j # 1
    <3>1. i - 1 = j - 1
      BY <2>2, <1>4, <1>5
    <3> QED
      BY <3>1
  <2> QED
    BY <2>1, <2>2
<1>7. ASSUME NEW u \in Threads
      PROVE  (\E i \in 1 .. L + 1 : z[i] = u) <=> u \in S \cup {t} /\ r.pos[u] = s
  <2>1. CASE u = t
    <3>1. r.pos[t] = s /\ 1 \in 1 .. L + 1
      BY <1>1 DEF InsertedLinks
    <3> QED
      BY <2>1, <3>1, <1>3
  <2>2. CASE u # t
    <3>1. r.pos[u] = q.pos[u]
      BY <2>2 DEF InsertedLinks
    <3>2. ASSUME NEW i \in 1 .. L + 1, z[i] = u PROVE u \in S /\ q.pos[u] = s
      BY <2>2, <3>2, <1>3, <1>4, <1>5
    <3>3. ASSUME NEW i \in 1 .. L, w[i] = u PROVE \E j \in 1 .. L + 1 : z[j] = u
      <4>1. i + 1 \in 1 .. L + 1
        BY <1>1
      <4> QED
        BY <4>1, <3>3, <1>3
    <3> QED
      BY <2>2, <3>1, <3>2, <3>3, <1>4
  <2> QED
    BY <2>1, <2>2
<1>8. r.head[s] = z[1]
  BY <1>3 DEF InsertedLinks
<1>9. ASSUME NEW i \in 1 .. L + 1
      PROVE  r.next[z[i]] = IF i = L + 1 THEN NULL ELSE z[i + 1]
  <2>1. CASE i = 1
    <3>1. r.next[z[i]] = q.head[s]
      BY <2>1, <1>3 DEF InsertedLinks
    <3>2. CASE L = 0
      BY <2>1, <3>1, <3>2, <1>4
    <3>3. CASE L # 0
      <4>1. 1 \in 1 .. L /\ z[2] = w[1] /\ i # L + 1
        BY <2>1, <3>3, <1>1, <1>3
      <4> QED
        BY <2>1, <3>1, <3>3, <4>1, <1>4
    <3> QED
      BY <3>2, <3>3
  <2>2. CASE i # 1
    <3>1. i - 1 \in 1 .. L /\ z[i] = w[i - 1]
      BY <2>2, <1>5
    <3>2. r.next[z[i]] = q.next[w[i - 1]]
      BY <3>1, <1>1 DEF InsertedLinks
    <3>3. q.next[w[i - 1]] = IF i - 1 = L THEN NULL ELSE w[i]
      BY <3>1, <1>4
    <3>4. i # L + 1 => z[i + 1] = w[i]
      BY <3>1, <1>1, <1>3
    <3> QED
      BY <3>2, <3>3, <3>4, <1>1
  <2> QED
    BY <2>1, <2>2
<1>10. Walk(r, S \cup {t}, s, z)
  <2>1. L + 1 # 0
    BY <1>1
  <2> QED
    BY <1>2, <1>6, <1>7, <1>8, <1>9, <2>1 DEF Walk
<1> QED
  BY <1>10 DEF z

(* Insertion at the tail puts the thread behind its walk.                  *)
LEMMA AppendWalk ==
    ASSUME NEW q, NEW r, NEW S \in SUBSET Threads, NEW s \in Slots, NEW t \in Threads \ S,
           NEW aux, AppendedLinks(q, t, s, aux, r),
           q.head[s] # NULL => aux \in S /\ q.pos[aux] = s /\ q.next[aux] = NULL,
           NEW w, Walk(q, S, s, w)
    PROVE  Walk(r, S \cup {t}, s, Append(w, t))
<1> DEFINE z == Append(w, t)
           L == Len(w)
<1>1. w \in Seq(Threads) /\ L \in Nat /\ \A i \in 1 .. L : w[i] \in Threads /\ w[i] \in S /\ w[i] # t
  BY DEF Walk
<1>2. z \in Seq(Threads) /\ Len(z) = L + 1
  BY <1>1
<1>3. z[L + 1] = t /\ \A i \in 1 .. L : z[i] = w[i]
  BY <1>1
<1>4. /\ \A u \in Threads : (\E i \in 1 .. L : w[i] = u) <=> u \in S /\ q.pos[u] = s
      /\ \A i, j \in 1 .. L : w[i] = w[j] => i = j
      /\ q.head[s] = IF L = 0 THEN NULL ELSE w[1]
      /\ \A i \in 1 .. L : q.next[w[i]] = IF i = L THEN NULL ELSE w[i + 1]
  BY DEF Walk
<1> HIDE DEF z, L
<1>5. L + 1 \in 1 .. L + 1 /\ \A i \in 1 .. L + 1 : i \in 1 .. L \/ i = L + 1
  BY <1>1
<1>6. \A i \in 1 .. L : i \in 1 .. L + 1 /\ i # L + 1
  BY <1>1
<1>7. \A i, j \in 1 .. L + 1 : z[i] = z[j] => i = j
  BY <1>1, <1>3, <1>4, <1>5
<1>8. ASSUME NEW u \in Threads
      PROVE  (\E i \in 1 .. L + 1 : z[i] = u) <=> u \in S \cup {t} /\ r.pos[u] = s
  <2>1. r.pos[u] = IF u = t THEN s ELSE q.pos[u]
    BY DEF AppendedLinks
  <2> QED
    BY <2>1, <1>1, <1>3, <1>4, <1>5, <1>6
<1>9. L # 0 => q.head[s] # NULL /\ L \in 1 .. L /\ 1 \in 1 .. L /\ aux = w[L]
  <2> SUFFICES ASSUME L # 0 PROVE q.head[s] # NULL /\ L \in 1 .. L /\ 1 \in 1 .. L /\ aux = w[L]
    OBVIOUS
  <2>1. L \in 1 .. L /\ 1 \in 1 .. L
    BY <1>1
  <2>2. q.head[s] # NULL
    BY <1>1, <1>4, <2>1, NullAssumption
  <2>3. PICK i \in 1 .. L : w[i] = aux
    BY <1>4, <2>2
  <2>4. ASSUME i # L PROVE FALSE
    <3>1. i + 1 \in 1 .. L
      BY <1>1, <2>4
    <3>2. w[i + 1] # NULL
      BY <1>1, <3>1, NullAssumption
    <3>3. q.next[w[i]] = w[i + 1]
      BY <1>4, <2>4
    <3>4. q.next[aux] = NULL
      BY <2>2
    <3> QED
      BY <2>3, <3>2, <3>3, <3>4
  <2> QED
    BY <2>1, <2>2, <2>3, <2>4
<1>10. r.head[s] = z[1]
  <2>1. CASE L = 0
    <3>1. q.head[s] = NULL /\ z[1] = t
      BY <2>1, <1>3, <1>4
    <3> QED
      BY <3>1 DEF AppendedLinks
  <2>2. CASE L # 0
    BY <2>2, <1>3, <1>4, <1>9 DEF AppendedLinks
  <2> QED
    BY <2>1, <2>2
<1>11. ASSUME NEW i \in 1 .. L + 1
       PROVE  r.next[z[i]] = IF i = L + 1 THEN NULL ELSE z[i + 1]
  <2>1. CASE i = L + 1
    BY <2>1, <1>3 DEF AppendedLinks
  <2>2. CASE i \in 1 .. L
    <3>0. L # 0 /\ i # L + 1 /\ z[i] = w[i]
      BY <2>2, <1>1, <1>3
    <3>1. CASE i = L
      BY <3>0, <3>1, <2>2, <1>1, <1>3, <1>9 DEF AppendedLinks
    <3>2. CASE i # L
      <4>1. i + 1 \in 1 .. L /\ w[i] # aux
        BY <3>0, <3>2, <2>2, <1>1, <1>4, <1>9
      <4>2. r.next[w[i]] = q.next[w[i]]
        BY <4>1, <2>2, <1>1 DEF AppendedLinks
      <4> QED
        BY <3>0, <3>2, <4>1, <4>2, <2>2, <1>3, <1>4
    <3> QED
      BY <3>1, <3>2
  <2> QED
    BY <2>1, <2>2, <1>5
<1>12. Walk(r, S \cup {t}, s, z)
  <2>1. L + 1 # 0
    BY <1>1
  <2> QED
    BY <1>2, <1>7, <1>8, <1>10, <1>11, <2>1 DEF Walk
<1> QED
  BY <1>12 DEF z

(* What is known of the predecessor of a member.                           *)
Before(q, S, t) ==
    /\ q.prev[t] = NULL => q.head[q.pos[t]] = t
    /\ q.prev[t] # NULL => /\ q.prev[t] \in S
                           /\ q.pos[q.prev[t]] = q.pos[t]
                           /\ q.next[q.prev[t]] = t

(* Removed takes one thread out of a walk.                                 *)
LEMMA RemovedAt ==
    ASSUME NEW w \in Seq(Threads), \A i, j \in 1 .. Len(w) : w[i] = w[j] => i = j,
           NEW n \in 1 .. Len(w)
    PROVE  /\ RQ!Removed(w, w[n]) \in Seq(Threads)
           /\ Len(RQ!Removed(w, w[n])) = Len(w) - 1
           /\ \A i \in 1 .. Len(w) - 1 : RQ!Removed(w, w[n])[i] = w[IF i < n THEN i ELSE i + 1]
<1> DEFINE m == CHOOSE i \in DOMAIN w : w[i] = w[n]
           z == [i \in 1 .. Len(w) - 1 |-> w[IF i < m THEN i ELSE i + 1]]
<1>1. Len(w) \in Nat /\ DOMAIN w = 1 .. Len(w) /\ \A i \in 1 .. Len(w) : w[i] \in Threads
  OBVIOUS
<1>2. RQ!Removed(w, w[n]) = z
  BY <1>1 DEF RQ!Removed
<1>3. m = n
  BY <1>1
<1> HIDE DEF m
<1>4. \A i \in 1 .. Len(w) - 1 : (IF i < m THEN i ELSE i + 1) \in 1 .. Len(w)
  BY <1>1, <1>3
<1>5. Len(w) - 1 \in Nat
  BY <1>1
<1>6. z \in Seq(Threads) /\ Len(z) = Len(w) - 1
  BY <1>1, <1>4, <1>5
<1> QED
  BY <1>2, <1>3, <1>6

(* Unlinking takes a member out of its walk.                               *)
LEMMA RemoveWalk ==
    ASSUME NEW q, NEW r, NEW S \in SUBSET Threads, NEW t \in S, q.pos[t] \in Slots,
           Before(q, S, t), RemovedLinks(q, t, r), NEW w, Walk(q, S, q.pos[t], w)
    PROVE  Walk(r, S \ {t}, q.pos[t], RQ!Removed(w, t))
<1> DEFINE z == RQ!Removed(w, t)
           L == Len(w)
           s == q.pos[t]
<1>1. w \in Seq(Threads) /\ L \in Nat /\ \A i \in 1 .. L : w[i] \in Threads /\ w[i] \in S
  BY DEF Walk
<1>2. /\ \A u \in Threads : (\E i \in 1 .. L : w[i] = u) <=> u \in S /\ q.pos[u] = s
      /\ \A i, j \in 1 .. L : w[i] = w[j] => i = j
      /\ q.head[s] = IF L = 0 THEN NULL ELSE w[1]
      /\ \A i \in 1 .. L : q.next[w[i]] = IF i = L THEN NULL ELSE w[i + 1]
  BY DEF Walk
<1>3. PICK n \in 1 .. L : w[n] = t
  BY <1>2
<1>4. /\ z \in Seq(Threads) /\ Len(z) = L - 1
      /\ \A i \in 1 .. L - 1 : z[i] = w[IF i < n THEN i ELSE i + 1]
  <2>1. /\ RQ!Removed(w, w[n]) \in Seq(Threads) /\ Len(RQ!Removed(w, w[n])) = Len(w) - 1
        /\ \A i \in 1 .. Len(w) - 1 : RQ!Removed(w, w[n])[i] = w[IF i < n THEN i ELSE i + 1]
    BY <1>1, <1>2, RemovedAt
  <2> QED
    BY <2>1, <1>3
<1> HIDE DEF z, L
<1>5. \A i \in 1 .. L - 1 : /\ i < n => i \in 1 .. L /\ z[i] = w[i] /\ i # n
                            /\ ~(i < n) => i + 1 \in 1 .. L /\ z[i] = w[i + 1] /\ i + 1 # n
  BY <1>1, <1>3, <1>4
<1>6. \A i, j \in 1 .. L - 1 : z[i] = z[j] => i = j
  <2> SUFFICES ASSUME NEW i \in 1 .. L - 1, NEW j \in 1 .. L - 1, z[i] = z[j] PROVE i = j
    OBVIOUS
  <2>1. (IF i < n THEN i ELSE i + 1) = (IF j < n THEN j ELSE j + 1)
    BY <1>2, <1>5
  <2> QED
    BY <2>1, <1>1, <1>3
<1>7. ASSUME NEW u \in Threads
      PROVE  (\E i \in 1 .. L - 1 : z[i] = u) <=> u \in S \ {t} /\ r.pos[u] = s
  <2>1. ASSUME NEW i \in 1 .. L - 1, z[i] = u PROVE u \in S \ {t} /\ r.pos[u] = s
    <3>1. PICK j \in 1 .. L : w[j] = u /\ j # n
      BY <1>5, <2>1
    <3>2. u \in S /\ q.pos[u] = s /\ u # t
      BY <3>1, <1>2, <1>3
    <3> QED
      BY <3>2 DEF RemovedLinks
  <2>2. ASSUME u \in S \ {t}, r.pos[u] = s PROVE \E i \in 1 .. L - 1 : z[i] = u
    <3>1. q.pos[u] = s
      BY <2>2 DEF RemovedLinks
    <3>2. PICK j \in 1 .. L : w[j] = u
      BY <3>1, <2>2, <1>2
    <3>3. j # n
      BY <3>2, <2>2, <1>3
    <3>4. CASE j < n
      <4>1. j \in 1 .. L - 1 /\ z[j] = u
        BY <3>2, <3>4, <1>1, <1>5
      <4> QED
        BY <4>1
    <3>5. CASE ~(j < n)
      <4>1. j - 1 \in 1 .. L - 1 /\ ~(j - 1 < n)
        BY <3>3, <3>5, <1>1
      <4>2. z[j - 1] = w[(j - 1) + 1]
        BY <4>1, <1>5
      <4> QED
        BY <4>1, <4>2, <3>2
    <3> QED
      BY <3>4, <3>5
  <2> QED
    BY <2>1, <2>2
<1>8. n = 1 => q.prev[t] = NULL
  <2> SUFFICES ASSUME n = 1, q.prev[t] # NULL PROVE FALSE
    OBVIOUS
  <2>1. PICK m \in 1 .. L : w[m] = q.prev[t]
    BY <1>2 DEF Before
  <2>2. q.next[w[m]] = w[n] /\ w[n] # NULL
    BY <2>1, <1>3, NullAssumption DEF Before
  <2>3. m # L /\ w[m + 1] = w[n] /\ m + 1 \in 1 .. L
    BY <2>2, <1>1, <1>2
  <2>4. m + 1 = n
    BY <2>3, <1>2
  <2> QED
    BY <2>4
<1>9. n # 1 => n - 1 \in 1 .. L /\ q.prev[t] = w[n - 1] /\ q.head[s] # t
  <2> SUFFICES ASSUME n # 1 PROVE n - 1 \in 1 .. L /\ q.prev[t] = w[n - 1] /\ q.head[s] # t
    OBVIOUS
  <2>0. 1 \in 1 .. L /\ L # 0
    BY <1>1
  <2>1. q.head[s] # t
    BY <1>2, <1>3, <2>0
  <2>2. q.prev[t] # NULL
    BY <2>1 DEF Before
  <2>3. PICK m \in 1 .. L : w[m] = q.prev[t]
    BY <1>2, <2>2 DEF Before
  <2>4. q.next[w[m]] = w[n] /\ w[n] # NULL
    BY <2>2, <2>3, <1>3, NullAssumption DEF Before
  <2>5. m # L /\ w[m + 1] = w[n] /\ m + 1 \in 1 .. L
    BY <2>4, <1>1, <1>2
  <2>6. m + 1 = n
    BY <2>5, <1>2
  <2>7. m = n - 1
    BY <2>6, <1>1
  <2> QED
    BY <2>1, <2>3, <2>7
<1>10. q.next[t] = IF n = L THEN NULL ELSE w[n + 1]
  BY <1>2, <1>3
<1>11. r.head[s] = IF L - 1 = 0 THEN NULL ELSE z[1]
  <2>1. CASE n = 1
    <3>1. q.head[s] = t
      BY <2>1, <1>1, <1>2, <1>3
    <3>2. r.head[s] = q.next[t]
      BY <3>1 DEF RemovedLinks
    <3>3. L - 1 # 0 => n # L /\ z[1] = w[n + 1]
      BY <2>1, <1>1, <1>5
    <3> QED
      BY <3>2, <3>3, <2>1, <1>10
  <2>2. CASE n # 1
    <3>1. r.head[s] = q.head[s]
      BY <2>2, <1>9 DEF RemovedLinks
    <3>2. L # 0 /\ L - 1 # 0 /\ 1 \in 1 .. L - 1 /\ 1 < n
      BY <2>2, <1>1
    <3> QED
      BY <3>1, <3>2, <1>2, <1>5
  <2> QED
    BY <2>1, <2>2
<1>12. ASSUME NEW i \in 1 .. L - 1
       PROVE  r.next[z[i]] = IF i = L - 1 THEN NULL ELSE z[i + 1]
  <2>0. i # L - 1 => i + 1 \in 1 .. L - 1
    BY <1>1
  <2>1. CASE i < n - 1
    <3>1. i \in 1 .. L /\ z[i] = w[i] /\ w[i] # t /\ w[i] # q.prev[t]
      BY <2>1, <1>1, <1>2, <1>3, <1>5, <1>9
    <3>2. r.next[w[i]] = q.next[w[i]]
      BY <3>1, <1>1 DEF RemovedLinks
    <3>3. i # L /\ i # L - 1 /\ z[i + 1] = w[i + 1]
      BY <2>0, <2>1, <1>1, <1>5
    <3> QED
      BY <3>1, <3>2, <3>3, <1>2
  <2>2. CASE i = n - 1
    <3>1. n # 1 /\ i \in 1 .. L /\ z[i] = w[i] /\ w[i] # t /\ w[i] = q.prev[t]
      BY <2>2, <1>1, <1>2, <1>3, <1>5, <1>9
    <3>2. r.next[w[i]] = q.next[t]
      BY <3>1, <1>1 DEF RemovedLinks
    <3>3. (i = L - 1 <=> n = L) /\ (i # L - 1 => z[i + 1] = w[n + 1])
      <4>1. i = L - 1 <=> n = L
        BY <2>2, <1>1
      <4>2. ASSUME i # L - 1 PROVE z[i + 1] = w[n + 1]
        <5>1. i + 1 \in 1 .. L - 1 /\ i + 1 = n /\ ~(i + 1 < n)
          BY <2>0, <2>2, <4>2, <1>1
        <5> QED
          BY <5>1, <1>5
      <4> QED
        BY <4>1, <4>2
    <3> QED
      BY <3>1, <3>2, <3>3, <1>10
  <2>3. CASE ~(i < n)
    <3>1. i + 1 \in 1 .. L /\ z[i] = w[i + 1] /\ i + 1 # n
      BY <2>3, <1>5
    <3>2. w[i + 1] # t /\ w[i + 1] # q.prev[t]
      <4>1. w[i + 1] # t
        BY <3>1, <1>2, <1>3
      <4>2. PICK j \in 1 .. L : j = i + 1
        BY <3>1
      <4>3. CASE n = 1
        <5>1. q.prev[t] = NULL /\ w[j] \in Threads
          BY <4>3, <1>1, <1>8
        <5> QED
          BY <4>1, <4>2, <5>1, NullAssumption
      <4>4. CASE n # 1
        <5>1. PICK m \in 1 .. L : m = n - 1 /\ q.prev[t] = w[m]
          BY <4>4, <1>9
        <5>2. j # m
          BY <4>2, <5>1, <2>3, <1>1
        <5>3. w[j] # w[m]
          BY <5>2, <1>2
        <5> QED
          BY <4>1, <4>2, <5>1, <5>3
      <4> QED
        BY <4>1, <4>3, <4>4
    <3>3. r.next[w[i + 1]] = q.next[w[i + 1]]
      BY <3>1, <3>2, <1>1 DEF RemovedLinks
    <3>4. q.next[w[i + 1]] = IF i + 1 = L THEN NULL ELSE w[(i + 1) + 1]
      BY <3>1, <1>2
    <3>5. i # L - 1 => z[i + 1] = w[(i + 1) + 1]
      <4> SUFFICES ASSUME i # L - 1 PROVE z[i + 1] = w[(i + 1) + 1]
        OBVIOUS
      <4>1. i + 1 \in 1 .. L - 1 /\ ~(i + 1 < n)
        BY <2>0, <2>3, <1>1
      <4> QED
        BY <4>1, <1>5
    <3>6. i = L - 1 <=> i + 1 = L
      BY <1>1
    <3> QED
      BY <3>1, <3>3, <3>4, <3>5, <3>6
  <2> QED
    BY <2>1, <2>2, <2>3
<1>13. Walk(r, S \ {t}, s, z)
  BY <1>4, <1>6, <1>7, <1>11, <1>12 DEF Walk
<1> QED
  BY <1>13 DEF z

(* Removed leaves a walk alone that the thread is not in.                  *)
LEMMA RemovedNone ==
    ASSUME NEW w \in Seq(Threads), NEW t, \A i \in 1 .. Len(w) : w[i] # t
    PROVE  RQ!Removed(w, t) = w
BY DEF RQ!Removed

-----------------------------------------------------------------------------
(* The lists of the matrix as the queues of ReadyQueue.                    *)

Walks(q, S) == \A s \in Slots : Walk(q, S, s, ListOf(q, s))

(* The queues without t.                                                   *)
Cut(Q, t) == [l \in 0 .. Levels - 1 |-> RQ!Removed(Q[l], t)]

(* The queue of a priority is the list at its place.                       *)
LEMMA PlaceLevel ==
    ASSUME NEW p \in Nat, NEW l \in 0 .. Levels - 1
    PROVE  prio2ij(l) \in Slots /\ (prio2ij(l) = prio2ij(p) <=> l = Level(p))
<1>1. l \in Nat /\ Levels \in Nat \ {0}
  BY LevelsNat
<1>2. prio2ij(l) \in Slots
  BY <1>1, Place
<1>3. Level(l) = l
  BY <1>1 DEF Level
<1>4. /\ Level(p) = (Width * prio2ij(p)[1]) + prio2ij(p)[2]
      /\ Level(l) = (Width * prio2ij(l)[1]) + prio2ij(l)[2]
  BY <1>1, Place
<1>5. ASSUME l = Level(p) PROVE prio2ij(l) = prio2ij(p)
  <2>1. (p % Levels) % Width = p % Width
    BY ModMod, LevelsNat, WidthAssumption DEF Levels
  <2>2. prio2ij(l) = <<Level(l) \div Width, l % Width>> /\ prio2ij(p) = <<Level(p) \div Width, p % Width>>
    BY DEF prio2ij
  <2>3. l % Width = p % Width
    BY <1>5, <2>1 DEF Level
  <2>4. Level(l) = Level(p)
    BY <1>3, <1>5
  <2> QED
    BY <2>2, <2>3, <2>4
<1>6. ASSUME prio2ij(l) = prio2ij(p) PROVE l = Level(p)
  BY <1>3, <1>4, <1>6
<1> QED
  BY <1>2, <1>5, <1>6

(* Threads outside the lists are in no queue.                              *)
LEMMA CutNone ==
    ASSUME NEW q, NEW S, Walks(q, S), NEW t, t \notin S
    PROVE  Cut(Queues(q), t) = Queues(q)
<1>1. ASSUME NEW l \in 0 .. Levels - 1
      PROVE  RQ!Removed(Queues(q)[l], t) = Queues(q)[l]
  <2>1. Queues(q)[l] = ListOf(q, prio2ij(l)) /\ prio2ij(l) \in Slots
    BY <1>1, PlaceLevel, LevelsNat DEF Queues
  <2>2. Walk(q, S, prio2ij(l), ListOf(q, prio2ij(l)))
    BY <2>1 DEF Walks
  <2> DEFINE w == ListOf(q, prio2ij(l))
  <2> HIDE DEF w
  <2>3. w \in Seq(Threads) /\ \A i \in 1 .. Len(w) : w[i] \in Threads /\ w[i] \in S
    BY <2>2 DEF Walk, w
  <2>4. \A i \in 1 .. Len(w) : w[i] # t
    BY <2>3
  <2>5. RQ!Removed(w, t) = w
    BY <2>3, <2>4, RemovedNone
  <2> QED
    BY <2>1, <2>5 DEF w
<1> QED
  BY <1>1 DEF Cut, Queues

(* When every walk of r is known, so are its queues.                       *)
LEMMA NewWalks ==
    ASSUME NEW r, NEW R, NEW W, \A s \in Slots : Walk(r, R, s, W[s])
    PROVE  Walks(r, R) /\ \A s \in Slots : ListOf(r, s) = W[s]
<1>1. \A s \in Slots : ListOf(r, s) = W[s]
  BY WalkList
<1> QED
  BY <1>1 DEF Walks

(* Structure r has the lists of q, but for list s.                         *)
OthersKept(q, r, R, s) == \A x \in Slots \ {s} : Walk(r, R, x, ListOf(q, x))

(* The queues of r are those of q, but for the one of level l.             *)
Replaced(q, r, l, w) == Queues(r) = [Queues(q) EXCEPT ![l] = w]

(* A list that grows by t, the others unchanged.                           *)
LEMMA GrownQueues ==
    ASSUME NEW q, NEW r, NEW p \in Nat, NEW S, NEW R, NEW w,
           Walks(q, S), Walk(r, R, prio2ij(p), w),
           OthersKept(q, r, R, prio2ij(p))
    PROVE  Walks(r, R) /\ Replaced(q, r, Level(p), w)
<1> DEFINE W == [s \in Slots |-> IF s = prio2ij(p) THEN w ELSE ListOf(q, s)]
<1>1. \A s \in Slots : Walk(r, R, s, W[s])
  <2> SUFFICES ASSUME NEW s \in Slots PROVE Walk(r, R, s, W[s])
    OBVIOUS
  <2>1. W[s] = IF s = prio2ij(p) THEN w ELSE ListOf(q, s)
    OBVIOUS
  <2> HIDE DEF W
  <2>2. CASE s = prio2ij(p)
    BY <2>1, <2>2
  <2>3. CASE s # prio2ij(p)
    <3>1. s \in Slots \ {prio2ij(p)} /\ W[s] = ListOf(q, s)
      BY <2>1, <2>3
    <3>2. Walk(r, R, s, ListOf(q, s))
      BY <3>1 DEF OthersKept
    <3> QED
      BY <3>1, <3>2
  <2> QED
    BY <2>2, <2>3
<1>2. Walks(r, R) /\ \A s \in Slots : ListOf(r, s) = W[s]
  <2> HIDE DEF W
  <2> QED
    BY <1>1, NewWalks
<1>3. ASSUME NEW l \in 0 .. Levels - 1
      PROVE  ListOf(r, prio2ij(l)) = IF l = Level(p) THEN w ELSE ListOf(q, prio2ij(l))
  <2>1. prio2ij(l) \in Slots /\ (prio2ij(l) = prio2ij(p) <=> l = Level(p))
    BY PlaceLevel
  <2> QED
    BY <1>2, <2>1
<1>4. Replaced(q, r, Level(p), w)
  BY <1>3 DEF Queues, Replaced
<1> QED
  BY <1>2, <1>4

(* The queues of r are those of q with t in front of, or behind, the one   *)
(* of level l.                                                             *)
InFront(q, r, t, l) == Queues(r) = [Queues(q) EXCEPT ![l] = <<t>> \o @]
Behind(q, r, t, l)  == Queues(r) = [Queues(q) EXCEPT ![l] = Append(@, t)]

(* insert_ss puts the thread in front of its queue.                         *)
LEMMA InsertQueues ==
    ASSUME NEW q \in StructType, NEW S \in SUBSET Threads, Walks(q, S),
           NEW t \in Threads \ S, NEW p \in Nat, NEW r, r = insert_ss(q, t, p)
    PROVE  /\ Walks(r, S \cup {t})
           /\ InFront(q, r, t, Level(p))
<1>0. PICK x \in Slots : x = prio2ij(p)
  BY Place
<1>1. InsertedLinks(q, t, x, r)
  BY <1>0, InsertFields
<1>2. PICK w : w = ListOf(q, x)
  OBVIOUS
<1>3. Walk(r, S \cup {t}, x, <<t>> \o w)
  <2>1. Walk(q, S, x, w)
    BY <1>2 DEF Walks
  <2> QED
    BY <1>1, <2>1, InsertWalk
<1>4. ASSUME NEW s \in Slots \ {x} PROVE Walk(r, S \cup {t}, s, ListOf(q, s))
  <2>1. PICK v : v = ListOf(q, s) /\ Walk(q, S, s, v)
    BY DEF Walks
  <2>2. r.head[s] = q.head[s]
    BY <1>1 DEF InsertedLinks
  <2>3. \A u \in Threads : u \in S \cup {t} /\ r.pos[u] = s <=> u \in S /\ q.pos[u] = s
    BY <1>1 DEF InsertedLinks
  <2>4. \A u \in Threads : u \in S /\ q.pos[u] = s => r.next[u] = q.next[u]
    BY <1>1 DEF InsertedLinks
  <2> QED
    BY <2>1, <2>2, <2>3, <2>4, SameWalk
<1>5. Walks(r, S \cup {t}) /\ Queues(r) = [Queues(q) EXCEPT ![Level(p)] = <<t>> \o w]
  <2>1. PICK R, z : R = S \cup {t} /\ z = <<t>> \o w
    OBVIOUS
  <2>2. Walk(r, R, prio2ij(p), z)
    BY <1>0, <1>3, <2>1
  <2>3. OthersKept(q, r, R, prio2ij(p))
    BY <1>0, <1>4, <2>1 DEF OthersKept
  <2>4. Walks(r, R) /\ Replaced(q, r, Level(p), z)
    BY <2>2, <2>3, GrownQueues
  <2> QED
    BY <2>1, <2>4 DEF Replaced
<1>6. Queues(q)[Level(p)] = w
  <2>1. Level(p) \in 0 .. Levels - 1
    BY Place
  <2>2. prio2ij(Level(p)) = prio2ij(p)
    BY <2>1, PlaceLevel
  <2> QED
    BY <1>0, <1>2, <2>1, <2>2 DEF Queues
<1> QED
  BY <1>5, <1>6 DEF InFront

(* insert_ss_tail puts the thread behind the others of its queue.           *)
LEMMA AppendQueues ==
    ASSUME NEW q \in StructType, NEW S \in SUBSET Threads,
           NEW prio \in [Threads -> Nat], Linked(q, S, prio), Walks(q, S),
           NEW t \in Threads \ S, NEW p \in Nat, NEW r, r = insert_ss_tail(q, t, p)
    PROVE  /\ Walks(r, S \cup {t})
           /\ Behind(q, r, t, Level(p))
<1>0. PICK x \in Slots : x = prio2ij(p)
  BY Place
<1>a. PICK rank \in [Threads -> Int], tail \in [Slots -> Ptr] :
        Holds(q, S, prio, rank) /\ Tails(q, S, tail)
  BY DEF Linked
<1>b. PICK aux : aux = tail[x]
  OBVIOUS
<1>c. q.head[x] # NULL => aux \in S /\ q.pos[aux] = x /\ q.next[aux] = NULL
  BY <1>a, <1>b DEF Tails
<1>d. q.head[x] # NULL => aux \in Threads /\ aux = TailOf(q, x)
  BY <1>a, <1>b, <1>c, TailUnique
<1>1. AppendedLinks(q, t, x, aux, r)
  BY <1>0, <1>d, AppendFields
<1>2. PICK w : w = ListOf(q, x)
  OBVIOUS
<1>3. Walk(r, S \cup {t}, x, Append(w, t))
  <2>1. Walk(q, S, x, w)
    BY <1>2 DEF Walks
  <2> QED
    BY <1>1, <1>c, <2>1, AppendWalk
<1>4. ASSUME NEW s \in Slots \ {x} PROVE Walk(r, S \cup {t}, s, ListOf(q, s))
  <2>1. PICK v : v = ListOf(q, s) /\ Walk(q, S, s, v)
    BY DEF Walks
  <2>2. r.head[s] = q.head[s]
    BY <1>1 DEF AppendedLinks
  <2>3. \A u \in Threads : u \in S \cup {t} /\ r.pos[u] = s <=> u \in S /\ q.pos[u] = s
    BY <1>1 DEF AppendedLinks
  <2>4. \A u \in Threads : u \in S /\ q.pos[u] = s => r.next[u] = q.next[u]
    BY <1>1, <1>c DEF AppendedLinks
  <2> QED
    BY <2>1, <2>2, <2>3, <2>4, SameWalk
<1>5. Walks(r, S \cup {t}) /\ Queues(r) = [Queues(q) EXCEPT ![Level(p)] = Append(w, t)]
  <2>1. PICK R, z : R = S \cup {t} /\ z = Append(w, t)
    OBVIOUS
  <2>2. Walk(r, R, prio2ij(p), z)
    BY <1>0, <1>3, <2>1
  <2>3. OthersKept(q, r, R, prio2ij(p))
    BY <1>0, <1>4, <2>1 DEF OthersKept
  <2>4. Walks(r, R) /\ Replaced(q, r, Level(p), z)
    BY <2>2, <2>3, GrownQueues
  <2> QED
    BY <2>1, <2>4 DEF Replaced
<1>6. Queues(q)[Level(p)] = w
  <2>1. Level(p) \in 0 .. Levels - 1
    BY Place
  <2>2. prio2ij(Level(p)) = prio2ij(p)
    BY <2>1, PlaceLevel
  <2> QED
    BY <1>0, <1>2, <2>1, <2>2 DEF Queues
<1> QED
  BY <1>5, <1>6 DEF Behind

(* A structure in which list s has lost t.                                 *)
LEMMA ShrunkQueues ==
    ASSUME NEW q, NEW r, NEW x \in Slots, NEW S, NEW R, NEW t,
           Walks(q, S), Walk(r, R, x, RQ!Removed(ListOf(q, x), t)),
           OthersKept(q, r, R, x),
           t \in S /\ q.pos[t] = x
    PROVE  Walks(r, R) /\ Queues(r) = Cut(Queues(q), t)
<1> DEFINE W == [s \in Slots |-> RQ!Removed(ListOf(q, s), t)]
<1>1. \A s \in Slots : Walk(r, R, s, W[s])
  <2> SUFFICES ASSUME NEW s \in Slots PROVE Walk(r, R, s, W[s])
    OBVIOUS
  <2>1. W[s] = RQ!Removed(ListOf(q, s), t)
    OBVIOUS
  <2> HIDE DEF W
  <2>2. CASE s = x
    BY <2>1, <2>2
  <2>3. CASE s # x
    <3>1. Walk(r, R, s, ListOf(q, s))
      BY <2>3 DEF OthersKept
    <3>2. PICK w : w = ListOf(q, s)
      OBVIOUS
    <3>3. w \in Seq(Threads) /\ \A i \in 1 .. Len(w) : w[i] # t
      <4>1. Walk(q, S, s, w)
        BY <3>2 DEF Walks
      <4>2. w \in Seq(Threads) /\ \A i \in 1 .. Len(w) : w[i] \in Threads /\ q.pos[w[i]] = s
        BY <4>1 DEF Walk
      <4> QED
        BY <4>2, <2>3
    <3>4. RQ!Removed(w, t) = w
      BY <3>3, RemovedNone
    <3> QED
      BY <2>1, <3>1, <3>2, <3>4
  <2> QED
    BY <2>2, <2>3
<1>2. Walks(r, R) /\ \A s \in Slots : ListOf(r, s) = W[s]
  <2> HIDE DEF W
  <2> QED
    BY <1>1, NewWalks
<1>3. ASSUME NEW l \in 0 .. Levels - 1
      PROVE  ListOf(r, prio2ij(l)) = RQ!Removed(ListOf(q, prio2ij(l)), t)
  <2>1. prio2ij(l) \in Slots
    BY PlaceLevel, LevelsNat
  <2> QED
    BY <1>2, <2>1
<1>4. Queues(r) = Cut(Queues(q), t)
  BY <1>3 DEF Queues, Cut
<1> QED
  BY <1>2, <1>4

(* A structure with the same lists.                                        *)
LEMMA SameQueues ==
    ASSUME NEW q, NEW r, NEW S, Walks(q, S),
           \A s \in Slots : r.head[s] = q.head[s],
           \A u \in S : r.pos[u] = q.pos[u] /\ r.next[u] = q.next[u]
    PROVE  Walks(r, S) /\ Queues(r) = Queues(q)
<1> DEFINE W == [s \in Slots |-> ListOf(q, s)]
<1>1. ASSUME NEW s \in Slots PROVE Walk(r, S, s, W[s])
  <2>1. PICK w : w = ListOf(q, s) /\ Walk(q, S, s, w)
    BY DEF Walks
  <2>2. r.head[s] = q.head[s]
    OBVIOUS
  <2>3. \A u \in Threads : u \in S /\ r.pos[u] = s <=> u \in S /\ q.pos[u] = s
    OBVIOUS
  <2>4. \A u \in Threads : u \in S /\ q.pos[u] = s => r.next[u] = q.next[u]
    OBVIOUS
  <2>5. Walk(r, S, s, w)
    BY <2>1, <2>2, <2>3, <2>4, SameWalk
  <2> QED
    BY <2>1, <2>5
<1>2. Walks(r, S) /\ \A s \in Slots : ListOf(r, s) = W[s]
  <2> HIDE DEF W
  <2> QED
    BY <1>1, NewWalks
<1>3. \A l \in 0 .. Levels - 1 : prio2ij(l) \in Slots
  BY PlaceLevel, LevelsNat
<1> QED
  BY <1>2, <1>3 DEF Queues

(* remove_ss takes the thread out of the queues, if it is in one.           *)
LEMMA RemoveQueues ==
    ASSUME NEW q \in StructType, NEW S \in SUBSET Threads,
           NEW prio \in [Threads -> Nat], Linked(q, S, prio), Walks(q, S),
           NEW t \in Threads, NEW r, r = remove_ss(q, t)
    PROVE  Walks(r, S \ {t}) /\ Queues(r) = Cut(Queues(q), t)
<1>a. PICK rank \in [Threads -> Int], tail \in [Slots -> Ptr] :
        Holds(q, S, prio, rank) /\ Tails(q, S, tail)
  BY DEF Linked
<1>b. q.pos[t] \in Slots \cup {NoPos}
  BY DEF StructType
<1>1. CASE t \in S
  <2>1. q.pos[t] \in Slots
    BY <1>a, <1>1, Place DEF Holds, LinksAgree
  <2>2. PICK x \in Slots : x = q.pos[t]
    BY <2>1
  <2>3. RemovedLinks(q, t, r)
    BY <2>1, RemoveFields
  <2>4. Before(q, S, t)
    <3>1. q.prev[t] = NULL => q.head[q.pos[t]] = t
      BY <1>a, <1>1 DEF Holds, LinksAgree
    <3>2. ASSUME q.prev[t] # NULL
          PROVE  q.prev[t] \in S /\ q.next[q.prev[t]] = t /\ q.pos[q.prev[t]] = q.pos[t]
      <4>1. q.prev[t] \in S /\ q.next[q.prev[t]] = t
        BY <1>a, <1>1, <3>2 DEF Holds, LinksAgree
      <4>2. t # NULL
        BY NullAssumption
      <4> QED
        BY <1>a, <4>1, <4>2 DEF Holds, LinksAgree
    <3> QED
      BY <3>1, <3>2 DEF Before
  <2>5. Walk(r, S \ {t}, x, RQ!Removed(ListOf(q, x), t))
    <3>1. PICK w : w = ListOf(q, x) /\ Walk(q, S, x, w)
      BY DEF Walks
    <3>2. Walk(r, S \ {t}, q.pos[t], RQ!Removed(w, t))
      BY <1>1, <2>1, <2>2, <2>3, <2>4, <3>1, RemoveWalk
    <3> QED
      BY <2>2, <3>1, <3>2
  <2>6. OthersKept(q, r, S \ {t}, x)
    <3> SUFFICES ASSUME NEW s \in Slots \ {x} PROVE Walk(r, S \ {t}, s, ListOf(q, s))
      BY DEF OthersKept
    <3>1. PICK v : v = ListOf(q, s) /\ Walk(q, S, s, v)
      BY DEF Walks
    <3>2. r.head[s] = q.head[s]
      BY <2>2, <2>3 DEF RemovedLinks
    <3>3. \A u \in Threads : u \in S \ {t} /\ r.pos[u] = s <=> u \in S /\ q.pos[u] = s
      BY <2>2, <2>3 DEF RemovedLinks
    <3>4. ASSUME NEW u \in Threads, u \in S, q.pos[u] = s PROVE r.next[u] = q.next[u]
      <4>1. u # t
        BY <2>2, <3>4
      <4>2. u # q.prev[t]
        BY <2>2, <2>4, <3>4, NullAssumption DEF Before
      <4> QED
        BY <2>3, <4>1, <4>2 DEF RemovedLinks
    <3> QED
      BY <3>1, <3>2, <3>3, <3>4, SameWalk
  <2>7. t \in S /\ q.pos[t] = x
    BY <1>1, <2>2
  <2> QED
    BY <2>5, <2>6, <2>7, ShrunkQueues
<1>2. CASE t \notin S
  <2>1. Cut(Queues(q), t) = Queues(q) /\ S \ {t} = S
    BY <1>2, CutNone
  <2>2. q.next[t] = NULL /\ q.prev[t] = NULL /\ \A s \in Slots : q.head[s] # t
    BY <1>a, <1>2 DEF Holds, OutsideClean
  <2>3. Walks(r, S) /\ Queues(r) = Queues(q)
    <3>1. CASE q.pos[t] = NoPos
      <4>1. r = q
        BY <3>1 DEF remove_ss
      <4> QED
        BY <4>1
    <3>2. CASE q.pos[t] \in Slots
      <4>1. RemovedLinks(q, t, r)
        BY <3>2, RemoveFields
      <4>2. \A s \in Slots : r.head[s] = q.head[s]
        BY <4>1, <2>2 DEF RemovedLinks
      <4>3. \A u \in S : r.pos[u] = q.pos[u] /\ r.next[u] = q.next[u]
        BY <4>1, <2>2, <1>2, NullAssumption DEF RemovedLinks
      <4> QED
        BY <4>2, <4>3, SameQueues
    <3> QED
      BY <3>1, <3>2, <1>b
  <2> QED
    BY <2>1, <2>3
<1> QED
  BY <1>1, <1>2

(* Zeroing a structure outside the lists changes no queue.                  *)
LEMMA ZeroQueues ==
    ASSUME NEW q \in StructType, NEW S \in SUBSET Threads, Walks(q, S),
           NEW t \in Threads \ S, NEW r, r = zero_ss(q, t)
    PROVE  Walks(r, S) /\ Queues(r) = Queues(q)
<1>1. \A s \in Slots : r.head[s] = q.head[s]
  BY DEF zero_ss
<1>2. \A u \in S : r.pos[u] = q.pos[u] /\ r.next[u] = q.next[u]
  BY DEF zero_ss, StructType
<1> QED
  BY <1>1, <1>2, SameQueues

(* init_ss makes empty queues.                                              *)
LEMMA InitQueues ==
    Walks(init_ss, {}) /\ Queues(init_ss) = [l \in 0 .. Levels - 1 |-> <<>>]
<1> DEFINE W == [s \in Slots |-> <<>>]
<1>1. ASSUME NEW s \in Slots PROVE Walk(init_ss, {}, s, W[s])
  BY DEF Walk, init_ss
<1>2. Walks(init_ss, {}) /\ \A s \in Slots : ListOf(init_ss, s) = W[s]
  <2> HIDE DEF W
  <2> QED
    BY <1>1, NewWalks
<1>3. \A l \in 0 .. Levels - 1 : prio2ij(l) \in Slots
  BY PlaceLevel, LevelsNat
<1> QED
  BY <1>2, <1>3 DEF Queues

-----------------------------------------------------------------------------
(* The functions of sched.c and the queues.                                *)

KWalks(kk) == KInv(kk) /\ Walks(kk.ss, Ready(kk))

(* t goes to the front, or to the back, of the queue of level l.           *)
Entered(P, Q, t, l) == Q = [Cut(P, t) EXCEPT ![l] = <<t>> \o @]
Yielded(P, Q, t, l) == Q = [Cut(P, t) EXCEPT ![l] = Append(@, t)]

(* Facts of the kernel data that the lemmas below share.                   *)
LEMMA KernelTypes ==
    ASSUME NEW kk, KInv(kk)
    PROVE  /\ kk \in KType /\ kk.ss \in StructType /\ Ready(kk) \in SUBSET Threads
           /\ kk.prio \in [Threads -> Nat] /\ Linked(kk.ss, Ready(kk), kk.prio)
           /\ kk.state \in [Threads -> States]
BY DEF KInv, KType, Ready

(* activate_thread puts a thread that was not READY in front.               *)
LEMMA ActivateQueues ==
    ASSUME NEW kk, KWalks(kk), NEW t \in Threads, NEW r, r = activate_thread(kk, t)
    PROVE  /\ KWalks(r)
           /\ kk.state[t] \in {"FINISHED", "READY"} => r = kk
           /\ kk.state[t] \notin {"FINISHED", "READY"} =>
                Entered(Queues(kk.ss), Queues(r.ss), t, Level(kk.prio[t]))
<1>1. KInv(kk) /\ Walks(kk.ss, Ready(kk)) /\ kk \in KType
  BY KernelTypes DEF KWalks
<1>2. CASE kk.state[t] \in {"FINISHED", "READY"}
  BY <1>2 DEF activate_thread
<1>3. CASE kk.state[t] \notin {"FINISHED", "READY"}
  <2>1. PICK q : q = insert_ss(kk.ss, t, kk.prio[t])
    OBVIOUS
  <2>2. r = [kk EXCEPT !.ss = q, !.state[t] = "READY"]
    BY <1>3, <2>1 DEF activate_thread
  <2>3. r.ss = q /\ r.state = [kk.state EXCEPT ![t] = "READY"]
    BY <1>1, <2>2 DEF KType
  <2>4. kk.ss \in StructType /\ Ready(kk) \in SUBSET Threads /\ kk.prio[t] \in Nat
    BY <1>1, KernelTypes
  <2>5. t \in Threads \ Ready(kk)
    BY <1>3 DEF Ready
  <2>6. Ready(r) = Ready(kk) \cup {t}
    BY <1>1, <2>3, KernelTypes DEF Ready
  <2>7. /\ Walks(q, Ready(kk) \cup {t})
        /\ InFront(kk.ss, q, t, Level(kk.prio[t]))
    BY <1>1, <2>1, <2>4, <2>5, InsertQueues
  <2>8. Cut(Queues(kk.ss), t) = Queues(kk.ss)
    BY <1>1, <2>5, CutNone
  <2>9. KInv(r)
    BY <1>1, ActivateKernel
  <2> QED
    BY <1>3, <2>3, <2>6, <2>7, <2>8, <2>9 DEF KWalks, Entered, InFront
<1> QED
  BY <1>2, <1>3

(* A function that unlinks t and then changes its state.                   *)
LEMMA UnlinkQueues ==
    ASSUME NEW kk, KWalks(kk), NEW t \in Threads, NEW r, KInv(r), NEW st,
           r.ss = remove_ss(kk.ss, t), r.state = [kk.state EXCEPT ![t] = st], st # "READY"
    PROVE  KWalks(r) /\ Queues(r.ss) = Cut(Queues(kk.ss), t)
<1>1. KInv(kk) /\ Walks(kk.ss, Ready(kk))
  BY DEF KWalks
<1>2. PICK q, S, pr : q = kk.ss /\ S = Ready(kk) /\ pr = kk.prio
  OBVIOUS
<1>3. /\ q \in StructType /\ S \in SUBSET Threads /\ pr \in [Threads -> Nat]
      /\ Linked(q, S, pr) /\ Walks(q, S)
  BY <1>1, <1>2, KernelTypes
<1>4. Walks(r.ss, S \ {t}) /\ Queues(r.ss) = Cut(Queues(q), t)
  BY <1>2, <1>3, RemoveQueues
<1>5. Ready(r) = S \ {t}
  BY <1>1, <1>2, KernelTypes DEF Ready
<1> QED
  BY <1>2, <1>4, <1>5 DEF KWalks

(* suspend_thread takes the thread out.                                     *)
LEMMA SuspendQueues ==
    ASSUME NEW kk, KWalks(kk), NEW t \in Threads, NEW r, r = suspend_thread(kk, t)
    PROVE  KWalks(r) /\ Queues(r.ss) = Cut(Queues(kk.ss), t)
<1>1. KInv(kk) /\ kk \in KType /\ kk.state \in [Threads -> States]
  BY KernelTypes DEF KWalks
<1>2. KInv(r) /\ r.state = [kk.state EXCEPT ![t] = IF @ = "FINISHED" THEN @ ELSE "SUSPENDED"]
  BY <1>1, SuspendKernel
<1>3. r.ss = remove_ss(kk.ss, t)
  BY <1>1 DEF suspend_thread, KType
<1>4. PICK st : st = IF kk.state[t] = "FINISHED" THEN "FINISHED" ELSE "SUSPENDED"
  OBVIOUS
<1>5. r.state = [kk.state EXCEPT ![t] = st] /\ st # "READY"
  BY <1>1, <1>2, <1>4
<1> QED
  BY <1>2, <1>3, <1>5, UnlinkQueues

(* delete_pthread_struct takes the thread out.                              *)
LEMMA DeleteQueues ==
    ASSUME NEW kk, KWalks(kk), NEW t \in Threads, NEW r, r = delete_pthread_struct(kk, t)
    PROVE  KWalks(r) /\ Queues(r.ss) = Cut(Queues(kk.ss), t)
<1>1. KInv(kk) /\ kk \in KType
  BY KernelTypes DEF KWalks
<1>2. KInv(r) /\ r.state = [kk.state EXCEPT ![t] = "FREE"]
  BY <1>1, DeleteKernel
<1>3. r.ss = remove_ss(kk.ss, t)
  BY <1>1 DEF delete_pthread_struct, KType
<1> QED
  BY <1>2, <1>3, UnlinkQueues

(* finish_thread takes the thread out.                                      *)
LEMMA FinishQueues ==
    ASSUME NEW kk, KWalks(kk), NEW t \in Threads, NEW r, r = finish_thread(kk, t)
    PROVE  KWalks(r) /\ Queues(r.ss) = Cut(Queues(kk.ss), t)
<1>1. KInv(kk) /\ kk \in KType
  BY KernelTypes DEF KWalks
<1>2. KInv(r) /\ r.state = [kk.state EXCEPT ![t] = "FINISHED"]
  BY <1>1, FinishKernel
<1>3. r.ss = remove_ss(kk.ss, t)
  BY <1>1 DEF finish_thread, free_kstack, KType
<1> QED
  BY <1>2, <1>3, UnlinkQueues

(* change_thread_prio moves a READY thread to the front of its new queue.   *)
LEMMA ChangePrioQueues ==
    ASSUME NEW kk, KWalks(kk), NEW t \in Threads, NEW p \in Nat,
           NEW r, r = change_thread_prio(kk, t, p)
    PROVE  /\ KWalks(r)
           /\ kk.state[t] = "READY" => Entered(Queues(kk.ss), Queues(r.ss), t, Level(p))
           /\ kk.state[t] # "READY" => Queues(r.ss) = Queues(kk.ss)
<1>1. KInv(kk) /\ kk \in KType /\ Walks(kk.ss, Ready(kk))
  BY KernelTypes DEF KWalks
<1>2. KInv(r) /\ r.state = kk.state
  <2>1. KInv(r) /\ Reprioritised(kk, t, p, r)
    BY <1>1, ChangePrioKernel
  <2> QED
    BY <2>1 DEF Reprioritised
<1>3. PICK q : q = remove_ss(kk.ss, t)
  OBVIOUS
<1>4. r.ss = IF kk.state[t] = "READY" THEN insert_ss(q, t, p) ELSE q
  BY <1>1, <1>3 DEF change_thread_prio, KType
<1>5. /\ kk.ss \in StructType /\ Ready(kk) \in SUBSET Threads
      /\ kk.prio \in [Threads -> Nat] /\ Linked(kk.ss, Ready(kk), kk.prio)
  BY <1>1, KernelTypes
<1>6. Walks(q, Ready(kk) \ {t}) /\ Queues(q) = Cut(Queues(kk.ss), t)
  BY <1>1, <1>3, <1>5, RemoveQueues
<1>7. q \in StructType
  BY <1>3, <1>5, RemoveLinked
<1>8. Ready(r) = Ready(kk)
  BY <1>2 DEF Ready
<1>9. CASE kk.state[t] = "READY"
  <2>1. t \in Ready(kk) /\ t \in Threads \ (Ready(kk) \ {t}) /\ (Ready(kk) \ {t}) \cup {t} = Ready(kk)
    BY <1>9 DEF Ready
  <2>2. r.ss = insert_ss(q, t, p)
    BY <1>4, <1>9
  <2>3. PICK S \in SUBSET Threads : S = Ready(kk) \ {t}
    BY <1>5
  <2>4. Walks(r.ss, S \cup {t}) /\ InFront(q, r.ss, t, Level(p))
    BY <1>6, <1>7, <2>1, <2>2, <2>3, InsertQueues
  <2> QED
    BY <1>2, <1>6, <1>8, <1>9, <2>1, <2>3, <2>4 DEF KWalks, Entered, InFront
<1>10. CASE kk.state[t] # "READY"
  <2>1. t \notin Ready(kk) /\ Ready(kk) \ {t} = Ready(kk) /\ r.ss = q
    BY <1>4, <1>10 DEF Ready
  <2>2. Cut(Queues(kk.ss), t) = Queues(kk.ss)
    BY <1>1, <2>1, CutNone
  <2> QED
    BY <1>2, <1>6, <1>8, <1>10, <2>1, <2>2 DEF KWalks
<1> QED
  BY <1>9, <1>10

(* yield_thread moves a READY thread behind the others of its queue.        *)
LEMMA YieldQueues ==
    ASSUME NEW kk, KWalks(kk), NEW t \in Ready(kk), NEW r, r = yield_thread(kk, t)
    PROVE  KWalks(r) /\ Yielded(Queues(kk.ss), Queues(r.ss), t, Level(kk.prio[t]))
<1>1. KInv(kk) /\ kk \in KType /\ Walks(kk.ss, Ready(kk)) /\ t \in Threads
  BY KernelTypes DEF KWalks, Ready
<1>2. KInv(r) /\ r.state = kk.state
  BY <1>1, YieldKernel
<1>3. PICK q : q = remove_ss(kk.ss, t)
  OBVIOUS
<1>4. r.ss = insert_ss_tail(q, t, kk.prio[t])
  BY <1>1, <1>3 DEF yield_thread, KType
<1>5. /\ kk.ss \in StructType /\ Ready(kk) \in SUBSET Threads
      /\ kk.prio \in [Threads -> Nat] /\ Linked(kk.ss, Ready(kk), kk.prio)
  BY <1>1, KernelTypes
<1>6. Walks(q, Ready(kk) \ {t}) /\ Queues(q) = Cut(Queues(kk.ss), t)
  BY <1>1, <1>3, <1>5, RemoveQueues
<1>7. q \in StructType /\ Linked(q, Ready(kk) \ {t}, kk.prio)
  BY <1>1, <1>3, <1>5, RemoveLinked
<1>8. Ready(r) = Ready(kk)
  BY <1>2 DEF Ready
<1>9. t \in Threads \ (Ready(kk) \ {t}) /\ (Ready(kk) \ {t}) \cup {t} = Ready(kk)
  BY <1>1
<1>10. PICK S \in SUBSET Threads, pr \in [Threads -> Nat], p \in Nat :
         S = Ready(kk) \ {t} /\ pr = kk.prio /\ p = kk.prio[t]
  BY <1>1, <1>5
<1>11. /\ Linked(q, S, pr) /\ Walks(q, S) /\ t \in Threads \ S
       /\ r.ss = insert_ss_tail(q, t, p)
  BY <1>4, <1>6, <1>7, <1>9, <1>10
<1>12. Walks(r.ss, S \cup {t}) /\ Behind(q, r.ss, t, Level(p))
  BY <1>7, <1>11, AppendQueues
<1> QED
  BY <1>2, <1>6, <1>8, <1>9, <1>10, <1>12 DEF KWalks, Yielded, Behind

(* create_pthread_struct changes no queue.                                  *)
LEMMA CreateQueues ==
    ASSUME NEW kk, KWalks(kk), NEW t \in Threads \ Ready(kk), NEW p \in Nat,
           NEW r, r = create_pthread_struct(kk, t, p)
    PROVE  KWalks(r) /\ Queues(r.ss) = Queues(kk.ss)
<1>1. KInv(kk) /\ kk \in KType /\ Walks(kk.ss, Ready(kk))
  BY KernelTypes DEF KWalks
<1>2. KInv(r) /\ r.state = [kk.state EXCEPT ![t] = "SUSPENDED"]
  <2>1. KInv(r) /\ Created(kk, t, p, r)
    BY <1>1, CreateKernel
  <2> QED
    BY <2>1 DEF Created
<1>3. r.ss = zero_ss(kk.ss, t)
  BY <1>1 DEF create_pthread_struct, KType
<1>4. kk.ss \in StructType /\ Ready(kk) \in SUBSET Threads /\ kk.state \in [Threads -> States]
  BY <1>1, KernelTypes
<1>5. Walks(r.ss, Ready(kk)) /\ Queues(r.ss) = Queues(kk.ss)
  BY <1>1, <1>3, <1>4, ZeroQueues
<1>6. Ready(r) = Ready(kk)
  BY <1>2, <1>4 DEF Ready
<1> QED
  BY <1>2, <1>5, <1>6 DEF KWalks

(* alloc_kstack changes no queue.                                           *)
LEMMA AllocQueues ==
    ASSUME NEW kk, KWalks(kk), NEW t \in Threads, NEW r, r = alloc_kstack(kk, t)
    PROVE  KWalks(r) /\ Queues(r.ss) = Queues(kk.ss)
<1>1. KInv(kk) /\ kk \in KType /\ Walks(kk.ss, Ready(kk))
  BY KernelTypes DEF KWalks
<1>2. KInv(r) /\ r.state = kk.state
  BY <1>1, AllocKernel
<1>3. r.ss = kk.ss
  BY <1>1 DEF alloc_kstack, KType
<1>4. Ready(r) = Ready(kk)
  BY <1>2 DEF Ready
<1> QED
  BY <1>1, <1>2, <1>3, <1>4 DEF KWalks

-----------------------------------------------------------------------------
(* Every step of Sched is a step of ReadyQueue or changes nothing there.   *)

(* What get_head_ss returns is the head of a list.                         *)
LEMMA HeadOfList ==
    ASSUME NEW q \in StructType, BitmapExact(q), get_head_ss(q) # NULL
    PROVE  \E s \in Slots : q.head[s] = get_head_ss(q)
<1>1. q.fl # {} /\ q.fl \in SUBSET Idx /\ q.sl \in [Idx -> SUBSET Idx]
  BY DEF get_head_ss, StructType
<1>2. PICK i \in Idx : i = _ffs(q.fl) /\ i \in q.fl
  BY <1>1, FirstBit
<1>3. q.sl[i] # {} /\ q.sl[i] \in SUBSET Idx
  BY <1>1, <1>2 DEF BitmapExact
<1>4. PICK j \in Idx : j = _ffs(q.sl[i])
  BY <1>3, FirstBit
<1>5. get_head_ss(q) = q.head[<<i, j>>]
  BY <1>1, <1>2, <1>4 DEF get_head_ss
<1> QED
  BY <1>5, SlotFacts

(* get_head_ss returns the first thread of the first queue.                 *)
LEMMA HeadFirst ==
    ASSUME NEW kk, KWalks(kk), Ready(kk) # {}
    PROVE  /\ \E l \in 0 .. Levels - 1 : Queues(kk.ss)[l] # <<>>
           /\ get_head_ss(kk.ss) = RQ!First(Queues(kk.ss))
<1>1. PICK q, S, prio, Q : q = kk.ss /\ S = Ready(kk) /\ prio = kk.prio /\ Q = Queues(q)
  OBVIOUS
<1>2. /\ q \in StructType /\ S \in SUBSET Threads /\ prio \in [Threads -> Nat]
      /\ Linked(q, S, prio) /\ Walks(q, S)
  BY <1>1, KernelTypes DEF KWalks
<1>3. PICK h : h = get_head_ss(q)
  OBVIOUS
<1>4. h \in S /\ h \in Threads /\ \A u \in S : Level(prio[h]) <= Level(prio[u])
  BY <1>1, <1>2, <1>3, HeadBest
<1>5. BitmapExact(q) /\ LinksAgree(q, S, prio)
  BY <1>2 DEF Linked, Holds
<1>6. PICK s \in Slots : q.head[s] = h
  BY <1>2, <1>3, <1>4, <1>5, HeadOfList, NullAssumption
<1>7. h # NULL /\ q.pos[h] = s /\ \A u \in S : q.pos[u] = prio2ij(prio[u])
  BY <1>4, <1>5, <1>6, NullAssumption DEF LinksAgree
<1>8. PICK l \in 0 .. Levels - 1 : l = Level(prio[h])
  BY <1>2, <1>4, Place
<1>9. \A m \in 0 .. Levels - 1 : /\ prio2ij(m) \in Slots /\ Q[m] = ListOf(q, prio2ij(m))
                                 /\ Walk(q, S, prio2ij(m), Q[m])
  <2> SUFFICES ASSUME NEW m \in 0 .. Levels - 1
               PROVE  /\ prio2ij(m) \in Slots /\ Q[m] = ListOf(q, prio2ij(m))
                      /\ Walk(q, S, prio2ij(m), Q[m])
    OBVIOUS
  <2>1. prio2ij(m) \in Slots
    BY PlaceLevel, LevelsNat
  <2>2. Q[m] = ListOf(q, prio2ij(m))
    BY <1>1 DEF Queues
  <2> QED
    BY <1>2, <2>1, <2>2 DEF Walks
<1>10. prio2ij(l) = s
  <2>1. prio[h] \in Nat
    BY <1>2, <1>4
  <2>2. prio2ij(l) = prio2ij(prio[h])
    BY <2>1, <1>8, PlaceLevel
  <2> QED
    BY <2>2, <1>4, <1>7
<1>11. Q[l] # <<>> /\ Q[l][1] = h
  <2>1. Walk(q, S, s, Q[l])
    BY <1>9, <1>10
  <2>2. PICK w : w = Q[l]
    OBVIOUS
  <2>3. w \in Seq(Threads) /\ q.head[s] = IF Len(w) = 0 THEN NULL ELSE w[1]
    BY <2>1, <2>2 DEF Walk
  <2>4. Len(w) # 0 /\ w[1] = h
    BY <2>3, <1>6, <1>7
  <2>5. w # <<>>
    BY <2>4
  <2> QED
    BY <2>2, <2>4, <2>5
<1>12. ASSUME NEW m \in 0 .. Levels - 1, m < l PROVE Q[m] = <<>>
  <2>1. Walk(q, S, prio2ij(m), Q[m])
    BY <1>9
  <2>2. PICK w : w = Q[m]
    OBVIOUS
  <2>3. /\ w \in Seq(Threads) /\ Len(w) \in Nat
        /\ \A i \in 1 .. Len(w) : w[i] \in S /\ w[i] \in Threads /\ q.pos[w[i]] = prio2ij(m)
    BY <2>1, <2>2 DEF Walk
  <2>4. ASSUME Len(w) # 0 PROVE FALSE
    <3>1. PICK u \in S : u = w[1] /\ q.pos[u] = prio2ij(m)
      BY <2>3, <2>4
    <3>2. prio[u] \in Nat /\ prio2ij(m) = prio2ij(prio[u])
      BY <3>1, <1>2, <1>7
    <3>3. m = Level(prio[u])
      BY <3>2, PlaceLevel
    <3>4. l <= m
      BY <3>3, <1>4, <1>8
    <3> QED
      BY <3>4, <1>12, LevelsNat
  <2> QED
    BY <2>2, <2>3, <2>4
<1>13. RQ!First(Q) = h
  <2> DEFINE C(x) == Q[x] # <<>> /\ \A m \in 0 .. x - 1 : Q[m] = <<>>
  <2>1. C(l)
    <3>1. \A m \in 0 .. l - 1 : m \in 0 .. Levels - 1 /\ m < l
      BY LevelsNat
    <3> QED
      BY <3>1, <1>11, <1>12
  <2>2. ASSUME NEW x \in 0 .. Levels - 1, C(x) PROVE x = l
    <3>1. ~(x < l)
      BY <2>2, <1>12
    <3>2. ~(l < x)
      <4>1. l < x => l \in 0 .. x - 1
        BY LevelsNat
      <4> QED
        BY <4>1, <2>2, <1>11
    <3> QED
      BY <3>1, <3>2, LevelsNat
  <2>3. (CHOOSE x \in 0 .. Levels - 1 : C(x)) = l
    <3> HIDE DEF C
    <3> QED
      BY <2>1, <2>2
  <2>4. RQ!First(Q) = Q[CHOOSE x \in 0 .. Levels - 1 : C(x)][1]
    BY DEF RQ!First
  <2> HIDE DEF C
  <2> QED
    BY <2>3, <2>4, <1>11
<1> QED
  BY <1>1, <1>3, <1>11, <1>13

(* A step that moves one thread in the queues.                             *)
Moved(P, Q) ==
    \/ Q = P
    \/ \E t \in Threads : Q = Cut(P, t)
    \/ \E t \in Threads, l \in 0 .. Levels - 1 : Entered(P, Q, t, l)

(* Such a step is a Requeue of ReadyQueue, or changes nothing there.        *)
LEMMA MoveStep ==
    ASSUME current' = current, Moved(Queues(k.ss), Queues(k'.ss))
    PROVE  [RQ!Next]_(RQ!rvars)
<1>1. CASE Queues(k'.ss) = Queues(k.ss)
  BY <1>1 DEF RQ!rvars
<1>2. CASE Queues(k'.ss) # Queues(k.ss)
  <2>1. CASE \E t \in Threads : Queues(k'.ss) = Cut(Queues(k.ss), t)
    BY <1>2, <2>1 DEF RQ!Next, RQ!Requeue, RQ!Leave, RQ!Without, Cut
  <2>2. CASE \E t \in Threads, l \in 0 .. Levels - 1 : Entered(Queues(k.ss), Queues(k'.ss), t, l)
    BY <1>2, <2>2 DEF RQ!Next, RQ!Requeue, RQ!Enter, RQ!Without, Cut, Entered
  <2> QED
    BY <1>2, <2>1, <2>2 DEF Moved
<1> QED
  BY <1>1, <1>2

(* A READY thread is in the queue of its level.                            *)
LEMMA ReadyQueued ==
    ASSUME NEW kk, KWalks(kk), NEW t \in Ready(kk)
    PROVE  /\ Level(kk.prio[t]) \in 0 .. Levels - 1
           /\ \E n \in DOMAIN Queues(kk.ss)[Level(kk.prio[t])] :
                Queues(kk.ss)[Level(kk.prio[t])][n] = t
<1>1. PICK q, S, prio : q = kk.ss /\ S = Ready(kk) /\ prio = kk.prio
  OBVIOUS
<1>2. /\ q \in StructType /\ S \in SUBSET Threads /\ prio \in [Threads -> Nat]
      /\ Linked(q, S, prio) /\ Walks(q, S)
  BY <1>1, KernelTypes DEF KWalks
<1>3. t \in S /\ t \in Threads /\ prio[t] \in Nat
  BY <1>1, <1>2
<1>4. q.pos[t] = prio2ij(prio[t])
  BY <1>2, <1>3 DEF Linked, Holds, LinksAgree
<1>5. PICK l \in 0 .. Levels - 1 : l = Level(prio[t])
  BY <1>3, Place
<1>6. prio2ij(l) = prio2ij(prio[t]) /\ prio2ij(l) \in Slots
  BY <1>3, <1>5, PlaceLevel
<1>7. PICK w : w = Queues(q)[l]
  OBVIOUS
<1>8. w = ListOf(q, prio2ij(l))
  BY <1>7 DEF Queues
<1>9. Walk(q, S, prio2ij(l), w)
  BY <1>2, <1>6, <1>8 DEF Walks
<1>10. w \in Seq(Threads) /\ \E n \in 1 .. Len(w) : w[n] = t
  BY <1>3, <1>4, <1>6, <1>9 DEF Walk
<1>11. \E n \in DOMAIN w : w[n] = t
  BY <1>10
<1> QED
  BY <1>1, <1>5, <1>7, <1>11

(* pthread_yield_sys is the Yield of ReadyQueue.                            *)
LEMMA YieldStep ==
    ASSUME current' = current, NEW l \in 0 .. Levels - 1,
           \E n \in DOMAIN Queues(k.ss)[l] : Queues(k.ss)[l][n] = current,
           Yielded(Queues(k.ss), Queues(k'.ss), current, l)
    PROVE  [RQ!Next]_(RQ!rvars)
<1>1. CASE Queues(k'.ss) = Queues(k.ss)
  BY <1>1 DEF RQ!rvars
<1>2. CASE Queues(k'.ss) # Queues(k.ss)
  BY <1>2 DEF RQ!Next, RQ!Requeue, RQ!Yield, RQ!Without, Cut, Yielded
<1> QED
  BY <1>1, <1>2

(* scheduling() dispatches the first thread of the first queue.            *)
LEMMA SchedulingRefines ==
    ASSUME SInv, KWalks(k), Booted, Scheduling
    PROVE  KWalks(k') /\ [RQ!Next]_(RQ!rvars)
<1>1. current' \in Threads /\ (k' = k \/ k' = alloc_kstack(k, current'))
  BY SchedulingStep
<1>2. KWalks(k') /\ Queues(k'.ss) = Queues(k.ss)
  BY <1>1, AllocQueues
<1>3. CASE current' = current
  BY <1>2, <1>3 DEF RQ!rvars
<1>4. CASE current' # current
  <2>1. Ready(k) # {}
    BY DEF Ready, Booted, SInv, TypeOK
  <2>2. /\ \E l \in 0 .. Levels - 1 : Queues(k.ss)[l] # <<>>
        /\ get_head_ss(k.ss) = RQ!First(Queues(k.ss))
    BY <2>1, HeadFirst
  <2>3. get_head_ss(k.ss) \in Ready(k)
    <3>1. /\ k.ss \in StructType /\ Ready(k) \in SUBSET Threads
          /\ k.prio \in [Threads -> Nat] /\ Linked(k.ss, Ready(k), k.prio)
      BY KernelTypes DEF KWalks
    <3> QED
      BY <2>1, <3>1, HeadBest
  <2>4. get_head_ss(k.ss) # NULL
    BY <2>3, NullAssumption DEF Ready
  <2>5. current' = get_head_ss(k.ss)
    BY <1>4, <2>4 DEF Scheduling, context_switch_to
  <2> QED
    BY <1>2, <1>4, <2>2, <2>5 DEF RQ!Next, RQ!Dispatch
<1> QED
  BY <1>2, <1>3, <1>4

(* With one READY thread at most, the queues are known.                    *)
LEMMA FewQueues ==
    ASSUME NEW kk, KWalks(kk), NEW l \in 0 .. Levels - 1
    PROVE  /\ Ready(kk) = {} => Queues(kk.ss)[l] = <<>>
           /\ \A t \in Threads : Ready(kk) = {t} =>
                Queues(kk.ss)[l] = IF l = Level(kk.prio[t]) THEN <<t>> ELSE <<>>
<1>1. PICK q, S, prio : q = kk.ss /\ S = Ready(kk) /\ prio = kk.prio
  OBVIOUS
<1>2. /\ q \in StructType /\ S \in SUBSET Threads /\ prio \in [Threads -> Nat]
      /\ Linked(q, S, prio) /\ Walks(q, S)
  BY <1>1, KernelTypes DEF KWalks
<1>3. prio2ij(l) \in Slots
  BY PlaceLevel, LevelsNat
<1>4. PICK w : w = Queues(q)[l]
  OBVIOUS
<1>5. w = ListOf(q, prio2ij(l))
  BY <1>4 DEF Queues
<1>6. Walk(q, S, prio2ij(l), w)
  BY <1>2, <1>3, <1>5 DEF Walks
<1>7. /\ w \in Seq(Threads) /\ Len(w) \in Nat
      /\ \A u \in Threads : (\E i \in 1 .. Len(w) : w[i] = u) <=> u \in S /\ q.pos[u] = prio2ij(l)
      /\ \A i, j \in 1 .. Len(w) : w[i] = w[j] => i = j
      /\ \A i \in 1 .. Len(w) : w[i] \in Threads
  BY <1>6 DEF Walk
<1>8. ASSUME \A u \in Threads : ~(u \in S /\ q.pos[u] = prio2ij(l)) PROVE w = <<>>
  <2>1. Len(w) = 0
    <3>1. Len(w) # 0 => 1 \in 1 .. Len(w)
      BY <1>7
    <3> QED
      BY <3>1, <1>7, <1>8
  <2> QED
    BY <2>1, <1>7
<1>9. S = {} => w = <<>>
  BY <1>8
<1>10. ASSUME NEW t \in Threads, S = {t} PROVE w = IF l = Level(prio[t]) THEN <<t>> ELSE <<>>
  <2>1. t \in S /\ prio[t] \in Nat /\ q.pos[t] = prio2ij(prio[t])
    BY <1>2, <1>10 DEF Linked, Holds, LinksAgree
  <2>2. prio2ij(l) = prio2ij(prio[t]) <=> l = Level(prio[t])
    BY <2>1, PlaceLevel
  <2>3. CASE l # Level(prio[t])
    <3>1. q.pos[t] # prio2ij(l)
      BY <2>1, <2>2, <2>3
    <3>2. w = <<>>
      BY <3>1, <1>8, <1>10
    <3> QED
      BY <2>3, <3>2
  <2>4. CASE l = Level(prio[t])
    <3>1. PICK i \in 1 .. Len(w) : w[i] = t
      BY <1>7, <2>1, <2>2, <2>4
    <3>2. \A j \in 1 .. Len(w) : w[j] = t
      BY <1>7, <1>10
    <3>3. \A j \in 1 .. Len(w) : j = i
      BY <3>1, <3>2, <1>7
    <3>4. Len(w) = 1
      <4>1. 1 \in 1 .. Len(w) /\ Len(w) \in 1 .. Len(w)
        BY <3>1, <1>7
      <4>2. 1 = i /\ Len(w) = i
        BY <3>3, <4>1
      <4> QED
        BY <4>2
    <3>5. w[1] = t
      BY <3>2, <3>4
    <3>6. w = <<t>>
      BY <3>4, <3>5, <1>7
    <3> QED
      BY <2>4, <3>6
  <2> QED
    BY <2>3, <2>4
<1> QED
  BY <1>1, <1>4, <1>9, <1>10

(* pthread_create_idle_sys puts the idle thread alone into the last queue. *)
LEMMA CreateIdleRefines ==
    ASSUME SInv, KWalks(k), NEW t \in Threads, CreateIdle(t)
    PROVE  KWalks(k') /\ [RQ!Next]_(RQ!rvars)
<1>1. /\ Booting /\ t # Boot /\ KInv(k') /\ Ready(k') = {t}
      /\ k'.state = [k.state EXCEPT ![t] = "READY", ![Boot] = "FINISHED"]
  BY CreateIdleStep
<1>2. /\ k.state[t] = "FREE" /\ idle = Boot /\ current = Boot /\ current' = t /\ Boot \in Threads
      /\ Ready(k) = {} /\ k.state \in [Threads -> States]
  BY <1>1, BootAssumption, KernelTypes DEF CreateIdle, Booting, Ready, KWalks
<1>3. MIN_SCHED_PRIORITY \in Nat /\ IDLE_SCHED_PRIORITY \in Nat /\ Level(IDLE_SCHED_PRIORITY) = Levels - 1
  <2>1. Width \in Nat /\ Width >= 2
    BY WidthAssumption, ParamAssumption
  <2>2. Width * Width >= 2 /\ Width * Width \in Nat
    BY <2>1
  <2>3. PICK n \in Nat : n = Levels /\ n >= 2
    BY <2>2 DEF Levels
  <2>4. (n - 1) % n = n - 1
    BY <2>3
  <2> QED
    BY <2>3, <2>4 DEF MIN_SCHED_PRIORITY, IDLE_SCHED_PRIORITY, Level
<1>4. PICK k0 : k0 = create_pthread_struct(k, t, MIN_SCHED_PRIORITY)
  OBVIOUS
<1>5. KWalks(k0) /\ k0.state = [k.state EXCEPT ![t] = "SUSPENDED"]
  <2>1. t \in Threads \ Ready(k) /\ KInv(k) /\ k \in KType
    BY <1>2, KernelTypes DEF KWalks
  <2>2. KWalks(k0)
    BY <1>3, <1>4, <2>1, CreateQueues
  <2>3. Created(k, t, MIN_SCHED_PRIORITY, k0)
    BY <1>3, <1>4, <2>1, CreateKernel
  <2> QED
    BY <2>2, <2>3 DEF Created
<1>6. PICK k1 : k1 = activate_thread(k0, t)
  OBVIOUS
<1>7. KWalks(k1)
  BY <1>5, <1>6, ActivateQueues
<1>8. PICK ka : ka = alloc_kstack(k1, t)
  OBVIOUS
<1>9. KWalks(ka)
  BY <1>7, <1>8, AllocQueues
<1>10. PICK k2 : k2 = finish_thread(ka, Boot)
  OBVIOUS
<1>11. KWalks(k2)
  BY <1>2, <1>9, <1>10, FinishQueues
<1>12. PICK ks : ks = suspend_thread(k2, t)
  OBVIOUS
<1>13. KWalks(ks)
  BY <1>11, <1>12, SuspendQueues
<1>14. PICK k3 : k3 = change_thread_prio(ks, t, IDLE_SCHED_PRIORITY)
  OBVIOUS
<1>15. KWalks(k3)
  BY <1>3, <1>13, <1>14, ChangePrioQueues
<1>16. k' = activate_thread(k3, t)
  BY <1>2, <1>4, <1>6, <1>8, <1>10, <1>12, <1>14 DEF CreateIdle
<1>17. KWalks(k')
  BY <1>15, <1>16, ActivateQueues
<1>18. \A l \in 0 .. Levels - 1 : Queues(k.ss)[l] = <<>>
  BY <1>2, FewQueues
<1>19. Queues(k'.ss) = [Queues(k.ss) EXCEPT ![Levels - 1] = <<t>>]
  <2>1. k'.prio[t] = IDLE_SCHED_PRIORITY
    <3>1. k'.prio = [k.prio EXCEPT ![t] = IDLE_SCHED_PRIORITY] /\ k.prio \in [Threads -> Nat]
      BY CreateIdleStep, KernelTypes DEF KWalks
    <3> QED
      BY <3>1
  <2>2. ASSUME NEW l \in 0 .. Levels - 1
        PROVE  Queues(k'.ss)[l] = IF l = Levels - 1 THEN <<t>> ELSE Queues(k.ss)[l]
    <3>1. Queues(k'.ss)[l] = IF l = Level(k'.prio[t]) THEN <<t>> ELSE <<>>
      BY <1>1, <1>17, FewQueues
    <3>2. Queues(k.ss)[l] = <<>> /\ Level(k'.prio[t]) = Levels - 1
      BY <1>3, <1>18, <2>1
    <3> QED
      BY <3>1, <3>2
  <2> QED
    BY <2>2 DEF Queues
<1>20. current' # current
  BY <1>1, <1>2
<1> QED
  BY <1>2, <1>17, <1>18, <1>19, <1>20 DEF RQ!Next, RQ!FirstDispatch

(* A step of Sched as ReadyQueue sees it.                                  *)
LEMMA NextRefines ==
    ASSUME SInv, KWalks(k), [Next]_vars
    PROVE  KWalks(k') /\ [RQ!Next]_(RQ!rvars)
<1>0. /\ KInv(k) /\ k \in KType /\ k.state \in [Threads -> States]
      /\ k.prio \in [Threads -> Nat] /\ current \in Threads /\ Boot \in Threads
  BY BootAssumption DEF SInv, TypeOK, KInv, KType
<1>1. CASE UNCHANGED <<k, current>>
  <2>1. k' = k /\ current' = current /\ Moved(Queues(k.ss), Queues(k'.ss))
    BY <1>1 DEF Moved
  <2> QED
    BY <2>1, MoveStep
<1>2. ASSUME NEW t \in Threads, current' = current,
             KWalks(k'), Queues(k'.ss) = Cut(Queues(k.ss), t)
      PROVE  KWalks(k') /\ [RQ!Next]_(RQ!rvars)
  <2>1. Moved(Queues(k.ss), Queues(k'.ss))
    BY <1>2 DEF Moved
  <2> QED
    BY <1>2, <2>1, MoveStep
<1>3. CASE Suspend
  <2>1. k' = suspend_thread(k, current) /\ current' = current
    BY <1>3 DEF Suspend, KernelStep
  <2> QED
    BY <1>0, <1>2, <2>1, SuspendQueues
<1>4. CASE Finish
  <2>1. k' = finish_thread(k, current) /\ current' = current
    BY <1>4 DEF Finish, KernelStep
  <2> QED
    BY <1>0, <1>2, <2>1, FinishQueues
<1>5. CASE pthread_yield_sys
  <2>1. k' = yield_thread(k, current) /\ current' = current /\ current \in Ready(k)
    BY <1>5, SyscallReady DEF pthread_yield_sys, KernelStep, Ready
  <2>2. PICK l : l = Level(k.prio[current])
    OBVIOUS
  <2>3. KWalks(k') /\ Yielded(Queues(k.ss), Queues(k'.ss), current, l)
    BY <2>1, <2>2, YieldQueues
  <2>4. /\ l \in 0 .. Levels - 1
        /\ \E n \in DOMAIN Queues(k.ss)[l] : Queues(k.ss)[l][n] = current
    BY <2>1, <2>2, ReadyQueued
  <2> QED
    BY <2>1, <2>3, <2>4, YieldStep
<1>6. CASE CallScheduling
  BY <1>6, SchedulingRefines DEF CallScheduling, InKernel, SInv, Booting
<1>7. CASE IrqExit
  <2>1. CASE pend
    BY <1>7, <2>1, SchedulingRefines DEF IrqExit, SInv, Booting
  <2>2. CASE ~pend
    BY <1>1, <1>7, <2>2 DEF IrqExit
  <2> QED
    BY <2>1, <2>2
<1>8. ASSUME NEW t \in Threads, CreateIdle(t) PROVE KWalks(k') /\ [RQ!Next]_(RQ!rvars)
  BY <1>8, CreateIdleRefines
<1>9. ASSUME NEW t \in Threads, NEW kk, KWalks(kk), Queues(kk.ss) = Queues(k.ss),
             k' = activate_thread(kk, t), current' = current
      PROVE  KWalks(k') /\ [RQ!Next]_(RQ!rvars)
  <2>1. /\ KWalks(k')
        /\ kk.state[t] \in {"FINISHED", "READY"} => k' = kk
        /\ kk.state[t] \notin {"FINISHED", "READY"} =>
             Entered(Queues(kk.ss), Queues(k'.ss), t, Level(kk.prio[t]))
    BY <1>9, ActivateQueues
  <2>2. Level(kk.prio[t]) \in 0 .. Levels - 1
    BY <1>9, KernelTypes, Place DEF KWalks
  <2>3. Moved(Queues(k.ss), Queues(k'.ss))
    BY <1>9, <2>1, <2>2 DEF Moved
  <2> QED
    BY <1>9, <2>1, <2>3, MoveStep
<1>10. ASSUME NEW t \in Threads, Activate(t) \/ IrqWake(t)
       PROVE  KWalks(k') /\ [RQ!Next]_(RQ!rvars)
  <2>1. k' = activate_thread(k, t) /\ current' = current
    BY <1>10 DEF Activate, IrqWake, KernelStep
  <2> QED
    BY <1>9, <1>10, <2>1
<1>11. ASSUME NEW t \in Threads, Delete(t) PROVE KWalks(k') /\ [RQ!Next]_(RQ!rvars)
  <2>1. k' = delete_pthread_struct(k, t) /\ current' = current
    BY <1>11 DEF Delete, Forget
  <2> QED
    BY <1>2, <1>11, <2>1, DeleteQueues
<1>12. ASSUME NEW t \in Threads, pthread_delete_np_sys(t)
       PROVE  KWalks(k') /\ [RQ!Next]_(RQ!rvars)
  <2>1. PICK kf : kf = finish_thread(k, t)
    OBVIOUS
  <2>2. k' = delete_pthread_struct(kf, t) /\ current' = current
    BY <1>12, <2>1 DEF pthread_delete_np_sys, Forget
  <2>3. KWalks(kf) /\ Queues(kf.ss) = Cut(Queues(k.ss), t)
    BY <1>12, <2>1, FinishQueues
  <2>4. KWalks(k') /\ Queues(k'.ss) = Cut(Queues(kf.ss), t)
    BY <1>12, <2>2, <2>3, DeleteQueues
  <2>5. t \notin Ready(kf)
    <3>1. kf.state = [k.state EXCEPT ![t] = "FINISHED"]
      BY <1>0, <1>12, <2>1, FinishKernel
    <3> QED
      BY <1>0, <1>12, <3>1 DEF Ready
  <2>6. Cut(Queues(kf.ss), t) = Queues(kf.ss)
    BY <2>3, <2>5, CutNone DEF KWalks
  <2> QED
    BY <1>2, <1>12, <2>2, <2>3, <2>4, <2>6
<1>13. ASSUME NEW t \in Threads, NEW p \in Params, Create(t, p)
       PROVE  KWalks(k') /\ [RQ!Next]_(RQ!rvars)
  <2>1. PICK k1 : k1 = create_pthread_struct(k, t, p)
    OBVIOUS
  <2>2. /\ k.state[t] = "FREE" /\ current' = current
        /\ k' = activate_thread(k1, t) \/ k' = k1
    BY <1>13, <2>1 DEF Create, KernelStep
  <2>3. p \in Nat /\ t \in Threads \ Ready(k)
    BY <1>13, <2>2, ParamAssumption DEF Ready
  <2>4. KWalks(k1) /\ Queues(k1.ss) = Queues(k.ss)
    BY <2>1, <2>3, CreateQueues
  <2>5. CASE k' = activate_thread(k1, t)
    BY <1>9, <1>13, <2>2, <2>4, <2>5
  <2>6. CASE k' = k1
    <3>1. Moved(Queues(k.ss), Queues(k'.ss))
      BY <2>4, <2>6 DEF Moved
    <3> QED
      BY <2>2, <2>4, <2>6, <3>1, MoveStep
  <2> QED
    BY <2>2, <2>5, <2>6
<1>14. ASSUME NEW t \in Threads, NEW p \in Params, SetPrio(t, p)
       PROVE  KWalks(k') /\ [RQ!Next]_(RQ!rvars)
  <2>1. k' = change_thread_prio(k, t, p) /\ current' = current /\ p \in Nat
    BY <1>14, ParamAssumption DEF SetPrio, KernelStep
  <2>2. /\ KWalks(k')
        /\ k.state[t] = "READY" => Entered(Queues(k.ss), Queues(k'.ss), t, Level(p))
        /\ k.state[t] # "READY" => Queues(k'.ss) = Queues(k.ss)
    BY <1>14, <2>1, ChangePrioQueues
  <2>3. Level(p) \in 0 .. Levels - 1
    BY <2>1, Place
  <2>4. Moved(Queues(k.ss), Queues(k'.ss))
    BY <1>14, <2>2, <2>3 DEF Moved
  <2> QED
    BY <2>1, <2>2, <2>4, MoveStep
<1>15. CASE SyscallEnter \/ SyscallReturn \/ IrqEnter \/ IrqReturn \/ UNCHANGED vars
  BY <1>1, <1>15 DEF SyscallEnter, SyscallReturn, IrqEnter, IrqReturn, vars
<1> HIDE DEF KWalks
<1> QED
  BY <1>3, <1>4, <1>5, <1>6, <1>7, <1>8, <1>10, <1>11, <1>12, <1>13, <1>14, <1>15
  DEF Next, CurrentStep, ThreadStep

(* The scheduler with its linked lists and bitmaps implements the queues   *)
(* of ReadyQueue: whatever calls, interrupts and deletions came before,    *)
(* threads of equal priority run in the order ReadyQueue states.           *)
THEOREM ReadyQueueImplemented == Spec => ImplementsReadyQueue
<1>1. Init => KWalks(k) /\ RQ!Init
  <2> SUFFICES ASSUME Init PROVE KWalks(k) /\ RQ!Init
    OBVIOUS
  <2>1. /\ k.ss = zero_ss(init_ss, Boot) /\ Ready(k) = {} /\ current = Boot
        /\ Boot \in Threads
    BY BootAssumption DEF Init, Ready
  <2>2. KInv(k)
    BY InitSInv DEF SInv, TypeOK, KInv
  <2>3. Walks(k.ss, {}) /\ Queues(k.ss) = Queues(init_ss)
    <3>1. init_ss \in StructType
      BY InitHolds
    <3> QED
      BY <2>1, <3>1, InitQueues, ZeroQueues
  <2> QED
    BY <2>1, <2>2, <2>3, InitQueues DEF KWalks, RQ!Init
<1>2. SInv /\ KWalks(k) /\ [Next]_vars => KWalks(k)' /\ [RQ!Next]_(RQ!rvars)
  BY NextRefines
<1> QED
  BY <1>1, <1>2, SchedInv, PTL DEF Spec, ImplementsReadyQueue, RQ!Spec

-----------------------------------------------------------------------------
(***************************************************************************)
(* If hw_save_flags_and_cli masks interrupts, the kernel whose critical    *)
(* sections are opened up (SchedWindow) implements the one in which they   *)
(* are single steps (Sched).                                               *)
(*                                                                         *)
(* At most the current thread is inside a critical section, and while it   *)
(* is, nothing else happens (WindowInv); the state that Sched has in the   *)
(* meantime is the one in which the section is complete.                   *)
(***************************************************************************)

(* As much of the type of the kernel data as it takes to know that what    *)
(* scheduling() chooses is a thread: unlike SchedProofs!SInv, it is kept   *)
(* inside the critical sections, too.                                      *)
HeadsTyped(q) ==
    /\ q.head \in [Slots -> Ptr] /\ q.next \in [Threads -> Ptr]
    /\ q.pos \in [Threads -> Slots \cup {NoPos}]
    /\ q.fl \subseteq Idx /\ q.sl \in [Idx -> SUBSET Idx]
    /\ \A i \in q.fl : q.sl[i] # {}

KFields == {"ss", "state", "prio", "kentry", "kflag", "fault"}

KTyped(kk) ==
    /\ DOMAIN kk = KFields
    /\ HeadsTyped(kk.ss) /\ kk.prio \in [Threads -> Nat]

-----------------------------------------------------------------------------
(* The functions of the ready structure keep HeadsTyped.                   *)

LEMMA InsertTyped ==
    ASSUME NEW q, HeadsTyped(q), NEW t \in Threads, NEW p \in Nat
    PROVE  HeadsTyped(insert_ss(q, t, p))
<1> DEFINE s == prio2ij(p)
<1>1. s \in Slots /\ s[1] \in Idx /\ s[2] \in Idx
  BY Place
<1> HIDE DEF s
<1> DEFINE r == insert_ss(q, t, p)
<1>2. /\ r.head = [q.head EXCEPT ![s] = t] /\ r.next = [q.next EXCEPT ![t] = q.head[s]]
      /\ r.pos = [q.pos EXCEPT ![t] = s] /\ r.fl = q.fl \cup {s[1]}
      /\ r.sl = [q.sl EXCEPT ![s[1]] = q.sl[s[1]] \cup {s[2]}]
  BY DEF insert_ss, s
<1> HIDE DEF r
<1>3. r.head \in [Slots -> Ptr] /\ r.next \in [Threads -> Ptr]
  BY <1>1, <1>2 DEF HeadsTyped, Ptr
<1>4. r.pos \in [Threads -> Slots \cup {NoPos}]
  BY <1>1, <1>2 DEF HeadsTyped
<1>5. r.fl \subseteq Idx /\ r.sl \in [Idx -> SUBSET Idx] /\ \A i \in r.fl : r.sl[i] # {}
  BY <1>1, <1>2 DEF HeadsTyped
<1>6. HeadsTyped(r)
  BY <1>3, <1>4, <1>5 DEF HeadsTyped
<1> QED
  BY <1>6 DEF r

LEMMA InsertTailTyped ==
    ASSUME NEW q, HeadsTyped(q), NEW t \in Threads, NEW p \in Nat
    PROVE  HeadsTyped(insert_ss_tail(q, t, p))
<1> DEFINE s == prio2ij(p)
           none == q.head[s] = NULL
           aux == TailOf(q, s)
<1>1. s \in Slots /\ s[1] \in Idx /\ s[2] \in Idx
  BY Place
<1> HIDE DEF s
<1> DEFINE r == insert_ss_tail(q, t, p)
<1>2. /\ r.head = IF none THEN [q.head EXCEPT ![s] = t] ELSE q.head
      /\ r.next = [u \in Threads |-> IF u = t THEN NULL
                                     ELSE IF ~none /\ u = aux THEN t ELSE q.next[u]]
      /\ r.pos = [q.pos EXCEPT ![t] = s] /\ r.fl = q.fl \cup {s[1]}
      /\ r.sl = [q.sl EXCEPT ![s[1]] = q.sl[s[1]] \cup {s[2]}]
  BY DEF insert_ss_tail, s
<1> HIDE DEF r, aux
<1>3. r.head \in [Slots -> Ptr] /\ r.next \in [Threads -> Ptr]
  BY <1>1, <1>2 DEF HeadsTyped, Ptr
<1>4. r.pos \in [Threads -> Slots \cup {NoPos}]
  BY <1>1, <1>2 DEF HeadsTyped
<1>5. r.fl \subseteq Idx /\ r.sl \in [Idx -> SUBSET Idx] /\ \A i \in r.fl : r.sl[i] # {}
  BY <1>1, <1>2 DEF HeadsTyped
<1>6. HeadsTyped(r)
  BY <1>3, <1>4, <1>5 DEF HeadsTyped
<1> QED
  BY <1>6 DEF r

LEMMA RemoveTyped ==
    ASSUME NEW q, HeadsTyped(q), NEW t \in Threads
    PROVE  HeadsTyped(remove_ss(q, t))
<1>1. CASE q.pos[t] = NoPos
  BY <1>1 DEF remove_ss
<1>2. CASE q.pos[t] # NoPos
  <2> DEFINE s == q.pos[t]
             hd == IF q.head[s] = t THEN q.next[t] ELSE q.head[s]
             row == IF hd = NULL THEN q.sl[s[1]] \ {s[2]} ELSE q.sl[s[1]]
             r == remove_ss(q, t)
  <2>1. s \in Slots /\ s[1] \in Idx /\ s[2] \in Idx
    BY <1>2, SlotFacts DEF HeadsTyped
  <2>2. /\ r.head = [q.head EXCEPT ![s] = hd]
        /\ r.next = [u \in Threads |-> IF u = t THEN NULL
                                       ELSE IF u = q.prev[t] THEN q.next[t] ELSE q.next[u]]
        /\ r.pos = [q.pos EXCEPT ![t] = NoPos]
        /\ r.fl = IF hd = NULL /\ row = {} THEN q.fl \ {s[1]} ELSE q.fl
        /\ r.sl = [q.sl EXCEPT ![s[1]] = row]
    BY <1>2 DEF remove_ss
  <2>3. hd \in Ptr
    BY <2>1 DEF HeadsTyped
  <2> HIDE DEF r, s, hd
  <2>4. r.head \in [Slots -> Ptr] /\ r.next \in [Threads -> Ptr]
    BY <2>1, <2>2, <2>3 DEF HeadsTyped, Ptr
  <2>5. r.pos \in [Threads -> Slots \cup {NoPos}]
    BY <2>2 DEF HeadsTyped
  <2>6. r.fl \subseteq Idx /\ r.sl \in [Idx -> SUBSET Idx] /\ \A i \in r.fl : r.sl[i] # {}
    BY <2>1, <2>2 DEF HeadsTyped
  <2>7. HeadsTyped(r)
    BY <2>4, <2>5, <2>6 DEF HeadsTyped
  <2> QED
    BY <2>7 DEF r
<1> QED
  BY <1>1, <1>2

LEMMA ZeroTyped ==
    ASSUME NEW q, HeadsTyped(q), NEW t \in Threads
    PROVE  HeadsTyped(zero_ss(q, t))
<1>1. <<0, 0>> \in Slots
  BY WidthAssumption DEF Slots, Idx
<1> QED
  BY <1>1 DEF HeadsTyped, zero_ss, Ptr

LEMMA HeadTyped ==
    ASSUME NEW q, HeadsTyped(q)
    PROVE  get_head_ss(q) \in Ptr
<1>1. CASE q.fl = {}
  BY <1>1 DEF get_head_ss, Ptr
<1>2. CASE q.fl # {}
  <2>1. _ffs(q.fl) \in q.fl
    BY <1>2, FirstBit DEF HeadsTyped
  <2>2. PICK i \in Idx : i = _ffs(q.fl) /\ i \in q.fl
    BY <2>1 DEF HeadsTyped
  <2>3. _ffs(q.sl[i]) \in q.sl[i] /\ q.sl[i] \subseteq Idx
    BY <2>2, FirstBit DEF HeadsTyped
  <2>4. <<i, _ffs(q.sl[i])>> \in Slots
    BY <2>2, <2>3, SlotFacts
  <2> QED
    BY <1>2, <2>2, <2>4 DEF get_head_ss, HeadsTyped
<1> QED
  BY <1>1, <1>2

-----------------------------------------------------------------------------
(* The functions of sched.c keep KTyped.                                   *)

LEMMA CreateTyped ==
    ASSUME NEW kk, KTyped(kk), NEW t \in Threads, NEW p \in Nat
    PROVE  KTyped(create_pthread_struct(kk, t, p))
<1>1. HeadsTyped(zero_ss(kk.ss, t))
  BY ZeroTyped DEF KTyped
<1> QED
  BY <1>1 DEF KTyped, KFields, create_pthread_struct

LEMMA DeleteTyped ==
    ASSUME NEW kk, KTyped(kk), NEW t \in Threads
    PROVE  KTyped(delete_pthread_struct(kk, t))
<1>1. HeadsTyped(remove_ss(kk.ss, t))
  BY RemoveTyped DEF KTyped
<1> QED
  BY <1>1 DEF KTyped, KFields, delete_pthread_struct

LEMMA SuspendTyped ==
    ASSUME NEW kk, KTyped(kk), NEW t \in Threads
    PROVE  KTyped(suspend_thread(kk, t))
<1>1. HeadsTyped(remove_ss(kk.ss, t))
  BY RemoveTyped DEF KTyped
<1> QED
  BY <1>1 DEF KTyped, KFields, suspend_thread

LEMMA ActivateTyped ==
    ASSUME NEW kk, KTyped(kk), NEW t \in Threads
    PROVE  KTyped(activate_thread(kk, t))
<1>1. HeadsTyped(insert_ss(kk.ss, t, kk.prio[t]))
  <2>1. PICK p \in Nat : p = kk.prio[t]
    BY DEF KTyped
  <2> QED
    BY <2>1, InsertTyped DEF KTyped
<1> QED
  BY <1>1 DEF KTyped, KFields, activate_thread

LEMMA ChangePrioTyped ==
    ASSUME NEW kk, KTyped(kk), NEW t \in Threads, NEW p \in Nat
    PROVE  KTyped(change_thread_prio(kk, t, p))
<1> DEFINE q == remove_ss(kk.ss, t)
<1>1. HeadsTyped(q)
  BY RemoveTyped DEF KTyped
<1> HIDE DEF q
<1>2. HeadsTyped(insert_ss(q, t, p))
  BY <1>1, InsertTyped
<1> QED
  BY <1>1, <1>2 DEF KTyped, KFields, change_thread_prio, q

LEMMA KStackTyped ==
    ASSUME NEW kk, KTyped(kk), NEW t \in Threads
    PROVE  KTyped(alloc_kstack(kk, t)) /\ KTyped(free_kstack(kk, t))
BY DEF KTyped, KFields, alloc_kstack, free_kstack

LEMMA FinishTyped ==
    ASSUME NEW kk, KTyped(kk), NEW t \in Threads
    PROVE  KTyped(finish_thread(kk, t))
<1> DEFINE k0 == [kk EXCEPT !.ss = remove_ss(kk.ss, t)]
           k1 == free_kstack(k0, t)
<1>1. HeadsTyped(remove_ss(kk.ss, t))
  BY RemoveTyped DEF KTyped
<1>2. KTyped(k0)
  BY <1>1 DEF KTyped, KFields
<1> HIDE DEF k0
<1>3. KTyped(k1)
  BY <1>2, KStackTyped
<1> HIDE DEF k1
<1>4. KTyped([k1 EXCEPT !.state[t] = "FINISHED"])
  BY <1>3 DEF KTyped, KFields
<1> QED
  BY <1>4 DEF finish_thread, k0, k1

LEMMA YieldTyped ==
    ASSUME NEW kk, KTyped(kk), NEW t \in Threads
    PROVE  KTyped(yield_thread(kk, t))
<1> DEFINE q == remove_ss(kk.ss, t)
<1>1. HeadsTyped(q)
  BY RemoveTyped DEF KTyped
<1> HIDE DEF q
<1>2. PICK p \in Nat : p = kk.prio[t]
  BY DEF KTyped
<1>3. HeadsTyped(insert_ss_tail(q, t, p))
  BY <1>1, InsertTailTyped
<1> QED
  BY <1>2, <1>3 DEF KTyped, KFields, yield_thread, q

-----------------------------------------------------------------------------
(* Every step of Sched keeps these types.                                  *)
Typed == KTyped(k) /\ current \in Threads /\ idle \in Threads

LEMMA InitTyped == Init => Typed
<1> SUFFICES ASSUME Init PROVE Typed
  OBVIOUS
<1>1. HeadsTyped(init_ss)
  BY DEF HeadsTyped, init_ss, Ptr
<1>2. HeadsTyped(zero_ss(init_ss, Boot))
  BY <1>1, ZeroTyped, BootAssumption
<1> QED
  BY <1>2, BootAssumption DEF Init, Typed, KTyped, KFields

(* What scheduling() chooses.                                              *)
Chosen == IF get_head_ss(k.ss) = NULL THEN idle ELSE get_head_ss(k.ss)

LEMMA ChosenTyped == Typed => Chosen \in Threads
<1> SUFFICES ASSUME Typed PROVE Chosen \in Threads
  OBVIOUS
<1>1. get_head_ss(k.ss) \in Ptr
  BY HeadTyped DEF Typed, KTyped
<1> QED
  BY <1>1 DEF Chosen, Typed, Ptr

LEMMA SwitchTyped ==
    ASSUME Typed, NEW new \in Threads, context_switch_to(new)
    PROVE  KTyped(k') /\ current' \in Threads
BY KStackTyped DEF Typed, context_switch_to

LEMMA SchedulingTyped == Typed /\ Scheduling => KTyped(k') /\ current' \in Threads
<1> SUFFICES ASSUME Typed, Scheduling PROVE KTyped(k') /\ current' \in Threads
  OBVIOUS
<1>1. Chosen \in Threads
  BY ChosenTyped
<1>2. CASE Chosen = current
  BY <1>2 DEF Scheduling, Chosen, Typed
<1>3. CASE Chosen # current
  <2>1. context_switch_to(Chosen)
    BY <1>3 DEF Scheduling, Chosen
  <2> QED
    BY <1>1, <2>1, SwitchTyped
<1> QED
  BY <1>2, <1>3

LEMMA CreateIdleTyped ==
    ASSUME Typed, NEW t \in Threads, CreateIdle(t)
    PROVE  Typed'
<1> DEFINE k0 == create_pthread_struct(k, t, MIN_SCHED_PRIORITY)
           k1 == activate_thread(k0, t)
           k2 == alloc_kstack(k1, t)
           k3 == finish_thread(k2, idle)
           k4 == suspend_thread(k3, t)
           k5 == change_thread_prio(k4, t, IDLE_SCHED_PRIORITY)
           k6 == activate_thread(k5, t)
<1>1. MIN_SCHED_PRIORITY \in Nat /\ IDLE_SCHED_PRIORITY \in Nat
  <2>1. Width * Width >= 2
    <3>1. \A w \in Nat : w > 1 => w * w >= 2
      OBVIOUS
    <3> QED
      BY <3>1, WidthAssumption, ParamAssumption
  <2> QED
    BY <2>1, LevelsNat DEF MIN_SCHED_PRIORITY, IDLE_SCHED_PRIORITY, Levels
<1>2. KTyped(k0)
  BY <1>1, CreateTyped DEF Typed
<1> HIDE DEF k0
<1>3. KTyped(k1)
  BY <1>2, ActivateTyped
<1> HIDE DEF k1
<1>4. KTyped(k2)
  BY <1>3, KStackTyped
<1> HIDE DEF k2
<1>5. KTyped(k3)
  BY <1>4, FinishTyped DEF Typed
<1> HIDE DEF k3
<1>6. KTyped(k4)
  BY <1>5, SuspendTyped
<1> HIDE DEF k4
<1>7. KTyped(k5)
  BY <1>1, <1>6, ChangePrioTyped
<1> HIDE DEF k5
<1>8. KTyped(k6)
  BY <1>7, ActivateTyped
<1>9. k' = k6 /\ current' = t /\ idle' = t
  BY DEF CreateIdle, k6, k5, k4, k3, k2, k1, k0
<1> HIDE DEF k6
<1> QED
  BY <1>8, <1>9 DEF Typed

LEMMA NextTyped == Typed /\ Next => Typed'
<1> SUFFICES ASSUME Typed, Next PROVE Typed'
  OBVIOUS
<1>0. KTyped(k) /\ current \in Threads /\ idle \in Threads
  BY DEF Typed
<1>1. CASE SyscallEnter \/ SyscallReturn \/ IrqEnter \/ IrqReturn
  BY <1>0, <1>1 DEF SyscallEnter, SyscallReturn, IrqEnter, IrqReturn, Typed
<1>2. CASE Suspend
  BY <1>0, <1>2, SuspendTyped DEF Suspend, KernelStep, Typed
<1>3. CASE Finish
  BY <1>0, <1>3, FinishTyped DEF Finish, KernelStep, Typed
<1>4. CASE pthread_yield_sys
  BY <1>0, <1>4, YieldTyped DEF pthread_yield_sys, KernelStep, Typed
<1>5. CASE CallScheduling
  BY <1>0, <1>5, SchedulingTyped DEF CallScheduling, Typed
<1>6. CASE IrqExit
  <2>1. CASE pend
    BY <1>0, <1>6, <2>1, SchedulingTyped DEF IrqExit, Typed
  <2>2. CASE ~pend
    BY <1>0, <1>6, <2>2 DEF IrqExit, Typed
  <2> QED
    BY <2>1, <2>2
<1>7. ASSUME NEW t \in Threads, ThreadStep(t) PROVE Typed'
  <2>1. CASE CreateIdle(t)
    BY <2>1, CreateIdleTyped
  <2>2. CASE Activate(t)
    BY <1>0, <2>2, ActivateTyped DEF Activate, KernelStep, Typed
  <2>3. CASE Delete(t)
    BY <1>0, <2>3, DeleteTyped DEF Delete, Forget, Typed
  <2>4. CASE pthread_delete_np_sys(t)
    <3>1. KTyped(finish_thread(k, t))
      BY <1>0, FinishTyped
    <3>2. KTyped(delete_pthread_struct(finish_thread(k, t), t))
      BY <3>1, DeleteTyped
    <3> QED
      BY <1>0, <2>4, <3>2 DEF pthread_delete_np_sys, Forget, Typed
  <2>5. CASE IrqWake(t)
    BY <1>0, <2>5, ActivateTyped DEF IrqWake, Typed
  <2>6. ASSUME NEW p \in Params, Create(t, p) \/ SetPrio(t, p) PROVE Typed'
    <3>0. p \in Nat
      BY ParamAssumption
    <3>1. KTyped(create_pthread_struct(k, t, p))
      BY <1>0, <3>0, CreateTyped
    <3>2. KTyped(activate_thread(create_pthread_struct(k, t, p), t))
      BY <3>1, ActivateTyped
    <3>3. KTyped(change_thread_prio(k, t, p))
      BY <1>0, <3>0, ChangePrioTyped
    <3>4. CASE Create(t, p)
      BY <1>0, <3>1, <3>2, <3>4 DEF Create, KernelStep, Typed
    <3>5. CASE SetPrio(t, p)
      BY <1>0, <3>3, <3>5 DEF SetPrio, KernelStep, Typed
    <3> QED
      BY <2>6, <3>4, <3>5
  <2> QED
    BY <1>7, <2>1, <2>2, <2>3, <2>4, <2>5, <2>6 DEF ThreadStep
<1> QED
  BY <1>1, <1>2, <1>3, <1>4, <1>5, <1>6, <1>7 DEF Next, CurrentStep

-----------------------------------------------------------------------------
(* The functions of the kernel are the same in Atomic.                     *)

LEMMA SameStruct ==
    /\ Atomic!init_ss = init_ss
    /\ \A q : Atomic!get_head_ss(q) = get_head_ss(q)
    /\ \A q, t : Atomic!remove_ss(q, t) = remove_ss(q, t) /\ Atomic!zero_ss(q, t) = zero_ss(q, t)
    /\ \A q, t, p : Atomic!insert_ss(q, t, p) = insert_ss(q, t, p)
    /\ \A q, t, p : Atomic!insert_ss_tail(q, t, p) = insert_ss_tail(q, t, p)
<1>1. Atomic!init_ss = init_ss
  BY DEF init_ss, Atomic!init_ss, Slots, Atomic!Slots, Idx, Atomic!Idx, NoPos, Atomic!NoPos
<1>2. \A q : Atomic!get_head_ss(q) = get_head_ss(q)
  BY DEF get_head_ss, Atomic!get_head_ss, _ffs, Atomic!_ffs
<1>3. \A q, t : Atomic!remove_ss(q, t) = remove_ss(q, t)
  BY DEF remove_ss, Atomic!remove_ss, NoPos, Atomic!NoPos
<1>4. \A q, t : Atomic!zero_ss(q, t) = zero_ss(q, t)
  BY DEF zero_ss, Atomic!zero_ss
<1>5. \A q, t, p : Atomic!insert_ss(q, t, p) = insert_ss(q, t, p)
  BY DEF insert_ss, Atomic!insert_ss, prio2ij, Atomic!prio2ij, Level, Atomic!Level,
         Levels, Atomic!Levels
<1>6. \A q, t, p : Atomic!insert_ss_tail(q, t, p) = insert_ss_tail(q, t, p)
  BY DEF insert_ss_tail, Atomic!insert_ss_tail, TailOf, Atomic!TailOf, InList, Atomic!InList,
         prio2ij, Atomic!prio2ij, Level, Atomic!Level, Levels, Atomic!Levels
<1> QED
  BY <1>1, <1>2, <1>3, <1>4, <1>5, <1>6

LEMMA SameStack ==
    \A kk, t : /\ Atomic!alloc_kstack(kk, t) = alloc_kstack(kk, t)
               /\ Atomic!free_kstack(kk, t) = free_kstack(kk, t)
BY DEF alloc_kstack, free_kstack, KStacks, _ffs,
       Atomic!alloc_kstack, Atomic!free_kstack, Atomic!KStacks, Atomic!_ffs

LEMMA SameKernel ==
    /\ \A kk, t, p : Atomic!create_pthread_struct(kk, t, p) = create_pthread_struct(kk, t, p)
    /\ \A kk, t, p : Atomic!change_thread_prio(kk, t, p) = change_thread_prio(kk, t, p)
    /\ \A kk, t : /\ Atomic!delete_pthread_struct(kk, t) = delete_pthread_struct(kk, t)
                  /\ Atomic!suspend_thread(kk, t) = suspend_thread(kk, t)
                  /\ Atomic!activate_thread(kk, t) = activate_thread(kk, t)
                  /\ Atomic!finish_thread(kk, t) = finish_thread(kk, t)
                  /\ Atomic!yield_thread(kk, t) = yield_thread(kk, t)
<1>1. \A kk, t, p : Atomic!create_pthread_struct(kk, t, p) = create_pthread_struct(kk, t, p)
  BY SameStruct DEF create_pthread_struct, Atomic!create_pthread_struct
<1>2. \A kk, t, p : Atomic!change_thread_prio(kk, t, p) = change_thread_prio(kk, t, p)
  BY SameStruct DEF change_thread_prio, Atomic!change_thread_prio
<1>3. \A kk, t : Atomic!delete_pthread_struct(kk, t) = delete_pthread_struct(kk, t)
  BY SameStruct, ZenonT(30) DEF delete_pthread_struct, Atomic!delete_pthread_struct
<1>4. \A kk, t : Atomic!suspend_thread(kk, t) = suspend_thread(kk, t)
  BY SameStruct DEF suspend_thread, Atomic!suspend_thread
<1>5. \A kk, t : Atomic!activate_thread(kk, t) = activate_thread(kk, t)
  BY SameStruct DEF activate_thread, Atomic!activate_thread
<1>6. \A kk, t : Atomic!finish_thread(kk, t) = finish_thread(kk, t)
  BY SameStruct, SameStack DEF finish_thread, Atomic!finish_thread
<1>7. \A kk, t : Atomic!yield_thread(kk, t) = yield_thread(kk, t)
  BY SameStruct DEF yield_thread, Atomic!yield_thread
<1> QED
  BY <1>1, <1>2, <1>3, <1>4, <1>5, <1>6, <1>7

LEMMA SameFrame == \A t : Atomic!Frame(t) = Frame(t)
BY DEF Frame, Atomic!Frame

(* Outside critical sections a step of Sched is one of Atomic.             *)
Kept == Complete(k) = k /\ (Complete(k))' = k'

LEMMA SameKernelStep ==
    ASSUME Kept, NEW kk, NEW b
    PROVE  KernelStep(kk, b) => Atomic!KernelStep(kk, b)
BY SameFrame DEF Kept, KernelStep, Atomic!KernelStep

LEMMA SameInKernel ==
    ASSUME Complete(k) = k
    PROVE  (Atomic!InKernel <=> InKernel) /\ (Atomic!Free <=> Free) /\ (Atomic!InSyscall <=> InSyscall)
BY SameFrame DEF InKernel, Atomic!InKernel, Free, Atomic!Free, InSyscall, Atomic!InSyscall

LEMMA SameSwitch ==
    ASSUME Kept, NEW new, context_switch_to(new)
    PROVE  Atomic!context_switch_to(new)
BY SameFrame, SameStack DEF Kept, context_switch_to, Atomic!context_switch_to

LEMMA SameScheduling == Kept /\ Scheduling => Atomic!Scheduling
<1> SUFFICES ASSUME Kept, Scheduling PROVE Atomic!Scheduling
  OBVIOUS
<1>1. Atomic!get_head_ss(Complete(k).ss) = get_head_ss(k.ss)
  BY SameStruct DEF Kept
<1>2. CASE Chosen = current
  BY <1>1, <1>2, SameFrame DEF Kept, Scheduling, Atomic!Scheduling, Chosen
<1>3. CASE Chosen # current
  BY <1>1, <1>3, SameSwitch DEF Scheduling, Atomic!Scheduling, Chosen
<1> QED
  BY <1>2, <1>3

LEMMA SameNext == Kept /\ Next => Atomic!Next
<1> SUFFICES ASSUME Kept, Next PROVE Atomic!Next
  OBVIOUS
<1>0. Complete(k) = k /\ (Complete(k))' = k'
  BY DEF Kept
<1>1. CASE SyscallEnter
  BY <1>0, <1>1 DEF SyscallEnter, Atomic!SyscallEnter, Atomic!Next, Atomic!CurrentStep
<1>2. CASE SyscallReturn
  BY <1>0, <1>2, SameInKernel DEF SyscallReturn, Atomic!SyscallReturn, Atomic!Next, Atomic!CurrentStep
<1>3. CASE IrqEnter
  BY <1>0, <1>3 DEF IrqEnter, Atomic!IrqEnter, Atomic!Next, Atomic!CurrentStep
<1>4. CASE IrqReturn
  BY <1>0, <1>4, SameInKernel DEF IrqReturn, Atomic!IrqReturn, Atomic!Next, Atomic!CurrentStep
<1>5. CASE Suspend
  BY <1>0, <1>5, SameInKernel, SameKernelStep, SameKernel
     DEF Suspend, Atomic!Suspend, Atomic!Next, Atomic!CurrentStep
<1>6. CASE Finish
  BY <1>0, <1>6, SameInKernel, SameKernelStep, SameKernel
     DEF Finish, Atomic!Finish, Atomic!Next, Atomic!CurrentStep
<1>7. CASE pthread_yield_sys
  BY <1>0, <1>7, SameInKernel, SameKernelStep, SameKernel
     DEF pthread_yield_sys, Atomic!pthread_yield_sys, Atomic!Next, Atomic!CurrentStep
<1>8. CASE CallScheduling
  BY <1>0, <1>8, SameInKernel, SameScheduling, SameFrame
     DEF CallScheduling, Atomic!CallScheduling, Atomic!Next, Atomic!CurrentStep
<1>9. CASE IrqExit
  <2>1. Atomic!IrqExit
    BY <1>0, <1>9, SameScheduling DEF IrqExit, Atomic!IrqExit
  <2> QED
    BY <2>1 DEF Atomic!Next, Atomic!CurrentStep
<1>10. ASSUME NEW t \in Threads, ThreadStep(t) PROVE Atomic!Next
  <2> SUFFICES Atomic!ThreadStep(t)
    BY DEF Atomic!Next
  <2>1. CASE CreateIdle(t)
    BY <1>0, <2>1, SameKernel, SameStack
       DEF CreateIdle, Atomic!CreateIdle, Atomic!ThreadStep, MIN_SCHED_PRIORITY, IDLE_SCHED_PRIORITY,
           Atomic!MIN_SCHED_PRIORITY, Atomic!IDLE_SCHED_PRIORITY, Levels, Atomic!Levels
  <2>2. CASE Activate(t)
    BY <1>0, <2>2, SameInKernel, SameKernelStep, SameKernel
       DEF Activate, Atomic!Activate, Atomic!ThreadStep
  <2>3. CASE Delete(t)
    BY <1>0, <2>3, SameInKernel, SameKernel
       DEF Delete, Atomic!Delete, Forget, Atomic!Forget, Atomic!ThreadStep, Frames, Atomic!Frames
  <2>4. CASE pthread_delete_np_sys(t)
    BY <1>0, <2>4, SameInKernel, SameKernel, SameFrame
       DEF pthread_delete_np_sys, Atomic!pthread_delete_np_sys, Forget, Atomic!Forget,
           Atomic!ThreadStep, Frames, Atomic!Frames
  <2>5. CASE IrqWake(t)
    BY <1>0, <2>5, SameKernel DEF IrqWake, Atomic!IrqWake, Atomic!ThreadStep
  <2>6. ASSUME NEW p \in Params, Create(t, p) PROVE Atomic!ThreadStep(t)
    BY <1>0, <2>6, SameInKernel, SameKernelStep, SameKernel
       DEF Create, Atomic!Create, Atomic!ThreadStep, MIN_SCHED_PRIORITY, MAX_SCHED_PRIORITY,
           Atomic!MIN_SCHED_PRIORITY, Atomic!MAX_SCHED_PRIORITY, Levels, Atomic!Levels
  <2>7. ASSUME NEW p \in Params, SetPrio(t, p) PROVE Atomic!ThreadStep(t)
    BY <1>0, <2>7, SameInKernel, SameKernelStep, SameKernel
       DEF SetPrio, Atomic!SetPrio, Atomic!ThreadStep
  <2> QED
    BY <1>10, <2>1, <2>2, <2>3, <2>4, <2>5, <2>6, <2>7 DEF ThreadStep
<1> QED
  BY <1>1, <1>2, <1>3, <1>4, <1>5, <1>6, <1>7, <1>8, <1>9, <1>10 DEF Next, CurrentStep

-----------------------------------------------------------------------------
(* Only the current thread can be inside a critical section; as interrupts *)
(* are masked it is still in its system call, and what it chose in         *)
(* scheduling() is still what it would choose now.                         *)
Inside(t) ==
    /\ t = current /\ InKernel /\ ctx[t] = "sys"
    /\ half[t].op = "switch" => Frame(t) \in resched /\ half[t].arg = Chosen

WindowInv ==
    /\ Typed /\ half \in [Threads -> Halves]
    /\ \A t \in Threads : half[t] # Whole => Inside(t)

Shut == \A t \in Threads : half[t] = Whole

LEMMA ShutKept == current \in Threads /\ Shut => ~Busy /\ Complete(k) = k
BY DEF Shut, Busy, Complete

LEMMA NotBusyShut == WindowInv /\ ~Busy => Shut
BY DEF WindowInv, Inside, Busy, Shut

LEMMA WholeHalf == Whole \in Halves
BY DEF Whole, Halves, Ptr

LEMMA WindowInit == WInit => WindowInv /\ Atomic!Init
<1> SUFFICES ASSUME WInit PROVE WindowInv /\ Atomic!Init
  OBVIOUS
<1>1. Typed /\ half = [t \in Threads |-> Whole]
  BY InitTyped DEF WInit
<1>2. Shut
  BY <1>1 DEF Shut
<1>3. WindowInv
  BY <1>1, <1>2, WholeHalf DEF WindowInv, Shut
<1>4. Complete(k) = k
  BY <1>1, <1>2, ShutKept DEF Typed
<1>5. Atomic!Init
  BY <1>4, SameStruct DEF WInit, Init, Atomic!Init
<1> QED
  BY <1>3, <1>5

(* A step of Sched outside critical sections that leaves half alone.       *)
LEMMA OutsideStep ==
    ASSUME WindowInv, ~Busy, Next, UNCHANGED half
    PROVE  WindowInv' /\ Atomic!Next
<1>1. Shut /\ Shut'
  BY NotBusyShut DEF Shut
<1>2. Typed /\ Typed'
  BY NextTyped DEF WindowInv
<1>3. WindowInv'
  BY <1>1, <1>2 DEF WindowInv, Shut
<1>4. Complete(k) = k
  BY <1>1, <1>2, ShutKept DEF Typed
<1>5. (Complete(k))' = k'
  BY <1>1, <1>2 DEF Shut, Busy, Complete, Typed
<1> QED
  BY <1>3, <1>4, <1>5, SameNext DEF Kept

(* The second halves change the states of threads only.                    *)
LEMMA CompleteTyped == KTyped(k) => KTyped(Complete(k))
BY DEF KTyped, KFields, Complete

LEMMA FirstHalf ==
    ASSUME WindowInv, InCall, NEW op \in {"suspend", "activate", "switch"}, NEW a \in Ptr,
           Open(op, a), KTyped(k'), ~k'.fault, UNCHANGED <<current, idle, ctx, nest>>,
           op = "switch" => (Frame(current) \in resched /\ a = Chosen)'
    PROVE  WindowInv'
<1>1. half' = [half EXCEPT ![current] = [op |-> op, arg |-> a]] /\ current \in Threads /\ Typed'
  BY DEF Open, WindowInv, Typed
<1>2. [op |-> op, arg |-> a] \in Halves
  BY DEF Halves
<1>3. half' \in [Threads -> Halves] /\ half'[current] = [op |-> op, arg |-> a]
  BY <1>1, <1>2 DEF WindowInv
<1>4. \A t \in Threads : t # current => half'[t] = Whole
  BY <1>1, NotBusyShut DEF WindowInv, InCall, Shut
<1>5. Inside(current)'
  BY <1>1, <1>3 DEF Inside, InCall, InKernel
<1> QED
  BY <1>1, <1>3, <1>4, <1>5 DEF WindowInv

LEMMA LastHalf ==
    ASSUME WindowInv, Busy, Close, Typed'
    PROVE  WindowInv' /\ (Complete(k))' = k'
<1>1. half' = [half EXCEPT ![current] = Whole] /\ current \in Threads
  BY DEF Close, WindowInv, Typed
<1>2. half' \in [Threads -> Halves] /\ Shut'
  BY <1>1, WholeHalf DEF WindowInv, Inside, Shut
<1>3. WindowInv'
  BY <1>2 DEF WindowInv, Shut
<1>4. (Complete(k))' = k'
  BY <1>2 DEF Shut, Busy, Complete, Typed
<1> QED
  BY <1>3, <1>4

(* Every step of the opened-up kernel is a step of Sched, or completes or  *)
(* chooses something that nobody else can see yet.                         *)
LEMMA WindowStep ==
    ASSUME WindowInv, WNext, ~(Busy /\ IrqEnterWindow)
    PROVE  WindowInv' /\ (Atomic!Next \/ UNCHANGED Atomic!vars)
<1>0. KTyped(k) /\ current \in Threads /\ idle \in Threads /\ half \in [Threads -> Halves]
  BY DEF WindowInv, Typed
<1>1. CASE WholeStep
  <2>1. ~Busy /\ Next /\ UNCHANGED half
    BY <1>1 DEF WholeStep, Next, CurrentStep, ThreadStep
  <2> QED
    BY <2>1, OutsideStep
<1>2. CASE IrqEnterWindow
  <2>1. ~Busy /\ Next /\ UNCHANGED half
    BY <1>2 DEF IrqEnterWindow, Next, CurrentStep
  <2> QED
    BY <2>1, OutsideStep
<1>3. CASE SuspendFirst
  <2> DEFINE k1 == [k EXCEPT !.ss = remove_ss(k.ss, current)]
  <2>1. /\ InCall /\ Free /\ current # idle /\ KernelStep(k1, TRUE) /\ Open("suspend", NULL)
    BY <1>3 DEF SuspendFirst
  <2>2. HeadsTyped(remove_ss(k.ss, current))
    BY <1>0, RemoveTyped DEF KTyped
  <2>3. k' = k1 /\ KTyped(k1) /\ k1.fault = k.fault
    BY <1>0, <2>1, <2>2 DEF KernelStep, KTyped, KFields
  <2>4. WindowInv'
    BY <2>1, <2>3, FirstHalf DEF KernelStep, Ptr, InCall, InKernel
  <2>5. Complete(k) = k
    BY <2>1 DEF InCall, Complete
  <2>6. half'[current'] = [op |-> "suspend", arg |-> NULL] /\ current' = current /\ ctx' = ctx
    BY <1>0, <2>1 DEF Open, KernelStep
  <2>7. Busy'
    BY <2>1, <2>6 DEF Busy, InCall, Whole
  <2>8. (Complete(k))' = [k' EXCEPT !.state[current'] = IF k'.state[current'] = "FINISHED" THEN k'.state[current'] ELSE "SUSPENDED"]
    BY <2>6, <2>7 DEF Complete
  <2>9. (Complete(k))' = suspend_thread(k, current)
    BY <1>0, <2>3, <2>6, <2>8 DEF suspend_thread, KTyped, KFields
  <2>10. Atomic!KernelStep(Atomic!suspend_thread(Complete(k), current), TRUE)
    BY <2>1, <2>5, <2>9, SameFrame, SameKernel DEF KernelStep, Atomic!KernelStep
  <2>11. Atomic!Suspend
    BY <2>1, <2>5, <2>10, SameInKernel DEF Atomic!Suspend
  <2> QED
    BY <2>4, <2>11 DEF Atomic!Next, Atomic!CurrentStep
<1>4. ASSUME NEW t \in Threads, ActivateFirst(t) PROVE WindowInv' /\ Atomic!Next
  <2> DEFINE k1 == [k EXCEPT !.ss = insert_ss(k.ss, t, k.prio[t])]
  <2>1. PICK b \in BOOLEAN :
          InCall /\ k.state[t] = "SUSPENDED" /\ KernelStep(k1, b) /\ Open("activate", t)
    BY <1>4 DEF ActivateFirst
  <2>2. HeadsTyped(insert_ss(k.ss, t, k.prio[t]))
    <3>1. PICK p \in Nat : p = k.prio[t]
      BY <1>0 DEF KTyped
    <3> QED
      BY <1>0, <3>1, InsertTyped DEF KTyped
  <2>3. k' = k1 /\ KTyped(k1) /\ k1.fault = k.fault
    BY <1>0, <2>1, <2>2 DEF KernelStep, KTyped, KFields
  <2>4. WindowInv'
    BY <2>1, <2>3, FirstHalf DEF KernelStep, Ptr, InCall, InKernel
  <2>5. Complete(k) = k
    BY <2>1 DEF InCall, Complete
  <2>6. half'[current'] = [op |-> "activate", arg |-> t] /\ current' = current /\ ctx' = ctx
    BY <1>0, <2>1 DEF Open, KernelStep
  <2>7. Busy'
    BY <2>1, <2>6 DEF Busy, InCall, Whole
  <2>8. (Complete(k))' = [k' EXCEPT !.state[t] = "READY"]
    BY <2>6, <2>7 DEF Complete
  <2>9. (Complete(k))' = activate_thread(k, t)
    BY <1>0, <2>1, <2>3, <2>8 DEF activate_thread, KTyped, KFields
  <2>10. Atomic!KernelStep(Atomic!activate_thread(Complete(k), t), b)
    BY <2>1, <2>5, <2>9, SameFrame, SameKernel DEF KernelStep, Atomic!KernelStep
  <2>11. Atomic!Activate(t)
    BY <2>1, <2>5, <2>10, SameInKernel DEF Atomic!Activate, InCall
  <2> QED
    BY <2>4, <2>11 DEF Atomic!Next, Atomic!ThreadStep
<1>5. CASE SecondHalf
  <2>1. InKernel /\ Busy /\ KernelStep(Complete(k), FALSE) /\ Close
    BY <1>5 DEF SecondHalf
  <2>2. Typed'
    BY <1>0, <2>1, CompleteTyped DEF KernelStep, Typed
  <2>3. WindowInv' /\ (Complete(k))' = k'
    BY <2>1, <2>2, LastHalf
  <2> QED
    BY <2>1, <2>3 DEF KernelStep, Atomic!vars
<1>6. CASE SchedulingChoose
  <2>1. InCall /\ Frame(current) \in resched /\ Open("switch", Chosen) /\ UNCHANGED vars
    BY <1>6 DEF SchedulingChoose, Chosen
  <2>2. Chosen \in Threads /\ Chosen' = Chosen
    BY <2>1, ChosenTyped DEF WindowInv, Chosen, vars
  <2>3. (Frame(current) \in resched)'
    BY <2>1 DEF Frame, vars
  <2>4. WindowInv'
    BY <1>0, <2>1, <2>2, <2>3, FirstHalf DEF vars, Ptr, InCall, InKernel
  <2>5. Complete(k) = k
    BY <2>1 DEF InCall, Complete
  <2>6. half'[current'] = [op |-> "switch", arg |-> Chosen] /\ k' = k
    BY <1>0, <2>1 DEF Open, vars
  <2>7. (Complete(k))' = k'
    BY <2>6 DEF Complete
  <2> QED
    BY <2>1, <2>4, <2>5, <2>6, <2>7 DEF vars, Atomic!vars
<1>7. CASE SchedulingSwitch
  <2>1. InKernel /\ Busy /\ half[current].op = "switch" /\ Close /\ UNCHANGED <<idle, nest>>
    BY <1>7 DEF SchedulingSwitch
  <2>2. Frame(current) \in resched /\ half[current].arg = Chosen
    BY <1>0, <2>1 DEF WindowInv, Inside, Busy
  <2>3. Scheduling
    BY <1>7, <2>2 DEF SchedulingSwitch, Scheduling, Chosen
  <2>4. CallScheduling
    BY <2>1, <2>2, <2>3 DEF CallScheduling
  <2>5. Typed'
    BY <1>0, <2>1, <2>3, SchedulingTyped DEF Typed
  <2>6. WindowInv' /\ (Complete(k))' = k'
    BY <2>1, <2>5, LastHalf
  <2>7. Complete(k) = k
    BY <2>1 DEF Complete
  <2>8. Next
    BY <2>4 DEF Next, CurrentStep
  <2> QED
    BY <2>6, <2>7, <2>8, SameNext DEF Kept
<1> QED
  BY <1>1, <1>2, <1>3, <1>4, <1>5, <1>6, <1>7 DEF WNext

LEMMA WindowStutter == WindowInv /\ UNCHANGED wvars => WindowInv' /\ UNCHANGED Atomic!vars
<1> SUFFICES ASSUME WindowInv, UNCHANGED wvars PROVE WindowInv' /\ UNCHANGED Atomic!vars
  OBVIOUS
<1>1. UNCHANGED <<k, current, idle, ctx, resched, irq_on, nest, pend, half>>
  BY DEF wvars
<1>2. WindowInv'
  BY <1>1 DEF WindowInv, Typed, Inside, InKernel, Frame, Chosen
<1>3. (Complete(k))' = Complete(k)
  BY <1>1 DEF Complete, Busy
<1> QED
  BY <1>1, <1>2, <1>3 DEF Atomic!vars

(* Whichever hw_save_flags_and_cli is built: as long as no interrupt comes *)
(* inside a critical section, the kernel with opened-up sections           *)
(* implements Sched, for every number of threads, priorities and kernel    *)
(* stacks.  An interrupt there is thus the only way in which               *)
(* suspend_thread, activate_thread and scheduling() of the system calls    *)
(* are less than single steps.  (The window_l4 run shows that it is one.)  *)
THEOREM SectionsAreAtomic == WSpec /\ Uninterrupted => CriticalSectionsAtomic
<1> DEFINE NotInside == ~(Busy /\ IrqEnterWindow)
<1>1. WindowInv /\ [WNext]_wvars /\ [NotInside]_wvars => WindowInv'
  BY WindowStep, WindowStutter
<1>2. WindowInv /\ [WNext]_wvars /\ [NotInside]_wvars => [Atomic!Next]_Atomic!vars
  BY WindowStep, WindowStutter
<1> QED
  BY <1>1, <1>2, WindowInit, PTL DEF WSpec, Uninterrupted, CriticalSectionsAtomic, Atomic!Spec

(* A hw_save_flags_and_cli that masks interrupts, as the versions that are *)
(* not compiled do, is enough for that.                                    *)
COROLLARY MaskingIsEnough == CliMasks => (WSpec => CriticalSectionsAtomic)
<1> SUFFICES ASSUME CliMasks PROVE WSpec => CriticalSectionsAtomic
  OBVIOUS
<1>1. [~(Busy /\ IrqEnterWindow)]_wvars
  BY DEF IrqEnterWindow
<1>2. Uninterrupted
  BY <1>1, PTL DEF Uninterrupted
<1> QED
  BY <1>2, SectionsAreAtomic, PTL
=============================================================================
