-------------------------- MODULE ThreadLifeProofs --------------------------
(***************************************************************************)
(* Signals and the life of threads, for any number of threads, signals and *)
(* nested handlers: the mask of the application comes back, no signal is   *)
(* forgotten, and a thread that joins another is known to it.              *)
(***************************************************************************)
EXTENDS ThreadLife, KThreadsProofs

-----------------------------------------------------------------------------
(* The stack of a thread.  With n activations of do_signals, the thread is *)
(* at Level(p, fs, n) = pc, and activation j was entered from Level(.., j  *)
(* - 1).  An activation whose level is "sig" has not started: it has taken *)
(* no signals and saved no mask yet.                                       *)
Level(p, fs, j) == IF j = Len(fs) THEN p ELSE fs[j + 1].back

Ends  == {"exit0", "exit1", "dead"}
Inner == {"sig", "loop", "hdl", "slp0", "slp1"}

(* Where a thread can be, on each level.                                   *)
Shape(p, fs) ==
    /\ Level(p, fs, 0) \in {"run", "join", "susp"} \cup Ends
    /\ \A j \in 1 .. Len(fs) : Level(p, fs, j) \in Inner \cup Ends
    /\ Len(fs) > 0 => fs[1].back \in {"run"} \cup Ends

(* The mask with which the application will go on is its own: it is the    *)
(* mask of the thread as long as no activation has started, and otherwise  *)
(* what the outermost one that did has saved.                              *)
OwnMask(p, fs, r) ==
    /\ Len(fs) = 0 /\ p \in {"run", "join"} => r.mask = r.app
    /\ Len(fs) = 0 /\ p = "susp" => r.saved = r.app
    /\ Len(fs) > 0 /\ fs[1].back = "run" =>
           /\ (\A j \in 1 .. Len(fs) : Level(p, fs, j) = "sig") => r.mask = r.app
           /\ \A m \in 1 .. Len(fs) :
                  Level(p, fs, m) # "sig" /\ (\A j \in 1 .. m - 1 : Level(p, fs, j) = "sig")
                      => fs[m].old = r.app

NotTaken(p, fs) == \A j \in 1 .. Len(fs) : Level(p, fs, j) = "sig" => fs[j].left = {}

StackOK(p, fs, r) ==
    /\ fs \in Seq(FrameType) /\ p \in PCs
    /\ Shape(p, fs) /\ OwnMask(p, fs, r) /\ NotTaken(p, fs)

Fresh(b) == [left |-> {}, old |-> {}, back |-> b]

LEMMA FreshType == \A b \in PCs : Fresh(b) \in FrameType
BY DEF Fresh, FrameType

(* Only the mask, the mask the application set, and the saved one matter.  *)
LEMMA StackSame ==
    ASSUME NEW p, NEW fs, NEW r, NEW s, StackOK(p, fs, r),
           s.mask = r.mask, s.app = r.app, s.saved = r.saved
    PROVE  StackOK(p, fs, s)
BY DEF StackOK, OwnMask

(* An interrupt enters do_signals.                                         *)
LEMMA StackPush ==
    ASSUME NEW p \in PCs \ Masked, NEW fs, NEW r, StackOK(p, fs, r)
    PROVE  StackOK("sig", Append(fs, Fresh(p)), r)
<1> DEFINE n == Len(fs)
           gs == Append(fs, Fresh(p))
<1>1. fs \in Seq(FrameType) /\ Fresh(p) \in FrameType /\ n \in Nat
  BY FreshType DEF StackOK
<1>2. /\ gs \in Seq(FrameType) /\ Len(gs) = n + 1
      /\ \A i \in 1 .. n : gs[i] = fs[i] 
      /\ gs[n + 1] = Fresh(p)
  BY <1>1
<1> HIDE DEF gs, n
<1>3. Level("sig", gs, n + 1) = "sig" /\ \A j \in 0 .. n : Level("sig", gs, j) = Level(p, fs, j)
  BY <1>1, <1>2 DEF Level, Fresh, n
<1>4. Shape("sig", gs)
  <2>1. CASE n = 0
    BY <1>1, <1>2, <1>3, <2>1 DEF Shape, StackOK, Fresh, Level, n, Masked, Inner
  <2>2. CASE n > 0
    <3>1. Level("sig", gs, 0) \in {"run", "join", "susp"} \cup Ends
      BY <1>1, <1>3 DEF Shape, StackOK
    <3>2. \A j \in 1 .. n + 1 : Level("sig", gs, j) \in Inner \cup Ends
      BY <1>1, <1>3 DEF Shape, StackOK, Inner, n
    <3>3. gs[1].back \in {"run"} \cup Ends
      BY <1>1, <1>2, <2>2 DEF Shape, StackOK, n
    <3> QED
      BY <1>2, <3>1, <3>2, <3>3 DEF Shape
  <2> QED
    BY <1>1, <2>1, <2>2
<1>5. OwnMask("sig", gs, r)
  <2>1. CASE n = 0
    BY <1>1, <1>2, <1>3, <2>1 DEF OwnMask, StackOK, Fresh, n
  <2>2. CASE n > 0
    <3> SUFFICES ASSUME gs[1].back = "run"
                 PROVE  /\ (\A j \in 1 .. n + 1 : Level("sig", gs, j) = "sig") => r.mask = r.app
                        /\ \A m \in 1 .. n + 1 :
                              Level("sig", gs, m) # "sig" /\ (\A j \in 1 .. m - 1 : Level("sig", gs, j) = "sig")
                                  => gs[m].old = r.app
      BY <1>1, <1>2, <2>2 DEF OwnMask
    <3>1. fs[1].back = "run"
      BY <1>1, <1>2, <2>2
    <3>2. ASSUME \A j \in 1 .. n + 1 : Level("sig", gs, j) = "sig" PROVE r.mask = r.app
      BY <1>1, <1>3, <2>2, <3>1, <3>2 DEF StackOK, OwnMask, n
    <3>3. ASSUME NEW m \in 1 .. n + 1, Level("sig", gs, m) # "sig",
                 \A j \in 1 .. m - 1 : Level("sig", gs, j) = "sig"
          PROVE  gs[m].old = r.app
      <4>1. m \in 1 .. n
        BY <1>1, <1>3, <3>3
      <4> QED
        BY <1>1, <1>2, <1>3, <2>2, <3>1, <3>3, <4>1 DEF StackOK, OwnMask, n
    <3> QED
      BY <3>2, <3>3
  <2> QED
    BY <1>1, <2>1, <2>2
<1>6. NotTaken("sig", gs)
  BY <1>1, <1>2, <1>3 DEF NotTaken, StackOK, Fresh, n
<1> QED
  BY <1>2, <1>4, <1>5, <1>6 DEF StackOK, PCs, gs

(* A system call returns through do_signals.                               *)
LEMMA StackCall ==
    ASSUME NEW p \in {"run", "join", "susp"}, NEW fs, NEW r, NEW s, StackOK(p, fs, r), s.mask = s.app
    PROVE  StackOK("sig", Append(fs, Fresh("run")), s)
<1>1. fs = <<>>
  BY DEF StackOK, Shape, Level, Inner, Ends
<1> DEFINE gs == Append(fs, Fresh("run"))
<1>2. gs \in Seq(FrameType) /\ Len(gs) = 1 /\ gs[1] = Fresh("run")
  BY <1>1, FreshType DEF PCs
<1> HIDE DEF gs
<1>3. Level("sig", gs, 1) = "sig" /\ Level("sig", gs, 0) = "run"
  BY <1>2 DEF Level, Fresh
<1>4. Shape("sig", gs)
  BY <1>2, <1>3 DEF Shape, Inner, Fresh
<1>5. OwnMask("sig", gs, s)
  BY <1>2, <1>3 DEF OwnMask, Fresh
<1>6. NotTaken("sig", gs)
  BY <1>2, <1>3 DEF NotTaken, Fresh
<1> QED
  BY <1>2, <1>4, <1>5, <1>6 DEF StackOK, PCs, gs

LEMMA StackEmpty ==
    ASSUME NEW p \in {"run", "join", "susp"}, NEW fs, NEW r, StackOK(p, fs, r)
    PROVE  fs = <<>>
BY DEF StackOK, Shape, Level, Inner, Ends

(* Without an activation, in the application or in a blocking call.        *)
LEMMA StackBase ==
    ASSUME NEW p \in {"run", "join", "susp"}, NEW r,
           p = "susp" => r.saved = r.app, p # "susp" => r.mask = r.app
    PROVE  StackOK(p, <<>>, r)
BY DEF StackOK, Shape, OwnMask, NotTaken, Level, PCs

(* Exits.                                                                  *)
LEMMA StackEnd ==
    ASSUME NEW p, NEW fs, NEW r, NEW s, StackOK(p, fs, r), p # "sig", NEW q \in Ends,
           s.app = r.app
    PROVE  StackOK(q, fs, s)
<1> DEFINE n == Len(fs)
<1>1. fs \in Seq(FrameType) /\ n \in Nat
  BY DEF StackOK
<1>2. \A j \in 0 .. n : Level(q, fs, j) = IF j = n THEN q ELSE Level(p, fs, j)
  BY <1>1 DEF Level
<1> HIDE DEF n
<1>3. Shape(q, fs)
  BY <1>1, <1>2 DEF Shape, StackOK, Ends, n
<1>4. OwnMask(q, fs, s)
  <2>1. CASE n = 0
    BY <2>1 DEF OwnMask, Ends, n
  <2>2. CASE n # 0 /\ fs[1].back = "run"
    <3>1. ~ \A j \in 1 .. n : Level(q, fs, j) = "sig"
      BY <1>1, <1>2, <2>2 DEF Ends
    <3>2. ASSUME NEW m \in 1 .. n, \A j \in 1 .. m - 1 : Level(q, fs, j) = "sig", Level(q, fs, m) # "sig"
          PROVE  fs[m].old = s.app
      <4>1. Level(p, fs, m) # "sig" /\ \A j \in 1 .. m - 1 : Level(p, fs, j) = "sig"
        BY <1>1, <1>2, <3>2 DEF Level, n
      <4> QED
        BY <1>1, <2>2, <3>2, <4>1 DEF StackOK, OwnMask, n
    <3> QED
      BY <1>1, <2>2, <3>1, <3>2 DEF OwnMask, n
  <2>3. CASE n # 0 /\ fs[1].back # "run"
    BY <1>1, <2>3 DEF OwnMask, n
  <2> QED
    BY <2>1, <2>2, <2>3
<1>5. NotTaken(q, fs)
  BY <1>1, <1>2 DEF NotTaken, StackOK, Ends, n
<1> QED
  BY <1>1, <1>3, <1>4, <1>5 DEF StackOK, PCs, Ends

(* The topmost activation, which has started, goes on.                     *)
LEMMA StackMove ==
    ASSUME NEW p \in PCs \ {"sig"}, NEW fs, NEW gs, NEW r, NEW s, StackOK(p, fs, r), Len(fs) > 0,
           NEW q \in (Inner \ {"sig"}) \cup Ends, s.app = r.app,
           gs \in Seq(FrameType), Len(gs) = Len(fs),
           \A i \in 1 .. Len(fs) : gs[i].old = fs[i].old /\ gs[i].back = fs[i].back,
           \A i \in 1 .. Len(fs) - 1 : gs[i].left = fs[i].left
    PROVE  StackOK(q, gs, s)
<1> DEFINE n == Len(fs)
<1>1. fs \in Seq(FrameType) /\ n \in Nat \ {0}
  BY DEF StackOK
<1>2. \A j \in 0 .. n : Level(q, gs, j) = IF j = n THEN q ELSE Level(p, fs, j)
  BY <1>1 DEF Level
<1> HIDE DEF n
<1>3. Shape(q, gs)
  BY <1>1, <1>2 DEF Shape, StackOK, n
<1>4. OwnMask(q, gs, s)
  <2>1. CASE fs[1].back = "run"
    <3>1. ~ \A j \in 1 .. n : Level(q, gs, j) = "sig"
      BY <1>1, <1>2 DEF Ends
    <3>2. ASSUME NEW m \in 1 .. n, \A j \in 1 .. m - 1 : Level(q, gs, j) = "sig", Level(q, gs, m) # "sig"
          PROVE  gs[m].old = s.app
      <4>1. Level(p, fs, m) # "sig" /\ \A j \in 1 .. m - 1 : Level(p, fs, j) = "sig"
        <5>1. Level(p, fs, n) # "sig"
          BY DEF Level, n
        <5>2. \A j \in 1 .. m - 1 : Level(p, fs, j) = Level(q, gs, j)
          BY <1>1, <1>2
        <5>3. m # n => Level(p, fs, m) = Level(q, gs, m)
          BY <1>1, <1>2
        <5> QED
          BY <3>2, <5>1, <5>2, <5>3
      <4>2. fs[m].old = r.app
        BY <1>1, <2>1, <3>2, <4>1 DEF StackOK, OwnMask, n
      <4> QED
        BY <4>2 DEF n
    <3> QED
      BY <1>1, <2>1, <3>1, <3>2 DEF OwnMask, n
  <2>2. CASE fs[1].back # "run"
    BY <1>1, <2>2 DEF OwnMask, n
  <2> QED
    BY <2>1, <2>2
<1>5. NotTaken(q, gs)
  BY <1>1, <1>2 DEF NotTaken, StackOK, Ends, n
<1> QED
  BY <1>1, <1>3, <1>4, <1>5 DEF StackOK, PCs, Ends, Inner

(* do_signals starts: it takes signals and saves the mask.                 *)
LEMMA StackStart ==
    ASSUME NEW fs, NEW gs, NEW r, NEW s, StackOK("sig", fs, r), s.app = r.app,
           gs \in Seq(FrameType), Len(gs) = Len(fs),
           \A i \in 1 .. Len(fs) : gs[i].back = fs[i].back,
           \A i \in 1 .. Len(fs) - 1 : gs[i] = fs[i],
           gs[Len(fs)].old = r.mask
    PROVE  StackOK("loop", gs, s)
<1> DEFINE n == Len(fs)
<1>1. fs \in Seq(FrameType) /\ n \in Nat
  BY DEF StackOK
<1>2. n # 0
  BY DEF StackOK, Shape, Level, Ends
<1>3. \A j \in 0 .. n : Level("loop", gs, j) = IF j = n THEN "loop" ELSE Level("sig", fs, j)
  BY <1>1 DEF Level
<1>4. Level("sig", fs, n) = "sig"
  BY DEF Level
<1> HIDE DEF n
<1>5. Shape("loop", gs)
  BY <1>1, <1>2, <1>3 DEF Shape, StackOK, Inner, n
<1>6. OwnMask("loop", gs, s)
  <2>1. CASE fs[1].back = "run"
    <3>1. ~ \A j \in 1 .. n : Level("loop", gs, j) = "sig"
      <4>1. n \in 1 .. n /\ Level("loop", gs, n) = "loop"
        BY <1>1, <1>2, <1>3
      <4> QED
        BY <4>1
    <3>2. ASSUME NEW m \in 1 .. n, \A j \in 1 .. m - 1 : Level("loop", gs, j) = "sig", Level("loop", gs, m) # "sig"
          PROVE  gs[m].old = s.app
      <4>1. CASE m = n
        <5>1. \A j \in 1 .. n : Level("sig", fs, j) = "sig"
          BY <1>1, <1>3, <1>4, <3>2, <4>1
        <5>2. r.mask = r.app
          BY <1>1, <1>2, <2>1, <5>1 DEF StackOK, OwnMask, n
        <5> QED
          BY <4>1, <5>2 DEF n
      <4>2. CASE m # n
        <5>1. Level("sig", fs, m) # "sig" /\ \A j \in 1 .. m - 1 : Level("sig", fs, j) = "sig"
          BY <1>1, <1>3, <3>2, <4>2
        <5>2. fs[m].old = r.app
          BY <1>1, <1>2, <2>1, <3>2, <5>1 DEF StackOK, OwnMask, n
        <5> QED
          BY <1>1, <3>2, <4>2, <5>2 DEF n
      <4> QED
        BY <4>1, <4>2
    <3> QED
      BY <1>1, <1>2, <2>1, <3>1, <3>2 DEF OwnMask, n
  <2>2. CASE fs[1].back # "run"
    BY <1>1, <1>2, <2>2 DEF OwnMask, n
  <2> QED
    BY <2>1, <2>2
<1>7. NotTaken("loop", gs)
  BY <1>1, <1>3 DEF NotTaken, StackOK, n
<1> QED
  BY <1>1, <1>5, <1>6, <1>7 DEF StackOK, PCs

(* do_signals ends: the thread goes on where it was, with the mask that    *)
(* was saved.                                                              *)
LEMMA StackDone ==
    ASSUME NEW fs, NEW gs, NEW r, NEW s, StackOK("loop", fs, r), s.app = r.app,
           gs \in Seq(FrameType), Len(gs) = Len(fs) - 1,
           \A i \in 1 .. Len(fs) - 1 : gs[i] = fs[i],
           s.mask = fs[Len(fs)].old
    PROVE  Len(fs) > 0 /\ fs[Len(fs)].back \in PCs /\ StackOK(fs[Len(fs)].back, gs, s)
<1> DEFINE n == Len(fs)
           p == fs[n].back
<1>1. fs \in Seq(FrameType) /\ n \in Nat
  BY DEF StackOK
<1>2. n # 0
  BY DEF StackOK, Shape, Level, Ends
<1>3. \A j \in 0 .. n - 1 : Level(p, gs, j) = Level("loop", fs, j)
  BY <1>1, <1>2 DEF Level
<1>4. Level("loop", fs, n) = "loop"
  BY DEF Level
<1>5. p \in PCs
  <2>1. fs[n] \in FrameType
    BY <1>1, <1>2
  <2> QED
    BY <2>1 DEF FrameType
<1> HIDE DEF n, p
<1>6. Shape(p, gs)
  BY <1>1, <1>2, <1>3 DEF Shape, StackOK, n
<1>7. OwnMask(p, gs, s)
  <2>1. CASE n = 1
    <3>1. p \in {"run"} \cup Ends
      BY <2>1 DEF p, StackOK, Shape, n
    <3>2. p = "run" => fs[1].old = r.app
      BY <1>4, <2>1 DEF StackOK, OwnMask, n, p
    <3> QED
      BY <2>1, <3>1, <3>2 DEF OwnMask, Ends, n
  <2>2. CASE n > 1 /\ fs[1].back = "run"
    <3>1. ASSUME \A j \in 1 .. n - 1 : Level(p, gs, j) = "sig" PROVE s.mask = s.app
      <4>1. \A j \in 1 .. n - 1 : Level("loop", fs, j) = "sig"
        BY <1>1, <1>3, <3>1
      <4>2. fs[n].old = r.app
        BY <1>1, <1>4, <2>2, <4>1 DEF StackOK, OwnMask, n
      <4> QED
        BY <4>2 DEF n
    <3>2. ASSUME NEW m \in 1 .. n - 1, \A j \in 1 .. m - 1 : Level(p, gs, j) = "sig", Level(p, gs, m) # "sig"
          PROVE  gs[m].old = s.app
      <4>1. Level("loop", fs, m) # "sig" /\ \A j \in 1 .. m - 1 : Level("loop", fs, j) = "sig"
        BY <1>1, <1>3, <3>2
      <4>2. fs[m].old = r.app
        BY <1>1, <2>2, <3>2, <4>1 DEF StackOK, OwnMask, n
      <4> QED
        BY <1>1, <3>2, <4>2 DEF n
    <3>3. gs[1].back = "run" /\ Len(gs) = n - 1
      BY <2>2 DEF n
    <3> HIDE DEF n
    <3> QED
      BY <1>1, <2>2, <3>1, <3>2, <3>3 DEF OwnMask
  <2>3. CASE n > 1 /\ fs[1].back # "run"
    <3>1. gs[1].back # "run" /\ Len(gs) = n - 1
      BY <2>3 DEF n
    <3> QED
      BY <1>1, <2>3, <3>1 DEF OwnMask
  <2> QED
    BY <1>1, <1>2, <2>1, <2>2, <2>3
<1>8. NotTaken(p, gs)
  BY <1>1, <1>3 DEF NotTaken, StackOK, n
<1>9. StackOK(p, gs, s)
  BY <1>5, <1>6, <1>7, <1>8 DEF StackOK
<1> QED
  BY <1>1, <1>2, <1>5, <1>9 DEF n, p

-----------------------------------------------------------------------------
(* Types, the ready queues, and the running thread: it is READY unless it  *)
(* is in one of the two places where a thread leaves the queues before it  *)
(* calls scheduling().                                                     *)
Runs(t) == \/ k.st[t] = "READY"
           \/ pc[t] = "slp1" /\ k.st[t] = "SUSPENDED"
           \/ pc[t] = "exit1" /\ k.st[t] = "FINISHED"

Records ==
    /\ role \in Roles /\ pc \in [Threads -> PCs] /\ over \in BOOLEAN
    /\ frames \in [Threads -> Seq(FrameType)]
    /\ th \in [Threads -> ThreadType] /\ handler \in [UserSigs -> Actions]
    /\ timer \in [Threads -> BOOLEAN]

LifeInv ==
    /\ Records /\ KSound(k) /\ cur \in Threads \cup {Idle}
    /\ cur # Idle => Exists(cur) /\ (~over => Runs(cur))

(* Each thread: its stack, and the thread that it joins.                   *)
ThreadSound(t) ==
    /\ StackOK(pc[t], frames[t], th[t])
    /\ pc[t] = "join" => th[t].obj \in Threads

(* A thread whose sleep timer runs has not exited.                         *)
Armed == \A t \in Threads : timer[t] => k.st[t] \in {"READY", "SUSPENDED"}

Inv == LifeInv /\ Armed /\ \A t \in Threads : ThreadSound(t)

(* What a role says.                                                       *)
LEMMA RoleType ==
    ASSUME LifeInv
    PROVE  /\ role.threads \subseteq Threads /\ role.joins \subseteq Threads \X Threads
           /\ role.cancel \subseteq Threads /\ role.send \subseteq Signals
           /\ role.to \subseteq Threads /\ role.irqsend \subseteq Signals
BY LifeAssumption DEF LifeInv, Records

LEMMA ThreadFields ==
    ASSUME NEW r \in ThreadType
    PROVE  /\ r.pend \subseteq Signals /\ r.mask \subseteq UserSigs /\ r.saved \subseteq UserSigs
           /\ r.set \subseteq UserSigs /\ r.app \subseteq UserSigs
           /\ r.joining \in Threads \cup {NULL} /\ r.obj \in Threads \cup {NULL}
BY DEF ThreadType

LEMMA NewThreadType == NewThread \in ThreadType
BY LifeAssumption DEF NewThread, ThreadType

(* The scheduler gives the processor to a READY thread.                    *)
LEMMA Dispatched ==
    ASSUME NEW kk, KSound(kk)
    PROVE  /\ scheduling(kk) \in Threads \cup {Idle}
           /\ scheduling(kk) # Idle => kk.st[scheduling(kk)] = "READY"
BY SchedulingSound

(* A thread that is not in one of these places is READY while it runs.     *)
LEMMA RunnerReady ==
    ASSUME LifeInv, NEW t \in Threads, NEW p \in PCs \ {"slp1", "exit1"}, At(t, p)
    PROVE  k.st[t] = "READY" /\ cur = t /\ ~over /\ pc[t] = p
<1>1. cur = t /\ ~over /\ pc[t] = p /\ cur # Idle
  BY KThreadsAssumption DEF At
<1> QED
  BY <1>1 DEF LifeInv, Runs

(* The parts of a step: do_signals is called; a thread goes elsewhere.     *)
LEMMA PushRecords ==
    ASSUME Records, NEW t \in Threads, NEW b \in PCs, CallSignals(t, b)
    PROVE  /\ pc' \in [Threads -> PCs] /\ frames' \in [Threads -> Seq(FrameType)]
           /\ pc'[t] = "sig" /\ frames'[t] = Append(frames[t], Fresh(b))
           /\ \A u \in Threads : u # t => pc'[u] = pc[u] /\ frames'[u] = frames[u]
<1>1. frames' = [frames EXCEPT ![t] = Append(frames[t], Fresh(b))]
  BY DEF CallSignals, Fresh
<1>2. Append(frames[t], Fresh(b)) \in Seq(FrameType)
  <2>1. frames[t] \in Seq(FrameType) /\ Fresh(b) \in FrameType
    BY FreshType DEF Records
  <2> QED
    BY <2>1
<1>3. pc' = [pc EXCEPT ![t] = "sig"] /\ "sig" \in PCs
  BY DEF CallSignals, Goto, PCs
<1> QED
  BY <1>1, <1>2, <1>3 DEF Records

LEMMA GotoRecords ==
    ASSUME Records, NEW t \in Threads, NEW p \in PCs, Goto(t, p)
    PROVE  pc' \in [Threads -> PCs] /\ pc'[t] = p /\ \A u \in Threads : u # t => pc'[u] = pc[u]
BY DEF Records, Goto

LEMMA Rescheduled ==
    ASSUME Records', KSound(k'), cur' = scheduling(k')
    PROVE  LifeInv'
<1>1. /\ scheduling(k') \in Threads \cup {Idle}
      /\ scheduling(k') # Idle => k'.st[scheduling(k')] = "READY"
  BY Dispatched
<1> QED
  BY <1>1 DEF LifeInv, Runs, Exists

LEMMA RunsOn ==
    ASSUME NEW t \in Threads, cur = t, cur' = cur, Records', KSound(k'), k'.st[t] = "READY"
    PROVE  LifeInv'
BY DEF LifeInv, Runs, Exists

(* The functions of the scheduler, as the steps use them.                  *)
LEMMA Activated ==
    ASSUME NEW kk, KSound(kk), NEW u \in Threads
    PROVE  /\ KSound(activate_thread(kk, u))
           /\ \A v \in Threads : activate_thread(kk, u).st[v] =
                  IF v = u /\ kk.st[u] # "FINISHED" THEN "READY" ELSE kk.st[v]
<1>1. kk.st \in [Threads -> States]
  BY DEF KSound, KType
<1>2. KSound(activate_thread(kk, u)) /\ activate_thread(kk, u).st = [kk.st EXCEPT ![u] = IF @ = "FINISHED" THEN @ ELSE "READY"]
  BY ActivateSound
<1> QED
  BY <1>1, <1>2

LEMMA Suspended ==
    ASSUME NEW kk, KSound(kk), NEW u \in Threads
    PROVE  /\ KSound(suspend_thread(kk, u))
           /\ \A v \in Threads : suspend_thread(kk, u).st[v] =
                  IF v = u /\ kk.st[u] # "FINISHED" THEN "SUSPENDED" ELSE kk.st[v]
<1>1. kk.st \in [Threads -> States]
  BY DEF KSound, KType
<1>2. KSound(suspend_thread(kk, u)) /\ suspend_thread(kk, u).st = [kk.st EXCEPT ![u] = IF @ = "FINISHED" THEN @ ELSE "SUSPENDED"]
  BY SuspendSound
<1> QED
  BY <1>1, <1>2

LEMMA Finished ==
    ASSUME NEW kk, KSound(kk), NEW u \in Threads
    PROVE  /\ KSound(finish_thread(kk, u))
           /\ \A v \in Threads : finish_thread(kk, u).st[v] = IF v = u THEN "FINISHED" ELSE kk.st[v]
<1>1. kk.st \in [Threads -> States]
  BY DEF KSound, KType
<1>2. KSound(finish_thread(kk, u)) /\ finish_thread(kk, u).st = [kk.st EXCEPT ![u] = "FINISHED"]
  BY FinishSound
<1> QED
  BY <1>1, <1>2

LEMMA Freed ==
    ASSUME NEW kk, KSound(kk), NEW u \in Threads, kk.st[u] # "READY"
    PROVE  /\ KSound([kk EXCEPT !.st[u] = "FREE"])
           /\ \A v \in Threads : [kk EXCEPT !.st[u] = "FREE"].st[v] = IF v = u THEN "FREE" ELSE kk.st[v]
<1>1. kk.st \in [Threads -> States]
  BY DEF KSound, KType
<1> QED
  BY <1>1, FreedSound

(* pthread_create_sys starts u: its structure is made, then activated.     *)
Started(kk, u) == activate_thread([kk EXCEPT !.st[u] = "SUSPENDED", !.prio[u] = Base[u]], u)

LEMMA StartedSound ==
    ASSUME NEW kk, KSound(kk), NEW u \in Threads, kk.st[u] = "FREE"
    PROVE  /\ KSound(Started(kk, u))
           /\ \A v \in Threads : Started(kk, u).st[v] = IF v = u THEN "READY" ELSE kk.st[v]
<1> DEFINE k1 == [kk EXCEPT !.st[u] = "SUSPENDED", !.prio[u] = Base[u]]
<1>1. PICK p \in Prios : p = Base[u]
  BY LifeAssumption
<1>2. KSound(k1) /\ k1.st = [kk.st EXCEPT ![u] = "SUSPENDED"]
  BY <1>1, MadeSound
<1>3. kk.st \in [Threads -> States]
  BY DEF KSound, KType
<1>4. \A v \in Threads : k1.st[v] = IF v = u THEN "SUSPENDED" ELSE kk.st[v]
  BY <1>2, <1>3
<1> HIDE DEF k1
<1>5. /\ KSound(activate_thread(k1, u))
      /\ \A v \in Threads : activate_thread(k1, u).st[v] =
             IF v = u /\ k1.st[u] # "FINISHED" THEN "READY" ELSE k1.st[v]
  BY <1>2, Activated
<1>6. Started(kk, u) = activate_thread(k1, u)
  BY DEF Started, k1
<1> QED
  BY <1>4, <1>5, <1>6

-----------------------------------------------------------------------------
(* What a step leaves of a thread that it is not about.                    *)
Kept(u) ==
    /\ pc'[u] = pc[u] /\ frames'[u] = frames[u]
    /\ th'[u].mask = th[u].mask /\ th'[u].app = th[u].app /\ th'[u].saved = th[u].saved
    /\ th'[u].obj = th[u].obj

LEMMA KeptSound ==
    ASSUME NEW u \in Threads, ThreadSound(u), Kept(u)
    PROVE  ThreadSound(u)'
<1>1. StackOK(pc[u], frames[u], th'[u])
  BY StackSame DEF ThreadSound, Kept
<1> QED
  BY <1>1 DEF ThreadSound, Kept

(* A system call returns, or its wait is over.                             *)
LEMMA ReturnsSound ==
    ASSUME Inv, NEW t \in Threads, NEW p \in {"run", "join", "susp"}, At(t, p), Returns(t),
           role' = role, over' = over, handler' \in [UserSigs -> Actions],
           timer' \in [Threads -> BOOLEAN], th' \in [Threads -> ThreadType],
           th'[t].mask = th'[t].app,
           \A u \in Threads \ {t} :
               /\ th'[u].mask = th[u].mask /\ th'[u].app = th[u].app
               /\ th'[u].saved = th[u].saved /\ th'[u].obj = th[u].obj
    PROVE  /\ Records' /\ \A u \in Threads : ThreadSound(u)'
           /\ pc'[t] = "sig" /\ frames'[t] = Append(frames[t], Fresh("run"))
           /\ \A u \in Threads \ {t} : Kept(u)
<1>1. Records /\ pc[t] = p /\ StackOK(p, frames[t], th[t])
  BY DEF Inv, LifeInv, At, ThreadSound
<1>2. /\ pc' \in [Threads -> PCs] /\ frames' \in [Threads -> Seq(FrameType)]
      /\ pc'[t] = "sig" /\ frames'[t] = Append(frames[t], Fresh("run"))
      /\ \A u \in Threads : u # t => pc'[u] = pc[u] /\ frames'[u] = frames[u]
  <2>1. "run" \in PCs /\ CallSignals(t, "run")
    BY DEF PCs, Returns
  <2> QED
    BY <1>1, <2>1, PushRecords
<1>3. Records'
  BY <1>1, <1>2 DEF Records
<1>4. StackOK("sig", Append(frames[t], Fresh("run")), th'[t])
  BY <1>1, StackCall
<1>5. \A u \in Threads \ {t} : Kept(u)
  BY <1>2 DEF Kept
<1>6. \A u \in Threads : ThreadSound(u)'
  <2>1. ASSUME NEW u \in Threads \ {t} PROVE ThreadSound(u)'
    BY <1>5, KeptSound DEF Inv
  <2>2. ThreadSound(t)'
    BY <1>2, <1>4 DEF ThreadSound
  <2> QED
    BY <2>1, <2>2
<1> QED
  BY <1>2, <1>3, <1>5, <1>6

(* The thread at p goes on, alone.                                         *)
LEMMA MovesSound ==
    ASSUME Inv, NEW t \in Threads, NEW q \in PCs, Goto(t, q),
           frames' \in [Threads -> Seq(FrameType)], th' \in [Threads -> ThreadType],
           role' = role, over' \in BOOLEAN, handler' = handler, timer' \in [Threads -> BOOLEAN],
           StackOK(q, frames'[t], th'[t]), q = "join" => th'[t].obj \in Threads,
           \A u \in Threads \ {t} :
               /\ th'[u].mask = th[u].mask /\ th'[u].app = th[u].app
               /\ th'[u].saved = th[u].saved /\ th'[u].obj = th[u].obj
               /\ frames'[u] = frames[u]
    PROVE  /\ Records' /\ \A u \in Threads : ThreadSound(u)'
           /\ pc'[t] = q /\ \A u \in Threads \ {t} : Kept(u)
<1>1. Records
  BY DEF Inv, LifeInv
<1>2. pc' \in [Threads -> PCs] /\ pc'[t] = q /\ \A u \in Threads : u # t => pc'[u] = pc[u]
  BY <1>1, GotoRecords
<1>3. Records'
  BY <1>1, <1>2 DEF Records
<1>5. \A u \in Threads \ {t} : Kept(u)
  BY <1>2 DEF Kept
<1>6. \A u \in Threads : ThreadSound(u)'
  <2>1. ASSUME NEW u \in Threads \ {t} PROVE ThreadSound(u)'
    BY <1>5, KeptSound DEF Inv
  <2>2. ThreadSound(t)'
    BY <1>2 DEF ThreadSound
  <2> QED
    BY <2>1, <2>2
<1> QED
  BY <1>2, <1>3, <1>5, <1>6
-----------------------------------------------------------------------------
(* The fields that join and detach use, and those that the masks use.      *)
Links(u) == /\ th'[u].joining = th[u].joining /\ th'[u].detach = th[u].detach
            /\ th'[u].obj = th[u].obj
Masks(u) == /\ th'[u].mask = th[u].mask /\ th'[u].app = th[u].app
            /\ th'[u].saved = th[u].saved

LEMMA AtRun ==
    ASSUME Inv, NEW t \in Threads, At(t, "run")
    PROVE  /\ frames[t] = <<>> /\ th[t].mask = th[t].app /\ th[t] \in ThreadType
           /\ k.st[t] = "READY" /\ cur = t /\ ~over /\ pc[t] = "run"
<1>1. k.st[t] = "READY" /\ cur = t /\ ~over /\ pc[t] = "run"
  BY RunnerReady DEF Inv, PCs
<1>2. StackOK("run", frames[t], th[t])
  BY <1>1 DEF Inv, ThreadSound
<1>3. frames[t] = <<>>
  BY <1>2, StackEmpty
<1>4. th[t].mask = th[t].app
  BY <1>2, <1>3 DEF StackOK, OwnMask
<1>5. th[t] \in ThreadType
  BY DEF Inv, LifeInv, Records
<1> QED
  BY <1>1, <1>3, <1>4, <1>5

(* The calls that change at most the caller's own structure.               *)
OwnCall(t) ==
    \/ pthread_setcancelstate_sys(t) \/ pthread_cleanup_push_sys(t)
    \/ pthread_cleanup_pop_sys(t) \/ pthread_sigmask_sys(t) \/ sigaction_sys(t)

LEMMA OwnCallDoes ==
    ASSUME Inv, NEW t \in Threads, OwnCall(t)
    PROVE  /\ At(t, "run") /\ Returns(t) /\ k' = k /\ cur' = cur /\ role' = role
           /\ timer' = timer /\ over' = over /\ handler' \in [UserSigs -> Actions]
           /\ th' \in [Threads -> ThreadType] /\ th'[t].mask = th'[t].app
           /\ \A u \in Threads : Links(u) /\ th'[u].pend = th[u].pend
           /\ \A u \in Threads \ {t} : Masks(u)
<1>1. At(t, "run")
  BY DEF OwnCall, pthread_setcancelstate_sys, pthread_cleanup_push_sys,
         pthread_cleanup_pop_sys, pthread_sigmask_sys, sigaction_sys, Call
<1>2. th \in [Threads -> ThreadType] /\ th[t] \in ThreadType /\ handler \in [UserSigs -> Actions]
      /\ th[t].mask = th[t].app
  BY <1>1, AtRun DEF Inv, LifeInv, Records
<1>3. CASE pthread_setcancelstate_sys(t)
  <2>1. th' = [th EXCEPT ![t] = [th[t] EXCEPT !.nocancel = ~th[t].nocancel]]
    BY <1>2, <1>3 DEF pthread_setcancelstate_sys
  <2>2. [th[t] EXCEPT !.nocancel = ~th[t].nocancel] \in ThreadType
    BY <1>2 DEF ThreadType
  <2>3. th' \in [Threads -> ThreadType] /\ (\A u \in Threads \ {t} : th'[u] = th[u])
        /\ th'[t] = [th[t] EXCEPT !.nocancel = ~th[t].nocancel]
    BY <1>2, <2>1, <2>2
  <2> QED
    BY <1>1, <1>2, <1>3, <2>3 DEF pthread_setcancelstate_sys, Links, Masks, ThreadType
<1>4. CASE pthread_cleanup_push_sys(t)
  <2> DEFINE r == [th[t] EXCEPT !.top = th[t].top + 1]
  <2>1. th' = [th EXCEPT ![t] = r]
    BY <1>2, <1>4 DEF pthread_cleanup_push_sys
  <2>2. r \in ThreadType
    BY <1>2, <1>4, LifeAssumption DEF ThreadType, pthread_cleanup_push_sys
  <2>3. th' \in [Threads -> ThreadType] /\ (\A u \in Threads \ {t} : th'[u] = th[u]) /\ th'[t] = r
    BY <1>2, <2>1, <2>2
  <2> QED
    BY <1>1, <1>2, <1>4, <2>3 DEF pthread_cleanup_push_sys, Links, Masks, ThreadType
<1>5. CASE pthread_cleanup_pop_sys(t)
  <2> DEFINE r == [th[t] EXCEPT !.top = th[t].top - 1]
  <2>1. th' = [th EXCEPT ![t] = r]
    BY <1>2, <1>5 DEF pthread_cleanup_pop_sys
  <2>2. r \in ThreadType
    BY <1>2, <1>5, LifeAssumption DEF ThreadType, pthread_cleanup_pop_sys
  <2>3. th' \in [Threads -> ThreadType] /\ (\A u \in Threads \ {t} : th'[u] = th[u]) /\ th'[t] = r
    BY <1>2, <2>1, <2>2
  <2> QED
    BY <1>1, <1>2, <1>5, <2>3 DEF pthread_cleanup_pop_sys, Links, Masks, ThreadType
<1>6. CASE pthread_sigmask_sys(t)
  <2>1. PICK m \in SUBSET UserSigs : th' = [th EXCEPT ![t].mask = m, ![t].app = m]
    BY <1>6 DEF pthread_sigmask_sys
  <2> DEFINE r == [th[t] EXCEPT !.mask = m, !.app = m]
  <2>2. th' = [th EXCEPT ![t] = r] /\ r \in ThreadType
    BY <1>2, <2>1 DEF ThreadType
  <2>3. th' \in [Threads -> ThreadType] /\ (\A u \in Threads \ {t} : th'[u] = th[u]) /\ th'[t] = r
    BY <1>2, <2>2
  <2> QED
    BY <1>1, <1>2, <1>6, <2>3 DEF pthread_sigmask_sys, Links, Masks, ThreadType
<1>7. CASE sigaction_sys(t)
  <2>1. PICK s \in UserSigs, act \in [h : {"IGN", "DFL", "user"}, m : SaMasks] :
            handler' = [handler EXCEPT ![s] = act]
    BY <1>7 DEF sigaction_sys
  <2>2. act \in Actions
    BY LifeAssumption DEF Actions
  <2> QED
    BY <1>1, <1>2, <1>7, <2>1, <2>2 DEF sigaction_sys, Links, Masks
<1> QED
  BY <1>3, <1>4, <1>5, <1>6, <1>7 DEF OwnCall
-----------------------------------------------------------------------------
(* What SignalsKept says of a thread in a step.                            *)
SigOK(t) ==
    \A s \in InFlight(t) \ InFlight(t)' :
        \/ cur = t /\ pc[t] = "loop" /\ s = ffs(Top(t).left)
        \/ cur = t /\ pc[t] \in {"run", "susp"} /\ th'[t].pend = th[t].pend \ {s}
        \/ ~Exists(t)

LEMMA SigGrows ==
    ASSUME NEW u \in Threads, frames[u] \in Seq(FrameType), th[u].pend \subseteq th'[u].pend,
           frames'[u] = frames[u] \/ \E f \in FrameType : frames'[u] = Append(frames[u], f)
    PROVE  SigOK(u)
<1>1. \A i \in DOMAIN frames[u] : i \in DOMAIN frames'[u] /\ frames'[u][i] = frames[u][i]
  <2>1. CASE frames'[u] = frames[u]
    BY <2>1
  <2>2. ASSUME NEW f \in FrameType, frames'[u] = Append(frames[u], f)
        PROVE  \A i \in DOMAIN frames[u] : i \in DOMAIN frames'[u] /\ frames'[u][i] = frames[u][i]
    BY <2>2
  <2> QED
    BY <2>1, <2>2
<1>2. InFlight(u) \subseteq InFlight(u)'
  BY <1>1 DEF InFlight
<1> QED
  BY <1>2 DEF SigOK

(* A step that no joiner notices.                                          *)
StOK(u) ==
    \/ k'.st[u] = k.st[u]
    \/ Exists(u) /\ k.st[u] # "FINISHED" /\ k'.st[u] = "READY"
    \/ k.st[u] = "READY" /\ k'.st[u] = "SUSPENDED" /\ pc[u] # "join"

Quiet ==
    /\ role' = role
    /\ \A u \in Threads :
           /\ Links(u) /\ StOK(u) /\ (pc'[u] = "join" <=> pc[u] = "join")
           /\ timer'[u] => timer[u] \/ k'.st[u] \in {"READY", "SUSPENDED"}
           /\ cur = u /\ pc[u] = "exit1" => role.irq

LEMMA QuietArmed ==
    ASSUME Armed, Quiet
    PROVE  Armed'
BY DEF Armed, Quiet, StOK

(* The goal, for a step that no joiner notices.                            *)
Good == Inv' /\ (\A u \in Threads : SigOK(u)) /\ Quiet

(* A system call that returns, after a wait or without one.                *)
LEMMA CallGood ==
    ASSUME Inv, NEW t \in Threads, NEW p \in {"run", "susp"}, At(t, p), Returns(t),
           role' = role, over' = over, handler' \in [UserSigs -> Actions],
           timer' \in [Threads -> BOOLEAN], th' \in [Threads -> ThreadType],
           th'[t].mask = th'[t].app, KSound(k'),
           cur' = scheduling(k') \/ (cur' = cur /\ k'.st[t] = "READY"),
           \A u \in Threads :
               /\ Links(u) /\ StOK(u)
               /\ timer'[u] => timer[u] \/ k'.st[u] \in {"READY", "SUSPENDED"},
           \A u \in Threads \ {t} : Masks(u) /\ th[u].pend \subseteq th'[u].pend,
           th[t].pend \subseteq th'[t].pend \/ \E s \in Signals : th'[t].pend = th[t].pend \ {s}
    PROVE  Good
<1>1. cur = t /\ pc[t] = p /\ Records /\ StackOK(p, frames[t], th[t])
  BY DEF Inv, LifeInv, At, ThreadSound
<1>2. /\ Records' /\ \A u \in Threads : ThreadSound(u)'
      /\ pc'[t] = "sig" /\ frames'[t] = Append(frames[t], Fresh("run"))
      /\ \A u \in Threads \ {t} : Kept(u)
  <2>1. \A u \in Threads \ {t} :
               /\ th'[u].mask = th[u].mask /\ th'[u].app = th[u].app
               /\ th'[u].saved = th[u].saved /\ th'[u].obj = th[u].obj
    BY DEF Links, Masks
  <2> QED
    BY <2>1, ReturnsSound
<1>3. LifeInv'
  BY <1>1, <1>2, RunsOn, Rescheduled
<1>4. ASSUME NEW u \in Threads, th[u].pend \subseteq th'[u].pend PROVE SigOK(u)
  <2>1. frames[u] \in Seq(FrameType)
    BY <1>1 DEF Records
  <2>2. frames'[u] = frames[u] \/ \E f \in FrameType : frames'[u] = Append(frames[u], f)
    BY <1>2, FreshType DEF Kept, PCs
  <2> QED
    BY <1>4, <2>1, <2>2, SigGrows
<1>5. ASSUME NEW s \in Signals, th'[t].pend = th[t].pend \ {s} PROVE SigOK(t)
  <2>1. frames[t] = <<>>
    BY <1>1, StackEmpty
  <2>2. InFlight(t) = th[t].pend
    BY <2>1 DEF InFlight
  <2>3. th'[t].pend \subseteq InFlight(t)'
    BY DEF InFlight
  <2> QED
    BY <1>1, <1>5, <2>2, <2>3 DEF SigOK
<1>6. \A u \in Threads : SigOK(u)
  BY <1>4, <1>5
<1>7. Quiet
  BY <1>1, <1>2 DEF Quiet, Kept
<1> QED
  BY <1>2, <1>3, <1>6, <1>7, QuietArmed DEF Good, Inv

LEMMA OwnCallGood ==
    ASSUME Inv, NEW t \in Threads, OwnCall(t)
    PROVE  Good
<1>1. /\ At(t, "run") /\ Returns(t) /\ k' = k /\ cur' = cur /\ role' = role
      /\ timer' = timer /\ over' = over /\ handler' \in [UserSigs -> Actions]
      /\ th' \in [Threads -> ThreadType] /\ th'[t].mask = th'[t].app
      /\ \A u \in Threads : Links(u) /\ th'[u].pend = th[u].pend
      /\ \A u \in Threads \ {t} : Masks(u)
  BY OwnCallDoes
<1>2. k.st[t] = "READY" /\ KSound(k') /\ timer' \in [Threads -> BOOLEAN]
  BY <1>1, AtRun DEF Inv, LifeInv, Records
<1>3. \A u \in Threads : StOK(u)
  BY <1>1 DEF StOK
<1> QED
  BY <1>1, <1>2, <1>3, CallGood

(* sigwait_sys takes one signal of the set.                                *)
LEMMA TakeOneDoes ==
    ASSUME NEW t \in Threads, th[t] \in ThreadType, NEW S
    PROVE  /\ TakeOne(t, S) \in ThreadType
           /\ TakeOne(t, S).mask = th[t].mask /\ TakeOne(t, S).app = th[t].app
           /\ TakeOne(t, S).saved = th[t].saved /\ TakeOne(t, S).obj = th[t].obj
           /\ TakeOne(t, S).joining = th[t].joining /\ TakeOne(t, S).detach = th[t].detach
           /\ TakeOne(t, S).set = {} /\ ~TakeOne(t, S).aos
           /\ \/ TakeOne(t, S).pend = th[t].pend
              \/ \E s \in Signals : TakeOne(t, S).pend = th[t].pend \ {s}
<1> DEFINE hit == th[t].pend \cap S
           new == IF hit = {} THEN th[t].pend ELSE th[t].pend \ {ffs(hit)}
<1>1. th[t].pend \subseteq Signals
  BY ThreadFields
<1>2. new = th[t].pend \/ \E s \in Signals : new = th[t].pend \ {s}
  <2>1. CASE ffs(hit) \in Signals
    BY <2>1
  <2>2. CASE ffs(hit) \notin Signals
    BY <1>1, <2>2
  <2> QED
    BY <2>1, <2>2
<1>3. new \subseteq Signals
  BY <1>1
<1>4. TakeOne(t, S) = [th[t] EXCEPT !.pend = new, !.set = {}, !.aos = FALSE]
  BY DEF TakeOne
<1> HIDE DEF new
<1> QED
  BY <1>2, <1>3, <1>4 DEF ThreadType

LEMMA SigsuspendResumesGood ==
    ASSUME Inv, NEW t \in Threads, sigsuspend_resumes(t)
    PROVE  Good
<1>1. /\ At(t, "susp") /\ Returns(t) /\ k' = k /\ cur' = cur /\ role' = role
      /\ timer' = timer /\ over' = over /\ handler' = handler
  BY DEF sigsuspend_resumes
<1>2. /\ k.st[t] = "READY" /\ KSound(k') /\ timer' \in [Threads -> BOOLEAN]
      /\ handler' \in [UserSigs -> Actions]
  BY <1>1, RunnerReady DEF Inv, LifeInv, Records, PCs
<1>3. th \in [Threads -> ThreadType] /\ th[t] \in ThreadType
  BY DEF Inv, LifeInv, Records
<1>4. StackOK("susp", frames[t], th[t])
  BY <1>1 DEF Inv, ThreadSound, At
<1>5. frames[t] = <<>>
  BY <1>4, StackEmpty
<1>6. th[t].saved = th[t].app
  BY <1>4, <1>5 DEF StackOK, OwnMask
<1> DEFINE r == IF th[t].set = {} THEN th[t] ELSE TakeOne(t, th[t].set)
           n == [r EXCEPT !.mask = th[t].saved, !.saved = {}]
<1>7. /\ r \in ThreadType /\ r.app = th[t].app /\ r.obj = th[t].obj
      /\ r.joining = th[t].joining /\ r.detach = th[t].detach
      /\ r.pend = th[t].pend \/ \E s \in Signals : r.pend = th[t].pend \ {s}
  BY <1>3, TakeOneDoes
<1>8. th' = [th EXCEPT ![t] = n]
  BY DEF sigsuspend_resumes
<1> HIDE DEF r
<1>9. /\ n \in ThreadType /\ n.mask = th[t].saved /\ n.app = th[t].app /\ n.obj = th[t].obj
      /\ n.joining = th[t].joining /\ n.detach = th[t].detach /\ n.pend = r.pend
  BY <1>3, <1>7, ThreadFields DEF ThreadType
<1> HIDE DEF n
<1>10. th' \in [Threads -> ThreadType] /\ th'[t] = n /\ \A u \in Threads \ {t} : th'[u] = th[u]
  BY <1>3, <1>8, <1>9
<1>11. \A u \in Threads : Links(u) /\ StOK(u)
  BY <1>1, <1>9, <1>10 DEF Links, StOK
<1>12. \A u \in Threads \ {t} : Masks(u) /\ th[u].pend \subseteq th'[u].pend
  BY <1>10 DEF Masks
<1>13. th[t].pend \subseteq th'[t].pend \/ \E s \in Signals : th'[t].pend = th[t].pend \ {s}
  BY <1>7, <1>9, <1>10
<1> QED
  BY <1>1, <1>2, <1>6, <1>9, <1>10, <1>11, <1>12, <1>13, CallGood

(* The thread waits in sigsuspend_sys.                                     *)
LEMMA SuspendGood ==
    ASSUME Inv, NEW t \in Threads, At(t, "run"), NEW m \in SUBSET UserSigs,
           NEW set \in SUBSET UserSigs, Suspend(t, m, set),
           UNCHANGED <<role, handler, timer, over>>
    PROVE  Good
<1>1. /\ frames[t] = <<>> /\ th[t].mask = th[t].app /\ th[t] \in ThreadType
      /\ k.st[t] = "READY" /\ cur = t /\ ~over /\ pc[t] = "run"
  BY AtRun
<1>2. Records /\ KSound(k)
  BY DEF Inv, LifeInv
<1> DEFINE b == (set # {})
           r == [th[t] EXCEPT !.saved = th[t].mask, !.mask = m, !.set = set, !.aos = b]
<1>3. th' = [th EXCEPT ![t] = r]
  BY <1>1, <1>2 DEF Suspend, Records
<1>4. b \in BOOLEAN
  OBVIOUS
<1> HIDE DEF b
<1>5. /\ r \in ThreadType /\ r.mask = m /\ r.app = th[t].app /\ r.saved = th[t].mask
      /\ r.obj = th[t].obj /\ r.joining = th[t].joining /\ r.detach = th[t].detach
      /\ r.pend = th[t].pend
  BY <1>1, <1>4 DEF ThreadType
<1> HIDE DEF r
<1>6. th' \in [Threads -> ThreadType] /\ th'[t] = r /\ \A u \in Threads \ {t} : th'[u] = th[u]
  BY <1>2, <1>3, <1>5 DEF Records
<1>7. /\ k' = suspend_thread(k, t) /\ cur' = scheduling(k') /\ Goto(t, "susp")
      /\ frames' = frames
  BY DEF Suspend
<1>8. StackOK("susp", frames'[t], th'[t])
  <2>1. StackOK("susp", <<>>, th'[t])
    BY <1>1, <1>5, <1>6, StackBase
  <2> QED
    BY <1>1, <1>7, <2>1
<1>9. /\ Records' /\ \A u \in Threads : ThreadSound(u)'
      /\ pc'[t] = "susp" /\ \A u \in Threads \ {t} : Kept(u)
  <2>1. /\ "susp" \in PCs /\ frames' \in [Threads -> Seq(FrameType)] /\ role' = role
        /\ over' \in BOOLEAN /\ handler' = handler /\ timer' \in [Threads -> BOOLEAN]
    BY <1>2, <1>7 DEF PCs, Records
  <2>2. \A u \in Threads \ {t} :
               /\ th'[u].mask = th[u].mask /\ th'[u].app = th[u].app
               /\ th'[u].saved = th[u].saved /\ th'[u].obj = th[u].obj
               /\ frames'[u] = frames[u]
    BY <1>6, <1>7
  <2> QED
    BY <1>6, <1>7, <1>8, <2>1, <2>2, MovesSound
<1>10. /\ KSound(k')
       /\ \A v \in Threads : k'.st[v] = IF v = t /\ k.st[t] # "FINISHED" THEN "SUSPENDED" ELSE k.st[v]
  BY <1>2, <1>7, Suspended
<1>11. LifeInv'
  BY <1>7, <1>9, <1>10, Rescheduled
<1>12. \A u \in Threads : SigOK(u)
  <2> SUFFICES ASSUME NEW u \in Threads PROVE SigOK(u)
    OBVIOUS
  <2>1. frames[u] \in Seq(FrameType) /\ th[u].pend \subseteq th'[u].pend /\ frames'[u] = frames[u]
    BY <1>2, <1>5, <1>6, <1>7 DEF Records
  <2> QED
    BY <2>1, SigGrows
<1>13. Quiet
  BY <1>1, <1>5, <1>6, <1>9, <1>10 DEF Quiet, Links, StOK, Kept
<1> QED
  BY <1>9, <1>11, <1>12, <1>13, QuietArmed DEF Good, Inv

LEMMA SigwaitGood ==
    ASSUME Inv, NEW t \in Threads, sigwait_sys(t) \/ sigsuspend_sys(t)
    PROVE  Good
<1>1. CASE sigsuspend_sys(t)
  <2>1. At(t, "run") /\ UNCHANGED <<role, handler, timer, over>>
    BY <1>1 DEF sigsuspend_sys, Call
  <2>2. PICK m \in SUBSET UserSigs : Suspend(t, m, {})
    BY <1>1 DEF sigsuspend_sys
  <2>3. {} \in SUBSET UserSigs
    OBVIOUS
  <2> QED
    BY <2>1, <2>2, <2>3, SuspendGood
<1>2. CASE sigwait_sys(t)
  <2>1. At(t, "run") /\ UNCHANGED <<role, handler, timer, over>>
    BY <1>2 DEF sigwait_sys, Call
  <2>2. PICK S \in SUBSET UserSigs \ {{}} :
           IF th[t].pend \cap S # {}
           THEN th' = [th EXCEPT ![t] = TakeOne(t, S)] /\ Returns(t) /\ UNCHANGED <<k, cur>>
           ELSE Suspend(t, S, S)
    BY <1>2 DEF sigwait_sys
  <2>3. CASE Suspend(t, S, S)
    <3>1. S \in SUBSET UserSigs
      OBVIOUS
    <3> QED
      BY <2>1, <2>3, <3>1, SuspendGood
  <2>4. CASE th' = [th EXCEPT ![t] = TakeOne(t, S)] /\ Returns(t) /\ UNCHANGED <<k, cur>>
    <3>1. /\ th[t].mask = th[t].app /\ th[t] \in ThreadType /\ k.st[t] = "READY"
      BY <2>1, AtRun
    <3>2. Records /\ KSound(k) /\ k' = k /\ cur' = cur
      BY <2>4 DEF Inv, LifeInv
    <3>3. PICK r : r = TakeOne(t, S)
      OBVIOUS
    <3>4. /\ r \in ThreadType /\ r.mask = th[t].mask /\ r.app = th[t].app
          /\ r.obj = th[t].obj /\ r.joining = th[t].joining /\ r.detach = th[t].detach
          /\ r.pend = th[t].pend \/ \E s \in Signals : r.pend = th[t].pend \ {s}
      BY <3>1, <3>3, TakeOneDoes
    <3>5. th' \in [Threads -> ThreadType] /\ th'[t] = r /\ \A u \in Threads \ {t} : th'[u] = th[u]
      BY <2>4, <3>2, <3>3, <3>4 DEF Records
    <3>6. \A u \in Threads : Links(u) /\ StOK(u)
      BY <3>2, <3>4, <3>5 DEF Links, StOK
    <3>7. \A u \in Threads \ {t} : Masks(u) /\ th[u].pend \subseteq th'[u].pend
      BY <3>5 DEF Masks
    <3>8. th[t].pend \subseteq th'[t].pend \/ \E s \in Signals : th'[t].pend = th[t].pend \ {s}
      BY <3>4, <3>5
    <3>9. timer' \in [Threads -> BOOLEAN] /\ handler' \in [UserSigs -> Actions] /\ timer' = timer
      BY <2>1, <3>2 DEF Records
    <3> QED
      BY <2>1, <2>4, <3>1, <3>2, <3>4, <3>5, <3>6, <3>7, <3>8, <3>9, CallGood
  <2> QED
    BY <2>2, <2>3, <2>4
<1> QED
  BY <1>1, <1>2

(* A signal is sent: by a thread, or by an interrupt.                      *)
LEMMA KillDoes ==
    ASSUME Records, KSound(k), NEW u \in Threads, NEW s \in Signals, Exists(u), Kill(u, s)
    PROVE  /\ th' \in [Threads -> ThreadType] /\ KSound(k')
           /\ \A v \in Threads : /\ Links(v) /\ Masks(v) /\ StOK(v)
                                 /\ th[v].pend \subseteq th'[v].pend
                                 /\ k.st[v] = "READY" => k'.st[v] = "READY"
<1>1. th \in [Threads -> ThreadType] /\ th[u] \in ThreadType
  BY DEF Records
<1> DEFINE r == [th[u] EXCEPT !.pend = th[u].pend \cup {s}]
<1>2. th' = [th EXCEPT ![u] = r]
  BY <1>1 DEF Kill
<1>3. /\ r \in ThreadType /\ r.mask = th[u].mask /\ r.app = th[u].app /\ r.saved = th[u].saved
      /\ r.obj = th[u].obj /\ r.joining = th[u].joining /\ r.detach = th[u].detach
      /\ r.pend = th[u].pend \cup {s}
  BY <1>1, ThreadFields DEF ThreadType
<1> HIDE DEF r
<1>4. th' \in [Threads -> ThreadType] /\ th'[u] = r /\ \A v \in Threads \ {u} : th'[v] = th[v]
  BY <1>1, <1>2, <1>3
<1>5. /\ KSound(k')
      /\ \A v \in Threads : k'.st[v] = k.st[v] \/ (v = u /\ k.st[u] # "FINISHED" /\ k'.st[v] = "READY")
  <2>1. CASE k' = k
    BY <2>1
  <2>2. CASE k' = activate_thread(k, u)
    BY <2>2, Activated
  <2> QED
    BY <2>1, <2>2 DEF Kill
<1>6. \A v \in Threads : StOK(v) /\ (k.st[v] = "READY" => k'.st[v] = "READY")
  BY <1>5 DEF StOK, Exists
<1>7. \A v \in Threads : Links(v) /\ Masks(v) /\ th[v].pend \subseteq th'[v].pend
  BY <1>3, <1>4 DEF Links, Masks
<1> QED
  BY <1>4, <1>5, <1>6, <1>7

LEMMA KillGood ==
    ASSUME Inv, NEW t \in Threads, pthread_kill_sys(t) \/ pthread_cancel_sys(t)
    PROVE  Good
<1>1. At(t, "run") /\ Returns(t) /\ UNCHANGED <<role, cur, handler, timer, over>>
  BY DEF pthread_kill_sys, pthread_cancel_sys, Call
<1>2. PICK u \in Threads, s \in Signals : Exists(u) /\ Kill(u, s)
  <2>1. CASE pthread_kill_sys(t)
    BY <2>1, RoleType DEF pthread_kill_sys, Inv
  <2>2. CASE pthread_cancel_sys(t)
    <3>1. CANCEL_SIGNAL \in Signals
      BY DEF Signals, non_maskable_signals
    <3> QED
      BY <2>2, <3>1, RoleType DEF pthread_cancel_sys, Inv
  <2> QED
    BY <2>1, <2>2
<1>3. /\ th[t].mask = th[t].app /\ k.st[t] = "READY"
  BY <1>1, AtRun
<1>4. Records /\ KSound(k)
  BY DEF Inv, LifeInv
<1>5. /\ th' \in [Threads -> ThreadType] /\ KSound(k')
      /\ \A v \in Threads : /\ Links(v) /\ Masks(v) /\ StOK(v)
                            /\ th[v].pend \subseteq th'[v].pend
                            /\ k.st[v] = "READY" => k'.st[v] = "READY"
  BY <1>2, <1>4, KillDoes
<1>6. /\ timer' \in [Threads -> BOOLEAN] /\ handler' \in [UserSigs -> Actions] /\ timer' = timer
      /\ th'[t].mask = th'[t].app /\ k'.st[t] = "READY" /\ cur' = cur /\ role' = role /\ over' = over
  BY <1>1, <1>3, <1>4, <1>5 DEF Records, Masks
<1> QED
  BY <1>1, <1>5, <1>6, CallGood

(* The caller gives the processor away.                                    *)
LEMMA GivesUpGood ==
    ASSUME Inv, NEW t \in Threads, pthread_yield_sys(t) \/ LSleep(t)
    PROVE  Good
<1>1. /\ At(t, "run") /\ Returns(t) /\ UNCHANGED <<role, th, handler, over>>
      /\ cur' = scheduling(k')
  BY DEF pthread_yield_sys, LSleep, Call
<1>2. /\ th[t].mask = th[t].app /\ k.st[t] = "READY" /\ pc[t] = "run"
  BY <1>1, AtRun
<1>3. Records /\ KSound(k)
  BY DEF Inv, LifeInv
<1>4. CASE pthread_yield_sys(t)
  <2>1. k' = [k EXCEPT !.rq = AtTail(k, t)] /\ timer' = timer
    BY <1>4 DEF pthread_yield_sys, AtTail
  <2>2. KSound([k EXCEPT !.rq = AtTail(k, t)]) /\ [k EXCEPT !.rq = AtTail(k, t)].st = k.st
    BY <1>2, <1>3, YieldSound
  <2>3. KSound(k') /\ k'.st = k.st
    BY <2>1, <2>2
  <2>4. /\ timer' \in [Threads -> BOOLEAN] /\ handler' \in [UserSigs -> Actions]
        /\ th' \in [Threads -> ThreadType] /\ role' = role /\ over' = over /\ th' = th
    BY <1>1, <1>3, <2>1 DEF Records
  <2>5. \A u \in Threads : Links(u) /\ StOK(u) /\ Masks(u) /\ th[u].pend \subseteq th'[u].pend
    BY <2>3, <2>4 DEF Links, Masks, StOK
  <2> QED
    BY <1>1, <1>2, <2>1, <2>3, <2>4, <2>5, CallGood
<1>5. CASE LSleep(t)
  <2>1. k' = suspend_thread(k, t) /\ timer' = [timer EXCEPT ![t] = TRUE]
    BY <1>5 DEF LSleep
  <2>2. /\ KSound(k')
        /\ \A v \in Threads : k'.st[v] = IF v = t /\ k.st[t] # "FINISHED" THEN "SUSPENDED" ELSE k.st[v]
    BY <1>3, <2>1, Suspended
  <2>3. /\ timer' \in [Threads -> BOOLEAN] /\ handler' \in [UserSigs -> Actions]
        /\ th' \in [Threads -> ThreadType] /\ role' = role /\ over' = over /\ th' = th
    BY <1>1, <1>3, <2>1 DEF Records
  <2>4. \A u \in Threads : Links(u) /\ StOK(u) /\ Masks(u) /\ th[u].pend \subseteq th'[u].pend
    BY <1>2, <2>2, <2>3 DEF Links, Masks, StOK
  <2>5. \A u \in Threads : timer'[u] => timer[u] \/ k'.st[u] \in {"READY", "SUSPENDED"}
    BY <1>2, <1>3, <2>1, <2>2 DEF Records
  <2> QED
    BY <1>1, <1>2, <2>2, <2>3, <2>4, <2>5, CallGood
<1> QED
  BY <1>4, <1>5

-----------------------------------------------------------------------------
(* do_signals.  Its steps are the current thread's, in its last activation *)
LEMMA AtInner ==
    ASSUME Inv, NEW t \in Threads, NEW p \in Inner, At(t, p)
    PROVE  /\ cur = t /\ ~over /\ pc[t] = p /\ StackOK(p, frames[t], th[t])
           /\ frames[t] \in Seq(FrameType) /\ Len(frames[t]) \in Nat \ {0}
           /\ Top(t) = frames[t][Len(frames[t])] /\ Top(t) \in FrameType
           /\ Records /\ KSound(k) /\ th[t] \in ThreadType
<1>1. cur = t /\ ~over /\ pc[t] = p /\ Records /\ KSound(k)
  BY DEF At, Inv, LifeInv
<1>2. StackOK(p, frames[t], th[t]) /\ frames[t] \in Seq(FrameType) /\ th[t] \in ThreadType
  BY <1>1 DEF Inv, ThreadSound, Records
<1>3. Len(frames[t]) \in Nat \ {0}
  BY <1>2 DEF StackOK, Shape, Level, Inner, Ends
<1>4. frames[t][Len(frames[t])] \in FrameType
  BY <1>2, <1>3
<1> QED
  BY <1>1, <1>2, <1>3, <1>4 DEF Top

(* The thread goes on in its last activation, or leaves it.                *)
LEMMA InnerGood ==
    ASSUME Inv, NEW t \in Threads, NEW p \in PCs \ {"exit1", "join"}, At(t, p),
           NEW q \in PCs \ {"join"}, Goto(t, q),
           frames' \in [Threads -> Seq(FrameType)], th' \in [Threads -> ThreadType],
           role' = role, over' \in BOOLEAN, handler' = handler, timer' = timer,
           StackOK(q, frames'[t], th'[t]), KSound(k'),
           cur' = scheduling(k') \/ (cur' = cur /\ Exists(t)' /\ Runs(t)'),
           \A u \in Threads : StOK(u) /\ Links(u),
           \A u \in Threads \ {t} : th'[u] = th[u] /\ frames'[u] = frames[u],
           SigOK(t)
    PROVE  Good
<1>1. cur = t /\ pc[t] = p /\ Records
  BY DEF Inv, LifeInv, At
<1>2. /\ Records' /\ \A u \in Threads : ThreadSound(u)'
      /\ pc'[t] = q /\ \A u \in Threads \ {t} : Kept(u)
  <2>1. timer' \in [Threads -> BOOLEAN]
    BY <1>1 DEF Records
  <2> QED
    BY <2>1, MovesSound
<1>3. LifeInv'
  <2>1. CASE cur' = scheduling(k')
    BY <1>2, <2>1, Rescheduled
  <2>2. CASE cur' = cur /\ Exists(t)' /\ Runs(t)'
    BY <1>1, <1>2, <2>2 DEF LifeInv, Exists, Runs
  <2> QED
    BY <2>1, <2>2
<1>4. \A u \in Threads : SigOK(u)
  <2>1. ASSUME NEW u \in Threads \ {t} PROVE SigOK(u)
    <3>1. frames[u] \in Seq(FrameType) /\ th[u].pend \subseteq th'[u].pend /\ frames'[u] = frames[u]
      BY <1>1 DEF Records
    <3> QED
      BY <3>1, SigGrows
  <2> QED
    BY <2>1
<1>5. Quiet
  BY <1>1, <1>2 DEF Quiet, Kept
<1> QED
  BY <1>2, <1>3, <1>4, <1>5, QuietArmed DEF Good, Inv

LEMMA DoSignalsGood ==
    ASSUME Inv, NEW t \in Threads, do_signals(t)
    PROVE  Good
<1> DEFINE fs == frames[t]
           n == Len(fs)
           take == th[t].pend \ Blocked(t)
           now == IF th[t].nocancel THEN take \ {CANCEL_SIGNAL} ELSE take
           f == [Top(t) EXCEPT !.left = now, !.old = th[t].mask]
           gs == [fs EXCEPT ![n] = f]
           r == [th[t] EXCEPT !.pend = th[t].pend \ now]
<1>1. At(t, "sig") /\ Goto(t, "loop") /\ UNCHANGED <<role, k, cur, handler, timer, over>>
  BY DEF do_signals
<1>2. /\ cur = t /\ ~over /\ pc[t] = "sig" /\ StackOK("sig", fs, th[t])
      /\ fs \in Seq(FrameType) /\ n \in Nat \ {0}
      /\ Top(t) = fs[n] /\ Top(t) \in FrameType
      /\ Records /\ KSound(k) /\ th[t] \in ThreadType
  BY <1>1, AtInner DEF Inner
<1>3. k.st[t] = "READY"
  BY <1>1, RunnerReady DEF Inv, PCs
<1>4. now \subseteq th[t].pend /\ th[t].pend \subseteq Signals /\ th[t].mask \subseteq UserSigs
  BY <1>2, ThreadFields
<1>5. frames' = [frames EXCEPT ![t] = gs] /\ th' = [th EXCEPT ![t] = r]
  BY <1>2 DEF do_signals, Top, Records
<1> HIDE DEF now
<1>6. f \in FrameType /\ f.left = now /\ f.old = th[t].mask /\ f.back = Top(t).back
  BY <1>2, <1>4 DEF FrameType
<1> HIDE DEF f
<1>7. /\ gs \in Seq(FrameType) /\ Len(gs) = n /\ gs[n] = f
      /\ \A i \in 1 .. n - 1 : gs[i] = fs[i]
  BY <1>2, <1>6
<1> HIDE DEF gs
<1>8. /\ r \in ThreadType /\ r.mask = th[t].mask /\ r.app = th[t].app /\ r.saved = th[t].saved
      /\ r.obj = th[t].obj /\ r.joining = th[t].joining /\ r.detach = th[t].detach
      /\ r.pend = th[t].pend \ now
  BY <1>2, <1>4 DEF ThreadType
<1> HIDE DEF r
<1>9. /\ frames' \in [Threads -> Seq(FrameType)] /\ frames'[t] = gs
      /\ th' \in [Threads -> ThreadType] /\ th'[t] = r
      /\ \A u \in Threads \ {t} : th'[u] = th[u] /\ frames'[u] = frames[u]
  BY <1>2, <1>5, <1>7, <1>8 DEF Records
<1>10. StackOK("loop", gs, r)
  <2>1. \A i \in 1 .. n : gs[i].back = fs[i].back
    BY <1>2, <1>6, <1>7
  <2> QED
    BY <1>2, <1>6, <1>7, <1>8, <2>1, StackStart
<1>11. SigOK(t)
  <2>1. fs[n].left = {}
    <3>1. n \in 1 .. n /\ Level("sig", fs, n) = "sig"
      BY <1>2 DEF Level
    <3> QED
      BY <1>2, <3>1 DEF StackOK, NotTaken
  <2>2. ASSUME NEW s \in InFlight(t) PROVE s \in InFlight(t)'
    <3>1. CASE s \in th[t].pend /\ s \notin now
      BY <1>8, <1>9, <3>1 DEF InFlight
    <3>2. CASE s \in now
      <4>1. n \in DOMAIN gs /\ s \in gs[n].left
        BY <1>2, <1>6, <1>7, <3>2
      <4> QED
        BY <1>9, <4>1 DEF InFlight
    <3>3. ASSUME NEW i \in DOMAIN fs, s \in fs[i].left PROVE s \in InFlight(t)'
      <4>1. i \in 1 .. n - 1
        BY <1>2, <2>1, <3>3
      <4>2. i \in DOMAIN gs /\ s \in gs[i].left
        BY <1>2, <1>7, <3>3, <4>1
      <4> QED
        BY <1>9, <4>2 DEF InFlight
    <3> QED
      BY <2>2, <3>1, <3>2, <3>3 DEF InFlight
  <2> QED
    BY <2>2 DEF SigOK
<1>12. \A u \in Threads : StOK(u) /\ Links(u)
  BY <1>1, <1>8, <1>9 DEF StOK, Links
<1>13. /\ "sig" \in PCs \ {"exit1", "join"} /\ "loop" \in PCs \ {"join"} /\ over' \in BOOLEAN
       /\ KSound(k') /\ cur' = cur /\ Exists(t)' /\ Runs(t)' /\ role' = role /\ handler' = handler
       /\ timer' = timer
  BY <1>1, <1>2, <1>3 DEF PCs, Exists, Runs, Records
<1> QED
  BY <1>1, <1>9, <1>10, <1>11, <1>12, <1>13, InnerGood

LEMMA SignalHandledGood ==
    ASSUME Inv, NEW t \in Threads, SignalHandled(t)
    PROVE  Good
<1> DEFINE fs == frames[t]
           n == Len(fs)
           s == ffs(Top(t).left)
           h == HandlerOf(s)
           m == IF s \in UserSigs THEN Top(t).old \cup handler[s].m \cup {s} ELSE Top(t).old
           q == CASE h = "cancel" -> "exit0" [] h = "sleep" -> "slp0"
                  [] h = "user" -> "hdl" [] OTHER -> "loop"
           f == [Top(t) EXCEPT !.left = Top(t).left \ {s}]
           gs == [fs EXCEPT ![n] = f]
           r == [th[t] EXCEPT !.mask = m]
<1>1. At(t, "loop") /\ Goto(t, q) /\ UNCHANGED <<role, k, cur, handler, timer>> /\ over' = (h = "DFL")
  BY DEF SignalHandled
<1>2. /\ cur = t /\ ~over /\ pc[t] = "loop" /\ StackOK("loop", fs, th[t])
      /\ fs \in Seq(FrameType) /\ n \in Nat \ {0}
      /\ Top(t) = fs[n] /\ Top(t) \in FrameType
      /\ Records /\ KSound(k) /\ th[t] \in ThreadType
  BY <1>1, AtInner DEF Inner
<1>3. k.st[t] = "READY"
  BY <1>1, RunnerReady DEF Inv, PCs
<1>4. m \subseteq UserSigs
  <2>1. Top(t).old \subseteq UserSigs
    BY <1>2 DEF FrameType
  <2>2. s \in UserSigs => handler[s].m \subseteq UserSigs
    BY <1>2 DEF Records, Actions
  <2> QED
    BY <2>1, <2>2
<1>5. frames' = [frames EXCEPT ![t] = gs] /\ th' = [th EXCEPT ![t] = r]
  BY <1>2 DEF SignalHandled, Top, Records, FrameType
<1>6. q \in {"exit0", "slp0", "hdl", "loop"}
  OBVIOUS
<1> HIDE DEF m, q
<1>7. f \in FrameType /\ f.left = Top(t).left \ {s} /\ f.old = Top(t).old /\ f.back = Top(t).back
  BY <1>2 DEF FrameType
<1> HIDE DEF f
<1>8. /\ gs \in Seq(FrameType) /\ Len(gs) = n /\ gs[n] = f
      /\ \A i \in 1 .. n - 1 : gs[i] = fs[i]
  BY <1>2, <1>7
<1> HIDE DEF gs
<1>9. /\ r \in ThreadType /\ r.mask = m /\ r.app = th[t].app /\ r.saved = th[t].saved
      /\ r.obj = th[t].obj /\ r.joining = th[t].joining /\ r.detach = th[t].detach
      /\ r.pend = th[t].pend
  BY <1>2, <1>4 DEF ThreadType
<1> HIDE DEF r
<1>10. /\ frames' \in [Threads -> Seq(FrameType)] /\ frames'[t] = gs
       /\ th' \in [Threads -> ThreadType] /\ th'[t] = r
       /\ \A u \in Threads \ {t} : th'[u] = th[u] /\ frames'[u] = frames[u]
  BY <1>2, <1>5, <1>8, <1>9 DEF Records
<1>11. StackOK(q, gs, r)
  <2>1. \A i \in 1 .. n : gs[i].old = fs[i].old /\ gs[i].back = fs[i].back
    BY <1>2, <1>7, <1>8
  <2>2. \A i \in 1 .. n - 1 : gs[i].left = fs[i].left
    BY <1>8
  <2>3. "loop" \in PCs \ {"sig"} /\ q \in (Inner \ {"sig"}) \cup Ends /\ n > 0
    BY <1>2, <1>6 DEF PCs, Inner, Ends
  <2>4. PICK a, b, c, d, e : a = fs /\ b = th[t] /\ c = gs /\ d = r /\ e = q
    OBVIOUS
  <2>5. /\ StackOK("loop", a, b) /\ Len(a) > 0 /\ d.app = b.app
        /\ c \in Seq(FrameType) /\ Len(c) = Len(a)
        /\ e \in (Inner \ {"sig"}) \cup Ends
        /\ \A i \in 1 .. Len(a) : c[i].old = a[i].old /\ c[i].back = a[i].back
        /\ \A i \in 1 .. Len(a) - 1 : c[i].left = a[i].left
    BY <1>2, <1>8, <1>9, <2>1, <2>2, <2>3, <2>4
  <2>6. StackOK(e, c, d)
    BY <2>3, <2>5, StackMove
  <2> QED
    BY <2>4, <2>6
<1>12. SigOK(t)
  <2>1. ASSUME NEW x \in InFlight(t), x # s PROVE x \in InFlight(t)'
    <3>1. CASE x \in th[t].pend
      BY <1>9, <1>10, <3>1 DEF InFlight
    <3>2. ASSUME NEW i \in DOMAIN fs, x \in fs[i].left PROVE x \in InFlight(t)'
      <4>1. i \in DOMAIN gs /\ x \in gs[i].left
        BY <1>2, <1>7, <1>8, <2>1, <3>2
      <4> QED
        BY <1>10, <4>1 DEF InFlight
    <3> QED
      BY <2>1, <3>1, <3>2 DEF InFlight
  <2> QED
    BY <1>2, <2>1 DEF SigOK
<1>13. \A u \in Threads : StOK(u) /\ Links(u)
  BY <1>1, <1>9, <1>10 DEF StOK, Links
<1>14. /\ "loop" \in PCs \ {"exit1", "join"} /\ q \in PCs \ {"join"} /\ over' \in BOOLEAN
       /\ KSound(k') /\ cur' = cur /\ Exists(t)' /\ Runs(t)' /\ role' = role /\ handler' = handler
       /\ timer' = timer
  BY <1>1, <1>2, <1>3, <1>6 DEF PCs, Exists, Runs, Records
<1> HIDE DEF s, h
<1> QED
  BY <1>1, <1>10, <1>11, <1>12, <1>13, <1>14, InnerGood

LEMMA SignalsDoneGood ==
    ASSUME Inv, NEW t \in Threads, SignalsDone(t)
    PROVE  Good
<1> DEFINE fs == frames[t]
           n == Len(fs)
           gs == SubSeq(fs, 1, n - 1)
           q == fs[n].back
           r == [th[t] EXCEPT !.mask = Top(t).old]
<1>1. At(t, "loop") /\ Goto(t, Top(t).back) /\ UNCHANGED <<role, k, cur, handler, timer, over>>
      /\ Top(t).left = {}
  BY DEF SignalsDone
<1>2. /\ cur = t /\ ~over /\ pc[t] = "loop" /\ StackOK("loop", fs, th[t])
      /\ fs \in Seq(FrameType) /\ n \in Nat \ {0}
      /\ Top(t) = fs[n] /\ Top(t) \in FrameType
      /\ Records /\ KSound(k) /\ th[t] \in ThreadType
  BY <1>1, AtInner DEF Inner
<1>3. k.st[t] = "READY"
  BY <1>1, RunnerReady DEF Inv, PCs
<1>4. frames' = [frames EXCEPT ![t] = gs] /\ th' = [th EXCEPT ![t] = r]
  BY <1>2 DEF SignalsDone, Top, Records
<1>5. /\ gs \in Seq(FrameType) /\ Len(gs) = n - 1
      /\ \A i \in 1 .. n - 1 : gs[i] = fs[i]
  BY <1>2
<1> HIDE DEF gs
<1>6. Top(t).old \subseteq UserSigs
  BY <1>2 DEF FrameType
<1>7. /\ r \in ThreadType /\ r.mask = Top(t).old /\ r.app = th[t].app /\ r.saved = th[t].saved
      /\ r.obj = th[t].obj /\ r.joining = th[t].joining /\ r.detach = th[t].detach
      /\ r.pend = th[t].pend
  BY <1>2, <1>6 DEF ThreadType
<1> HIDE DEF r
<1>8. /\ frames' \in [Threads -> Seq(FrameType)] /\ frames'[t] = gs
      /\ th' \in [Threads -> ThreadType] /\ th'[t] = r
      /\ \A u \in Threads \ {t} : th'[u] = th[u] /\ frames'[u] = frames[u]
  BY <1>2, <1>4, <1>5, <1>7 DEF Records
<1>9. q \in PCs /\ StackOK(q, gs, r)
  BY <1>2, <1>5, <1>7, StackDone
<1>10. q # "join"
  <2>1. CASE n = 1
    BY <1>2, <2>1 DEF StackOK, Shape, Ends
  <2>2. CASE n > 1
    <3>1. n - 1 \in 1 .. n /\ Level("loop", fs, n - 1) = q
      BY <1>2, <2>2 DEF Level
    <3> QED
      BY <1>2, <3>1 DEF StackOK, Shape, Inner, Ends
  <2>3. n \in Nat \ {0}
    BY <1>2
  <2> HIDE DEF n, q
  <2> QED
    BY <2>1, <2>2, <2>3
<1>11. SigOK(t)
  <2>1. ASSUME NEW x \in InFlight(t) PROVE x \in InFlight(t)'
    <3>1. CASE x \in th[t].pend
      BY <1>7, <1>8, <3>1 DEF InFlight
    <3>2. ASSUME NEW i \in DOMAIN fs, x \in fs[i].left PROVE x \in InFlight(t)'
      <4>1. i \in DOMAIN gs /\ x \in gs[i].left
        BY <1>1, <1>2, <1>5, <3>2
      <4> QED
        BY <1>8, <4>1 DEF InFlight
    <3> QED
      BY <2>1, <3>1, <3>2 DEF InFlight
  <2> QED
    BY <2>1 DEF SigOK
<1>12. \A u \in Threads : StOK(u) /\ Links(u)
  BY <1>1, <1>7, <1>8 DEF StOK, Links
<1>13. /\ "loop" \in PCs \ {"exit1", "join"} /\ q \in PCs \ {"join"} /\ over' \in BOOLEAN
       /\ KSound(k') /\ cur' = cur /\ Exists(t)' /\ Runs(t)' /\ role' = role /\ handler' = handler
       /\ timer' = timer /\ Goto(t, q)
  BY <1>1, <1>2, <1>3, <1>9, <1>10 DEF PCs, Exists, Runs, Records
<1> HIDE DEF q
<1> QED
  BY <1>1, <1>8, <1>9, <1>11, <1>12, <1>13, InnerGood

(* The other steps inside do_signals, and the call of pthread_exit_sys.    *)
LEMMA GoesOnGood ==
    ASSUME Inv, NEW t \in Threads,
           HandlerReturns(t) \/ SLEEP_THREAD_handler(t) \/ pthread_exit_sys(t)
    PROVE  Good
<1>1. UNCHANGED <<role, frames, th, handler, timer, over>>
  BY DEF HandlerReturns, SLEEP_THREAD_handler, pthread_exit_sys
<1>2. PICK p \in {"hdl", "slp0", "slp1", "run"}, q \in {"loop", "slp1", "exit0"} :
          /\ At(t, p) /\ Goto(t, q) /\ (q = "exit0" <=> p = "run")
          /\ \/ k' = k /\ cur' = cur /\ p \in {"hdl", "run"}
             \/ k' = suspend_thread(k, t) /\ cur' = cur /\ p = "slp0" /\ q = "slp1"
             \/ k' = k /\ cur' = scheduling(k) /\ p = "slp1"
  BY DEF HandlerReturns, SLEEP_THREAD_handler, pthread_exit_sys, Call
<1>3. cur = t /\ ~over /\ pc[t] = p /\ Records /\ KSound(k) /\ StackOK(p, frames[t], th[t])
  BY <1>2 DEF At, Inv, LifeInv, ThreadSound
<1>4. p # "slp1" => k.st[t] = "READY"
  BY <1>2, RunnerReady DEF Inv, PCs
<1>5. StackOK(q, frames[t], th[t])
  <2>1. CASE p = "run"
    BY <1>2, <1>3, <2>1, StackEnd DEF Ends
  <2>2. CASE p # "run"
    <3>1. p \in Inner
      BY <2>2 DEF Inner
    <3>2. Len(frames[t]) \in Nat \ {0} /\ frames[t] \in Seq(FrameType)
      BY <1>2, <3>1, AtInner
    <3>3. Len(frames[t]) > 0
      BY <3>2
    <3>4. p \in PCs \ {"sig"} /\ q \in (Inner \ {"sig"}) \cup Ends
      BY DEF PCs, Inner, Ends
    <3>5. PICK a, b : a = frames[t] /\ b = th[t]
      OBVIOUS
    <3>6. StackOK(q, a, b)
      BY <1>3, <3>2, <3>3, <3>4, <3>5, StackMove
    <3> QED
      BY <3>5, <3>6
  <2> QED
    BY <2>1, <2>2
<1>6. /\ KSound(k')
      /\ \A v \in Threads : k'.st[v] = k.st[v] \/ (v = t /\ p = "slp0" /\ k'.st[v] = "SUSPENDED")
  <2>1. CASE k' = k
    BY <1>3, <2>1
  <2>2. CASE k' = suspend_thread(k, t) /\ p = "slp0"
    BY <1>3, <2>2, Suspended
  <2> QED
    BY <1>2, <2>1, <2>2
<1>7. pc'[t] = q
  BY <1>2, <1>3 DEF Goto, Records
<1>8. cur' = scheduling(k') \/ (cur' = cur /\ Exists(t)' /\ Runs(t)')
  <2>1. CASE k' = k /\ cur' = cur /\ p \in {"hdl", "run"}
    BY <1>4, <2>1 DEF Exists, Runs
  <2>2. CASE k' = suspend_thread(k, t) /\ cur' = cur /\ p = "slp0" /\ q = "slp1"
    <3>1. k'.st[t] = "SUSPENDED"
      BY <1>3, <1>4, <2>2, Suspended
    <3> QED
      BY <1>7, <2>2, <3>1 DEF Exists, Runs
  <2>3. CASE k' = k /\ cur' = scheduling(k)
    BY <2>3
  <2> QED
    BY <1>2, <2>1, <2>2, <2>3
<1>9. SigOK(t)
  BY <1>1, <1>3, SigGrows DEF Records
<1>10. \A u \in Threads : StOK(u) /\ Links(u)
  BY <1>1, <1>3, <1>4, <1>6 DEF StOK, Links
<1>11. /\ p \in PCs \ {"exit1", "join"} /\ q \in PCs \ {"join"} /\ over' \in BOOLEAN
       /\ role' = role /\ handler' = handler /\ timer' = timer /\ frames' = frames /\ th' = th
       /\ frames' \in [Threads -> Seq(FrameType)] /\ th' \in [Threads -> ThreadType]
  BY <1>1, <1>3 DEF PCs, Records
<1> QED
  BY <1>2, <1>5, <1>6, <1>8, <1>9, <1>10, <1>11, InnerGood

(* The timer interrupt.                                                    *)
LEMMA IrqGood ==
    ASSUME Inv, NEW u \in Threads, do_irq(u)
    PROVE  Good
<1>1. /\ ~over /\ role.irq /\ UNCHANGED <<role, handler, over>> /\ cur' = scheduling(k')
  BY DEF do_irq
<1>2. Records /\ KSound(k) /\ cur \in Threads \cup {Idle} /\ Idle \notin Threads
  BY KThreadsAssumption DEF Inv, LifeInv
<1>3. /\ th' \in [Threads -> ThreadType] /\ KSound(k') /\ timer' \in [Threads -> BOOLEAN]
      /\ \A v \in Threads : /\ Links(v) /\ Masks(v) /\ StOK(v)
                            /\ th[v].pend \subseteq th'[v].pend
                            /\ timer'[v] => timer[v]
  <2>1. CASE timer[u] /\ timer' = [timer EXCEPT ![u] = FALSE]
             /\ k' = activate_thread(k, u) /\ UNCHANGED th
    <3>1. k.st[u] \in {"READY", "SUSPENDED"}
      BY <2>1 DEF Inv, Armed
    <3>2. /\ KSound(k')
          /\ \A v \in Threads : k'.st[v] =
                 IF v = u /\ k.st[u] # "FINISHED" THEN "READY" ELSE k.st[v]
      BY <1>2, <2>1, Activated
    <3>3. \A v \in Threads : StOK(v)
      BY <3>1, <3>2 DEF StOK, Exists
    <3>4. \A v \in Threads : Links(v) /\ Masks(v) /\ th[v].pend \subseteq th'[v].pend
      BY <2>1 DEF Links, Masks
    <3> QED
      BY <1>2, <2>1, <3>2, <3>3, <3>4 DEF Records
  <2>2. CASE u \in role.to /\ Exists(u)
             /\ (\E s \in role.irqsend : s \notin th[u].pend /\ Kill(u, s)) /\ UNCHANGED timer
    <3>1. PICK s \in Signals : Kill(u, s)
      BY <2>2, RoleType DEF Inv
    <3>2. /\ th' \in [Threads -> ThreadType] /\ KSound(k')
          /\ \A v \in Threads : /\ Links(v) /\ Masks(v) /\ StOK(v)
                                /\ th[v].pend \subseteq th'[v].pend
                                /\ k.st[v] = "READY" => k'.st[v] = "READY"
      BY <1>2, <2>2, <3>1, KillDoes
    <3> QED
      BY <1>2, <2>2, <3>2 DEF Records
  <2> QED
    BY <2>1, <2>2 DEF do_irq
<1>4. CASE cur = Idle
  <2>1. pc' = pc /\ frames' = frames
    BY <1>4 DEF do_irq
  <2>2. \A v \in Threads : Kept(v)
    BY <1>3, <2>1 DEF Kept, Links, Masks
  <2>3. \A v \in Threads : ThreadSound(v)'
    BY <2>2, KeptSound DEF Inv
  <2>4. Records'
    BY <1>1, <1>2, <1>3, <2>1 DEF Records
  <2>5. LifeInv'
    BY <1>1, <1>3, <2>4, Rescheduled
  <2>6. \A v \in Threads : SigOK(v)
    <3> SUFFICES ASSUME NEW v \in Threads PROVE SigOK(v)
      OBVIOUS
    <3>1. frames[v] \in Seq(FrameType) /\ th[v].pend \subseteq th'[v].pend /\ frames'[v] = frames[v]
      BY <1>2, <1>3, <2>1 DEF Records
    <3> QED
      BY <3>1, SigGrows
  <2>7. Quiet
    BY <1>1, <1>3, <2>1 DEF Quiet
  <2> QED
    BY <2>3, <2>5, <2>6, <2>7, QuietArmed DEF Good, Inv
<1>5. CASE cur # Idle
  <2>1. PICK t \in Threads : t = cur
    BY <1>2, <1>5
  <2>2. PICK p \in PCs : p = pc[t]
    BY <1>2 DEF Records
  <2>3. p \notin Masked /\ CallSignals(t, p)
    BY <1>5, <2>1, <2>2 DEF do_irq
  <2>4. /\ pc' \in [Threads -> PCs] /\ frames' \in [Threads -> Seq(FrameType)]
        /\ pc'[t] = "sig" /\ frames'[t] = Append(frames[t], Fresh(p))
        /\ \A v \in Threads : v # t => pc'[v] = pc[v] /\ frames'[v] = frames[v]
    BY <1>2, <2>3, PushRecords
  <2>5. Records'
    BY <1>1, <1>2, <1>3, <2>4 DEF Records
  <2>6. ThreadSound(t)'
    <3>1. StackOK(p, frames[t], th[t])
      BY <2>2 DEF Inv, ThreadSound
    <3>2. StackOK(p, frames[t], th'[t])
      BY <1>3, <3>1, StackSame DEF Masks
    <3>3. StackOK("sig", Append(frames[t], Fresh(p)), th'[t])
      BY <2>3, <3>2, StackPush
    <3> QED
      BY <2>4, <3>3 DEF ThreadSound
  <2>7. \A v \in Threads \ {t} : Kept(v)
    BY <1>3, <2>4 DEF Kept, Links, Masks
  <2>8. \A v \in Threads : ThreadSound(v)'
    <3>1. ASSUME NEW v \in Threads \ {t} PROVE ThreadSound(v)'
      BY <2>7, KeptSound DEF Inv
    <3> QED
      BY <2>6, <3>1
  <2>9. LifeInv'
    BY <1>1, <1>3, <2>5, Rescheduled
  <2>10. \A v \in Threads : SigOK(v)
    <3> SUFFICES ASSUME NEW v \in Threads PROVE SigOK(v)
      OBVIOUS
    <3>1. frames[v] \in Seq(FrameType) /\ th[v].pend \subseteq th'[v].pend
      BY <1>2, <1>3 DEF Records
    <3>2. frames'[v] = frames[v] \/ \E f \in FrameType : frames'[v] = Append(frames[v], f)
      BY <2>4, FreshType
    <3> QED
      BY <3>1, <3>2, SigGrows
  <2>11. Quiet
    BY <1>1, <1>3, <2>2, <2>3, <2>4 DEF Quiet, Masked
  <2> QED
    BY <2>8, <2>9, <2>10, <2>11, QuietArmed DEF Good, Inv
<1> QED
  BY <1>4, <1>5

-----------------------------------------------------------------------------
(* Joiners.  A thread that joins another waits for an existing one, and if *)
(* it sleeps it will be woken: the other knows it, is not detached, and is *)
(* not FINISHED, except on its way to wake it.  Conversely the thread that *)
(* is known as the joiner does join.                                       *)
Joiner(t) ==
    pc[t] = "join" =>
        LET u == th[t].obj
        IN  /\ u \in Threads /\ <<t, u>> \in role.joins /\ Exists(u)
            /\ k.st[t] \in {"READY", "SUSPENDED"}
            /\ k.st[t] = "SUSPENDED" =>
                   /\ th[u].joining = t /\ ~th[u].detach
                   /\ k.st[u] = "FINISHED" => role.irq \/ (cur = u /\ pc[u] = "exit1")

Joined(u) ==
    Exists(u) /\ th[u].joining # NULL =>
        LET t == th[u].joining
        IN  t \in Threads /\ pc[t] = "join" /\ th[t].obj = u /\ ~th[u].detach

JoinInv == \A t \in Threads : Joiner(t) /\ Joined(t)

(* Every thread is joined by one thread at most.                           *)
OneJoiner ==
    \A t, u, v \in Threads : <<t, v>> \in role.joins /\ <<u, v>> \in role.joins => t = u

LEMMA QuietJoins ==
    ASSUME Inv, JoinInv, Quiet
    PROVE  JoinInv'
<1>1. ASSUME NEW t \in Threads PROVE Joiner(t)'
  <2> SUFFICES ASSUME pc'[t] = "join" PROVE Joiner(t)'
    BY DEF Joiner
  <2>1. pc[t] = "join" /\ th'[t].obj = th[t].obj /\ StOK(t) /\ role' = role /\ Joiner(t)
    BY DEF Quiet, Links, JoinInv
  <2>2. PICK u \in Threads : u = th[t].obj
    BY <2>1 DEF Joiner
  <2>3. Links(u) /\ StOK(u) /\ (cur = u /\ pc[u] = "exit1" => role.irq)
    BY DEF Quiet
  <2> QED
    BY <2>1, <2>2, <2>3 DEF Joiner, Links, StOK, Exists
<1>2. ASSUME NEW u \in Threads PROVE Joined(u)'
  <2>1. Links(u) /\ StOK(u) /\ Joined(u)
    BY DEF Quiet, JoinInv
  <2> SUFFICES ASSUME Exists(u)', th'[u].joining # NULL PROVE Joined(u)'
    BY DEF Joined
  <2>2. Exists(u) /\ th[u].joining # NULL
    BY <2>1 DEF StOK, Exists, Links
  <2>3. PICK t \in Threads : t = th[u].joining /\ pc[t] = "join" /\ th[t].obj = u /\ ~th[u].detach
    BY <2>1, <2>2 DEF Joined
  <2>4. pc'[t] = "join" /\ th'[t].obj = u
    BY <2>3 DEF Quiet, Links
  <2> QED
    BY <2>1, <2>3, <2>4 DEF Joined, Links
<1> QED
  BY <1>1, <1>2 DEF JoinInv

(* The goal, for any step.                                                 *)
Fine == /\ Inv' /\ (\A u \in Threads : SigOK(u)) /\ role' = role
        /\ OneJoiner /\ JoinInv => JoinInv'

LEMMA GoodFine ==
    ASSUME Inv, Good
    PROVE  Fine
<1>1. Quiet
  BY DEF Good
<1> QED
  BY <1>1, QuietJoins DEF Good, Fine, Quiet

LEMMA CreateFine ==
    ASSUME Inv, NEW t \in Threads, pthread_create_sys(t)
    PROVE  Fine
<1>1. At(t, "run") /\ cur' = scheduling(k') /\ UNCHANGED <<role, handler, over>>
  BY DEF pthread_create_sys, Call
<1>2. PICK u \in role.threads :
          /\ ~Exists(u)
          /\ k' = activate_thread([k EXCEPT !.st[u] = "SUSPENDED", !.prio[u] = Base[u]], u)
          /\ th' = [th EXCEPT ![u] = NewThread]
          /\ frames' = [frames EXCEPT ![u] = <<>>,
                            ![t] = Append(@, [left |-> {}, old |-> {}, back |-> "run"])]
          /\ pc' = [pc EXCEPT ![u] = "run", ![t] = "sig"]
          /\ timer' = [timer EXCEPT ![u] = FALSE]
  BY DEF pthread_create_sys
<1>3. /\ frames[t] = <<>> /\ th[t].mask = th[t].app /\ th[t] \in ThreadType
      /\ k.st[t] = "READY" /\ cur = t /\ ~over /\ pc[t] = "run"
  BY <1>1, AtRun
<1>4. u \in Threads /\ u # t /\ k.st[u] = "FREE"
  BY <1>2, <1>3, RoleType DEF Exists, Inv
<1>5. Records /\ KSound(k)
  BY DEF Inv, LifeInv
<1>6. KSound(k') /\ \A v \in Threads : k'.st[v] = IF v = u THEN "READY" ELSE k.st[v]
  <2>1. k' = Started(k, u)
    BY <1>2 DEF Started
  <2> QED
    BY <1>4, <1>5, <2>1, StartedSound
<1>7. th' \in [Threads -> ThreadType] /\ th'[u] = NewThread /\ \A v \in Threads \ {u} : th'[v] = th[v]
  BY <1>2, <1>4, <1>5, NewThreadType DEF Records
<1>8. /\ pc' \in [Threads -> PCs] /\ pc'[u] = "run" /\ pc'[t] = "sig"
      /\ \A v \in Threads \ {t, u} : pc'[v] = pc[v]
  BY <1>2, <1>4, <1>5 DEF Records, PCs
<1>9. /\ frames' \in [Threads -> Seq(FrameType)] /\ frames'[u] = <<>>
      /\ frames'[t] = Append(frames[t], Fresh("run"))
      /\ \A v \in Threads \ {t, u} : frames'[v] = frames[v]
  <2>1. PICK a : a = Append(frames[t], Fresh("run"))
    OBVIOUS
  <2>2. a \in Seq(FrameType)
    <3>1. Fresh("run") \in FrameType /\ frames[t] \in Seq(FrameType)
      BY <1>5, FreshType DEF PCs, Records
    <3> QED
      BY <2>1, <3>1
  <2>3. frames' = [frames EXCEPT ![u] = <<>>, ![t] = a]
    BY <1>2, <1>4, <2>1 DEF Fresh
  <2>4. <<>> \in Seq(FrameType)
    OBVIOUS
  <2> QED
    BY <1>4, <1>5, <2>1, <2>2, <2>3, <2>4 DEF Records
<1>10. timer' \in [Threads -> BOOLEAN] /\ ~timer'[u] /\ \A v \in Threads \ {u} : timer'[v] = timer[v]
  BY <1>2, <1>4, <1>5 DEF Records
<1>11. Records'
  BY <1>1, <1>5, <1>7, <1>8, <1>9, <1>10 DEF Records
<1>12. \A v \in Threads : ThreadSound(v)'
  <2>1. ThreadSound(u)'
    <3>1. NewThread.mask = NewThread.app
      BY DEF NewThread
    <3>2. StackOK("run", <<>>, NewThread)
      BY <3>1, StackBase
    <3> QED
      BY <1>7, <1>8, <1>9, <3>2 DEF ThreadSound
  <2>2. ThreadSound(t)'
    <3>1. StackOK("run", frames[t], th[t])
      BY <1>3 DEF Inv, ThreadSound
    <3>2. StackOK("sig", Append(frames[t], Fresh("run")), th[t])
      BY <1>3, <3>1, StackCall
    <3>3. th'[t] = th[t]
      BY <1>4, <1>7
    <3> QED
      BY <1>8, <1>9, <3>2, <3>3 DEF ThreadSound
  <2>3. ASSUME NEW v \in Threads \ {t, u} PROVE ThreadSound(v)'
    <3>1. Kept(v)
      BY <1>7, <1>8, <1>9 DEF Kept
    <3> QED
      BY <3>1, KeptSound DEF Inv
  <2> QED
    BY <2>1, <2>2, <2>3
<1>13. LifeInv'
  BY <1>1, <1>6, <1>11, Rescheduled
<1>14. Armed'
  BY <1>4, <1>6, <1>10 DEF Inv, Armed
<1>15. \A v \in Threads : SigOK(v)
  <2>1. SigOK(u)
    BY <1>2 DEF SigOK
  <2>2. ASSUME NEW v \in Threads \ {u} PROVE SigOK(v)
    <3>1. frames[v] \in Seq(FrameType) /\ th[v].pend \subseteq th'[v].pend
      BY <1>5, <1>7 DEF Records
    <3>2. frames'[v] = frames[v] \/ \E f \in FrameType : frames'[v] = Append(frames[v], f)
      BY <1>9, FreshType DEF PCs
    <3> QED
      BY <3>1, <3>2, SigGrows
  <2> QED
    BY <2>1, <2>2
<1>16. ASSUME JoinInv PROVE JoinInv'
  <2>1. ASSUME NEW v \in Threads PROVE Joiner(v)'
    <3> SUFFICES ASSUME pc'[v] = "join" PROVE Joiner(v)'
      BY DEF Joiner
    <3>1. v # t /\ v # u /\ pc[v] = "join" /\ Joiner(v)
      BY <1>4, <1>8, <1>16 DEF JoinInv
    <3>2. PICK w \in Threads : w = th[v].obj
      BY <3>1 DEF Joiner
    <3>3. w # u /\ ~(cur = w /\ pc[w] = "exit1")
      BY <1>2, <1>3, <3>1, <3>2 DEF Joiner
    <3>4. th'[v] = th[v] /\ th'[w] = th[w] /\ k'.st[v] = k.st[v] /\ k'.st[w] = k.st[w]
      BY <1>6, <1>7, <3>1, <3>2, <3>3
    <3> QED
      BY <1>1, <3>1, <3>2, <3>3, <3>4 DEF Joiner, Exists
  <2>2. ASSUME NEW v \in Threads PROVE Joined(v)'
    <3> SUFFICES ASSUME Exists(v)', th'[v].joining # NULL PROVE Joined(v)'
      BY DEF Joined
    <3>1. v # u
      BY <1>7 DEF NewThread
    <3>2. th'[v] = th[v] /\ Exists(v) /\ Joined(v)
      BY <1>6, <1>7, <1>16, <3>1 DEF Exists, JoinInv
    <3>3. PICK w \in Threads : w = th[v].joining /\ pc[w] = "join" /\ th[w].obj = v /\ ~th[v].detach
      BY <3>2 DEF Joined
    <3>4. w # t /\ w # u
      BY <1>3, <1>4, <1>16, <3>3 DEF JoinInv, Joiner
    <3> QED
      BY <1>7, <1>8, <3>2, <3>3, <3>4 DEF Joined
  <2> QED
    BY <2>1, <2>2 DEF JoinInv
<1> QED
  BY <1>1, <1>12, <1>13, <1>14, <1>15, <1>16 DEF Fine, Inv

(* The current thread, before the loop of pthread_join_sys or in it.       *)
LEMMA AtJoin ==
    ASSUME Inv, NEW t \in Threads, NEW p \in {"run", "join"}, At(t, p)
    PROVE  /\ frames[t] = <<>> /\ th[t].mask = th[t].app /\ th[t] \in ThreadType
           /\ k.st[t] = "READY" /\ cur = t /\ ~over /\ pc[t] = p
           /\ Records /\ KSound(k)
<1>1. k.st[t] = "READY" /\ cur = t /\ ~over /\ pc[t] = p
  BY RunnerReady DEF Inv, PCs
<1>2. StackOK(p, frames[t], th[t])
  BY <1>1 DEF Inv, ThreadSound
<1>3. frames[t] = <<>>
  BY <1>2, StackEmpty
<1>4. th[t].mask = th[t].app
  BY <1>2, <1>3 DEF StackOK, OwnMask
<1>5. th[t] \in ThreadType /\ Records /\ KSound(k)
  BY DEF Inv, LifeInv, Records
<1> QED
  BY <1>1, <1>3, <1>4, <1>5

(* pthread_join_sys returns: the thread joined is gone, or was detached.   *)
LEMMA JoinReturns ==
    ASSUME Inv, NEW t \in Threads, NEW p \in {"run", "join"}, At(t, p), Returns(t),
           NEW u \in Threads, NEW gone \in BOOLEAN,
           th' = [th EXCEPT ![t].obj = NULL], cur' = cur,
           UNCHANGED <<role, handler, timer, over>>,
           gone => k.st[u] = "FINISHED" /\ k' = [k EXCEPT !.st[u] = "FREE"]
                   /\ (JoinInv => <<t, u>> \in role.joins),
           ~gone => k' = k /\ th[u].detach /\ p = "join",
           p = "join" => th[t].obj = u
    PROVE  Fine
<1>1. /\ frames[t] = <<>> /\ th[t].mask = th[t].app /\ th[t] \in ThreadType
      /\ k.st[t] = "READY" /\ cur = t /\ ~over /\ pc[t] = p
      /\ Records /\ KSound(k)
  BY AtJoin
<1>2. KSound(k') /\ \A v \in Threads : k'.st[v] = IF v = u /\ gone THEN "FREE" ELSE k.st[v]
  <2>1. CASE gone
    <3>1. k.st[u] # "READY" /\ k' = [k EXCEPT !.st[u] = "FREE"]
      BY <2>1
    <3>2. /\ KSound([k EXCEPT !.st[u] = "FREE"])
          /\ \A v \in Threads : [k EXCEPT !.st[u] = "FREE"].st[v] = IF v = u THEN "FREE" ELSE k.st[v]
      BY <1>1, <3>1, Freed
    <3>3. PICK kf : kf = [k EXCEPT !.st[u] = "FREE"]
      OBVIOUS
    <3>4. KSound(kf) /\ (\A v \in Threads : kf.st[v] = IF v = u THEN "FREE" ELSE k.st[v]) /\ k' = kf
      BY <3>1, <3>2, <3>3
    <3> QED
      BY <2>1, <3>4
  <2>2. CASE ~gone
    BY <1>1, <2>2
  <2> QED
    BY <2>1, <2>2
<1>3. u # t \/ ~gone
  BY <1>1
<1> DEFINE r == [th[t] EXCEPT !.obj = NULL]
<1>4. th' = [th EXCEPT ![t] = r]
  BY <1>1
<1>5. /\ r \in ThreadType /\ r.mask = th[t].mask /\ r.app = th[t].app
      /\ r.joining = th[t].joining /\ r.detach = th[t].detach /\ r.pend = th[t].pend
  BY <1>1 DEF ThreadType
<1> HIDE DEF r
<1>6. th' \in [Threads -> ThreadType] /\ th'[t] = r /\ \A v \in Threads \ {t} : th'[v] = th[v]
  BY <1>1, <1>4, <1>5 DEF Records
<1>7. /\ Records' /\ \A v \in Threads : ThreadSound(v)'
      /\ pc'[t] = "sig" /\ frames'[t] = Append(frames[t], Fresh("run"))
      /\ \A v \in Threads \ {t} : Kept(v)
  <2>1. /\ role' = role /\ over' = over /\ handler' \in [UserSigs -> Actions]
        /\ timer' \in [Threads -> BOOLEAN] /\ th'[t].mask = th'[t].app
    BY <1>1, <1>5, <1>6 DEF Records
  <2>2. \A v \in Threads \ {t} :
               /\ th'[v].mask = th[v].mask /\ th'[v].app = th[v].app
               /\ th'[v].saved = th[v].saved /\ th'[v].obj = th[v].obj
    BY <1>6
  <2> QED
    BY <1>6, <2>1, <2>2, ReturnsSound
<1>8. LifeInv'
  BY <1>1, <1>2, <1>3, <1>7, RunsOn
<1>9. Armed'
  BY <1>2 DEF Inv, Armed
<1>10. \A v \in Threads : SigOK(v)
  <2> SUFFICES ASSUME NEW v \in Threads PROVE SigOK(v)
    OBVIOUS
  <2>1. frames[v] \in Seq(FrameType) /\ th[v].pend \subseteq th'[v].pend
    BY <1>1, <1>5, <1>6 DEF Records
  <2>2. frames'[v] = frames[v] \/ \E f \in FrameType : frames'[v] = Append(frames[v], f)
    BY <1>7, FreshType DEF PCs, Kept
  <2> QED
    BY <2>1, <2>2, SigGrows
<1>11. ASSUME OneJoiner, JoinInv PROVE JoinInv'
  <2>1. ASSUME NEW v \in Threads PROVE Joiner(v)'
    <3> SUFFICES ASSUME pc'[v] = "join" PROVE Joiner(v)'
      BY DEF Joiner
    <3>1. v # t /\ pc[v] = "join" /\ Joiner(v)
      BY <1>7, <1>11 DEF JoinInv, Kept
    <3>2. PICK w \in Threads : w = th[v].obj
      BY <3>1 DEF Joiner
    <3>3. <<v, w>> \in role.joins /\ k.st[v] \in {"READY", "SUSPENDED"}
      BY <3>1, <3>2 DEF Joiner
    <3>4. gone => w # u /\ v # u
      BY <1>11, <3>1, <3>3 DEF OneJoiner
    <3>5. ~(cur = w /\ pc[w] = "exit1")
      BY <1>1
    <3>6. /\ th'[v] = th[v] /\ k'.st[v] = k.st[v] /\ k'.st[w] = k.st[w]
          /\ th'[w].joining = th[w].joining /\ th'[w].detach = th[w].detach
      BY <1>2, <1>5, <1>6, <3>1, <3>4
    <3> QED
      BY <3>1, <3>2, <3>5, <3>6 DEF Joiner, Exists
  <2>2. ASSUME NEW w \in Threads PROVE Joined(w)'
    <3> SUFFICES ASSUME Exists(w)', th'[w].joining # NULL PROVE Joined(w)'
      BY DEF Joined
    <3>1. ~(gone /\ w = u) /\ Exists(w) /\ Joined(w)
      BY <1>2, <1>11 DEF Exists, JoinInv
    <3>2. th'[w].joining = th[w].joining /\ th'[w].detach = th[w].detach
      BY <1>5, <1>6
    <3>3. PICK v \in Threads : v = th[w].joining /\ pc[v] = "join" /\ th[v].obj = w /\ ~th[w].detach
      BY <3>1, <3>2 DEF Joined
    <3>4. v # t
      BY <1>1, <3>1, <3>3
    <3> QED
      BY <1>7, <3>2, <3>3, <3>4 DEF Joined, Kept
  <2> QED
    BY <2>1, <2>2 DEF JoinInv
<1> QED
  BY <1>7, <1>8, <1>9, <1>10, <1>11 DEF Fine, Inv

(* The caller waits in the loop.                                           *)
LEMMA JoinWaits ==
    ASSUME Inv, NEW t \in Threads, NEW p \in {"run", "join"}, At(t, p), NEW u \in Threads,
           k' = suspend_thread(k, t), cur' = scheduling(k'),
           th' = [th EXCEPT ![u].joining = t, ![t].obj = u],
           Goto(t, "join"), UNCHANGED <<frames, role, handler, timer, over>>,
           JoinInv => <<t, u>> \in role.joins /\ Exists(u),
           k.st[u] # "FINISHED", ~th[u].detach, p = "join" => th[t].obj = u
    PROVE  Fine
<1>1. /\ frames[t] = <<>> /\ th[t].mask = th[t].app /\ th[t] \in ThreadType
      /\ k.st[t] = "READY" /\ cur = t /\ ~over /\ pc[t] = p
      /\ Records /\ KSound(k)
  BY AtJoin
<1>2. /\ KSound(k')
      /\ \A v \in Threads : k'.st[v] = IF v = t THEN "SUSPENDED" ELSE k.st[v]
  BY <1>1, Suspended
<1>3. /\ th' \in [Threads -> ThreadType]
      /\ \A v \in Threads :
             /\ th'[v].joining = IF v = u THEN t ELSE th[v].joining
             /\ th'[v].obj = IF v = t THEN u ELSE th[v].obj
             /\ th'[v].mask = th[v].mask /\ th'[v].app = th[v].app
             /\ th'[v].saved = th[v].saved
             /\ th'[v].detach = th[v].detach /\ th'[v].pend = th[v].pend
  <2>1. th \in [Threads -> ThreadType]
    BY <1>1 DEF Records
  <2> DEFINE ru == [th[u] EXCEPT !.joining = t]
             tu == [th EXCEPT ![u] = ru]
             rt == [tu[t] EXCEPT !.obj = u]
  <2>2. th' = [tu EXCEPT ![t] = rt]
    BY <2>1
  <2>3. /\ ru \in ThreadType /\ ru.joining = t /\ ru.obj = th[u].obj
        /\ ru.mask = th[u].mask /\ ru.app = th[u].app /\ ru.saved = th[u].saved
        /\ ru.detach = th[u].detach /\ ru.pend = th[u].pend
    <3>1. th[u] \in ThreadType
      BY <2>1
    <3> QED
      BY <3>1 DEF ThreadType
  <2> HIDE DEF ru
  <2>4. /\ tu \in [Threads -> ThreadType] /\ tu[u] = ru
        /\ \A v \in Threads \ {u} : tu[v] = th[v]
    BY <2>1, <2>3
  <2> HIDE DEF tu
  <2>5. /\ rt \in ThreadType /\ rt.joining = tu[t].joining /\ rt.obj = u
        /\ rt.mask = tu[t].mask /\ rt.app = tu[t].app /\ rt.saved = tu[t].saved
        /\ rt.detach = tu[t].detach /\ rt.pend = tu[t].pend
    <3>1. tu[t] \in ThreadType
      BY <2>4
    <3> QED
      BY <3>1 DEF ThreadType
  <2> HIDE DEF rt
  <2>6. /\ th' \in [Threads -> ThreadType] /\ th'[t] = rt
        /\ \A v \in Threads \ {t} : th'[v] = tu[v]
    BY <2>2, <2>4, <2>5
  <2> QED
    BY <2>3, <2>4, <2>5, <2>6
<1>4. StackOK("join", frames'[t], th'[t])
  <2>1. StackOK("join", <<>>, th'[t])
    <3>1. th'[t].mask = th'[t].app
      BY <1>1, <1>3
    <3> QED
      BY <3>1, StackBase
  <2> QED
    BY <1>1, <2>1
<1>5. /\ Records' /\ \A v \in Threads : ThreadSound(v)'
      /\ pc'[t] = "join" /\ \A v \in Threads \ {t} : Kept(v)
  <2>1. /\ "join" \in PCs /\ frames' \in [Threads -> Seq(FrameType)] /\ role' = role
        /\ over' \in BOOLEAN /\ handler' = handler /\ timer' \in [Threads -> BOOLEAN]
        /\ th'[t].obj \in Threads
    BY <1>1, <1>3 DEF PCs, Records
  <2>2. \A v \in Threads \ {t} :
               /\ th'[v].mask = th[v].mask /\ th'[v].app = th[v].app
               /\ th'[v].saved = th[v].saved /\ th'[v].obj = th[v].obj
               /\ frames'[v] = frames[v]
    BY <1>3
  <2> QED
    BY <1>3, <1>4, <2>1, <2>2, MovesSound
<1>6. LifeInv'
  BY <1>2, <1>5, Rescheduled
<1>7. Armed'
  BY <1>2 DEF Inv, Armed
<1>8. \A v \in Threads : SigOK(v)
  <2> SUFFICES ASSUME NEW v \in Threads PROVE SigOK(v)
    OBVIOUS
  <2>1. frames[v] \in Seq(FrameType) /\ th[v].pend \subseteq th'[v].pend /\ frames'[v] = frames[v]
    BY <1>1, <1>3 DEF Records
  <2> QED
    BY <2>1, SigGrows
<1>9. ASSUME OneJoiner, JoinInv PROVE JoinInv'
  <2>1. ASSUME NEW v \in Threads PROVE Joiner(v)'
    <3> SUFFICES ASSUME pc'[v] = "join" PROVE Joiner(v)'
      BY DEF Joiner
    <3>1. CASE v = t
      <4>1. th'[t].obj = u /\ th'[u].joining = t /\ ~th'[u].detach
        BY <1>3
      <4>2. k'.st[t] = "SUSPENDED" /\ k'.st[u] # "FINISHED" /\ k'.st[u] # "FREE"
        BY <1>2, <1>9 DEF Exists
      <4> QED
        BY <1>9, <3>1, <4>1, <4>2 DEF Joiner, Exists
    <3>2. CASE v # t
      <4>1. pc[v] = "join" /\ Joiner(v)
        BY <1>5, <1>9, <3>2 DEF JoinInv, Kept
      <4>2. PICK w \in Threads : w = th[v].obj
        BY <4>1 DEF Joiner
      <4>3. <<v, w>> \in role.joins
        BY <4>1, <4>2 DEF Joiner
      <4>4. w # u
        BY <1>9, <3>2, <4>3 DEF OneJoiner
      <4>5. ~(cur = w /\ pc[w] = "exit1")
        BY <1>1
      <4>6. /\ th'[v].obj = w /\ k'.st[v] = k.st[v] 
            /\ th'[w].joining = th[w].joining /\ th'[w].detach = th[w].detach
        BY <1>2, <1>3, <3>2, <4>2, <4>4
      <4>7. Exists(w) /\ k'.st[w] # "FREE" /\ (k'.st[w] = "FINISHED" => k.st[w] = "FINISHED")
        BY <1>2, <4>1, <4>2 DEF Joiner, Exists
      <4> QED
        BY <4>1, <4>2, <4>5, <4>6, <4>7 DEF Joiner, Exists
    <3> QED
      BY <3>1, <3>2
  <2>2. ASSUME NEW w \in Threads PROVE Joined(w)'
    <3> SUFFICES ASSUME Exists(w)', th'[w].joining # NULL PROVE Joined(w)'
      BY DEF Joined
    <3>1. CASE w = u
      BY <1>3, <1>5, <3>1 DEF Joined
    <3>2. CASE w # u
      <4>1. Exists(w) /\ Joined(w) /\ th'[w].joining = th[w].joining /\ th'[w].detach = th[w].detach
        BY <1>1, <1>2, <1>3, <1>9, <3>2 DEF Exists, JoinInv
      <4>2. PICK v \in Threads : v = th[w].joining /\ pc[v] = "join" /\ th[v].obj = w /\ ~th[w].detach
        BY <4>1 DEF Joined
      <4>3. v # t
        BY <1>1, <3>2, <4>2
      <4>4. Kept(v)
        BY <1>5, <4>3
      <4>5. pc'[v] = "join" /\ th'[v].obj = w
        BY <4>2, <4>4 DEF Kept
      <4>6. ~th'[w].detach /\ th'[w].joining = v
        BY <4>1, <4>2, Zenon
      <4> QED
        BY <4>5, <4>6 DEF Joined
    <3> QED
      BY <3>1, <3>2
  <2> QED
    BY <2>1, <2>2 DEF JoinInv
<1> QED
  BY <1>5, <1>6, <1>7, <1>8, <1>9 DEF Fine, Inv

LEMMA JoinFine ==
    ASSUME Inv, NEW t \in Threads, pthread_join_sys(t) \/ pthread_join_resumes(t)
    PROVE  Fine
<1>1. PICK p \in {"run", "join"}, u \in Threads :
          /\ At(t, p) /\ (p = "join" => th[t].obj = u) /\ UNCHANGED <<role, handler, timer, over>>
          /\ JoinInv => <<t, u>> \in role.joins /\ Exists(u)
          /\ \/ ~th[u].detach /\ JoinLoop(t, u)
             \/ /\ p = "join" /\ th[u].detach /\ Returns(t)
                /\ th' = [th EXCEPT ![t].obj = NULL] /\ UNCHANGED <<k, cur>>
  <2>1. CASE pthread_join_sys(t)
    <3>1. At(t, "run") /\ UNCHANGED <<role, handler, timer, over>>
      BY <2>1 DEF pthread_join_sys, Call
    <3>2. PICK u \in Threads : <<t, u>> \in role.joins /\ Exists(u) /\ ~th[u].detach /\ JoinLoop(t, u)
      BY <2>1 DEF pthread_join_sys
    <3> QED
      BY <3>1, <3>2
  <2>2. CASE pthread_join_resumes(t)
    <3>1. At(t, "join") /\ UNCHANGED <<role, handler, timer, over>>
      BY <2>2 DEF pthread_join_resumes
    <3>2. PICK u \in Threads : u = th[t].obj
      BY <3>1 DEF Inv, ThreadSound, At
    <3>3. JoinInv => <<t, u>> \in role.joins /\ Exists(u)
      BY <3>1, <3>2 DEF JoinInv, Joiner, At
    <3>4. IF th[u].detach
          THEN Returns(t) /\ th' = [th EXCEPT ![t].obj = NULL] /\ UNCHANGED <<k, cur>>
          ELSE JoinLoop(t, u)
      BY <2>2, <3>2 DEF pthread_join_resumes
    <3> QED
      BY <3>1, <3>2, <3>3, <3>4
  <2> QED
    BY <2>1, <2>2
<1>2. CASE ~th[u].detach /\ JoinLoop(t, u) /\ k.st[u] = "FINISHED"
  <2>1. /\ k' = [k EXCEPT !.st[u] = "FREE"] /\ Returns(t)
        /\ th' = [th EXCEPT ![t].obj = NULL] /\ cur' = cur
    BY <1>2 DEF JoinLoop, delete_pthread_struct
  <2>2. TRUE \in BOOLEAN
    OBVIOUS
  <2> QED
    BY <1>1, <1>2, <2>1, <2>2, JoinReturns
<1>3. CASE ~th[u].detach /\ JoinLoop(t, u) /\ k.st[u] # "FINISHED"
  <2>1. /\ k' = suspend_thread(k, t) /\ cur' = scheduling(k')
        /\ th' = [th EXCEPT ![u].joining = t, ![t].obj = u]
        /\ Goto(t, "join") /\ UNCHANGED <<frames, role, handler, timer, over>>
    BY <1>1, <1>3 DEF JoinLoop
  <2> QED
    BY <1>1, <1>3, <2>1, JoinWaits
<1>4. CASE /\ p = "join" /\ th[u].detach /\ Returns(t)
           /\ th' = [th EXCEPT ![t].obj = NULL] /\ UNCHANGED <<k, cur>>
  <2>1. FALSE \in BOOLEAN /\ k' = k /\ cur' = cur
    BY <1>4
  <2> QED
    BY <1>1, <1>4, <2>1, JoinReturns
<1> QED
  BY <1>1, <1>2, <1>3, <1>4

(* A thread is detached: the caller's joiner is woken.                     *)
LEMMA DetachFine ==
    ASSUME Inv, NEW t \in Threads, pthread_detach_sys(t)
    PROVE  Fine
<1>1. /\ At(t, "run") /\ Returns(t) /\ UNCHANGED <<role, handler, timer, over>>
      /\ th[t].joining # NULL /\ k' = activate_thread(k, th[t].joining) /\ cur' = scheduling(k')
  BY DEF pthread_detach_sys, Call
<1>2. PICK u \in Threads :
          /\ Exists(u) /\ ~th[u].detach
          /\ u # t => \A v \in Threads : th[v].obj # u
          /\ th' = [th EXCEPT ![u].detach = TRUE, ![t].joining = NULL]
  BY DEF pthread_detach_sys
<1>3. /\ frames[t] = <<>> /\ th[t].mask = th[t].app /\ th[t] \in ThreadType
      /\ k.st[t] = "READY" /\ cur = t /\ ~over /\ pc[t] = "run"
  BY <1>1, AtRun
<1>4. Records /\ KSound(k)
  BY DEF Inv, LifeInv
<1>5. PICK j \in Threads : j = th[t].joining
  BY <1>1, <1>3, ThreadFields
<1>6. /\ KSound(k')
      /\ \A v \in Threads : k'.st[v] = IF v = j /\ k.st[j] # "FINISHED" THEN "READY" ELSE k.st[v]
  <2>1. k' = activate_thread(k, j)
    BY <1>1, <1>5
  <2>2. /\ KSound(activate_thread(k, j))
        /\ \A v \in Threads : activate_thread(k, j).st[v] =
               IF v = j /\ k.st[j] # "FINISHED" THEN "READY" ELSE k.st[v]
    BY <1>4, Activated
  <2> QED
    BY <2>1, <2>2
<1>7. /\ th' \in [Threads -> ThreadType]
      /\ \A v \in Threads :
             /\ th'[v].joining = IF v = t THEN NULL ELSE th[v].joining
             /\ v # u => th'[v].detach = th[v].detach
             /\ th'[v].obj = th[v].obj
             /\ th'[v].mask = th[v].mask /\ th'[v].app = th[v].app
             /\ th'[v].saved = th[v].saved /\ th'[v].pend = th[v].pend
  <2>1. th \in [Threads -> ThreadType]
    BY <1>4 DEF Records
  <2> DEFINE ru == [th[u] EXCEPT !.detach = TRUE]
             tu == [th EXCEPT ![u] = ru]
             rt == [tu[t] EXCEPT !.joining = NULL]
  <2>2. th' = [tu EXCEPT ![t] = rt]
    BY <1>2, <2>1
  <2>3. /\ ru \in ThreadType /\ ru.joining = th[u].joining /\ ru.obj = th[u].obj
        /\ ru.mask = th[u].mask /\ ru.app = th[u].app /\ ru.saved = th[u].saved
        /\ ru.pend = th[u].pend
    <3>1. th[u] \in ThreadType
      BY <2>1
    <3> QED
      BY <3>1 DEF ThreadType
  <2> HIDE DEF ru
  <2>4. /\ tu \in [Threads -> ThreadType] /\ tu[u] = ru
        /\ \A v \in Threads \ {u} : tu[v] = th[v]
    BY <2>1, <2>3
  <2> HIDE DEF tu
  <2>5. /\ rt \in ThreadType /\ rt.joining = NULL /\ rt.obj = tu[t].obj
        /\ rt.mask = tu[t].mask /\ rt.app = tu[t].app /\ rt.saved = tu[t].saved
        /\ rt.detach = tu[t].detach /\ rt.pend = tu[t].pend
    <3>1. tu[t] \in ThreadType
      BY <2>4
    <3> QED
      BY <3>1 DEF ThreadType
  <2> HIDE DEF rt
  <2>6. /\ th' \in [Threads -> ThreadType] /\ th'[t] = rt
        /\ \A v \in Threads \ {t} : th'[v] = tu[v]
    BY <2>2, <2>4, <2>5
  <2> QED
    BY <2>3, <2>4, <2>5, <2>6
<1>8. /\ Records' /\ \A v \in Threads : ThreadSound(v)'
      /\ pc'[t] = "sig" /\ frames'[t] = Append(frames[t], Fresh("run"))
      /\ \A v \in Threads \ {t} : Kept(v)
  <2>1. /\ role' = role /\ over' = over /\ handler' \in [UserSigs -> Actions]
        /\ timer' \in [Threads -> BOOLEAN] /\ th'[t].mask = th'[t].app
    BY <1>1, <1>3, <1>4, <1>7 DEF Records
  <2>2. \A v \in Threads \ {t} :
               /\ th'[v].mask = th[v].mask /\ th'[v].app = th[v].app
               /\ th'[v].saved = th[v].saved /\ th'[v].obj = th[v].obj
    BY <1>7
  <2> QED
    BY <1>1, <1>7, <2>1, <2>2, ReturnsSound
<1>9. LifeInv'
  BY <1>1, <1>6, <1>8, Rescheduled
<1>10. Armed'
  BY <1>1, <1>6 DEF Inv, Armed
<1>11. \A v \in Threads : SigOK(v)
  <2> SUFFICES ASSUME NEW v \in Threads PROVE SigOK(v)
    OBVIOUS
  <2>1. frames[v] \in Seq(FrameType) /\ th[v].pend \subseteq th'[v].pend
    BY <1>4, <1>7 DEF Records
  <2>2. frames'[v] = frames[v] \/ \E f \in FrameType : frames'[v] = Append(frames[v], f)
    BY <1>8, FreshType DEF PCs, Kept
  <2> QED
    BY <2>1, <2>2, SigGrows
<1>12. ASSUME OneJoiner, JoinInv PROVE JoinInv'
  <2>1. pc[j] = "join" /\ th[j].obj = t /\ k.st[j] \in {"READY", "SUSPENDED"} /\ k'.st[j] = "READY"
    <3>1. Exists(t) /\ Joined(t)
      BY <1>3, <1>12 DEF Exists, JoinInv
    <3>2. pc[j] = "join" /\ th[j].obj = t
      BY <1>1, <1>5, <3>1 DEF Joined
    <3>3. k.st[j] \in {"READY", "SUSPENDED"}
      BY <1>12, <3>2 DEF JoinInv, Joiner
    <3> QED
      BY <1>6, <3>2, <3>3
  <2>2. ASSUME NEW v \in Threads PROVE Joiner(v)'
    <3> SUFFICES ASSUME pc'[v] = "join" PROVE Joiner(v)'
      BY DEF Joiner
    <3>1. v # t /\ pc[v] = "join" /\ Joiner(v)
      BY <1>8, <1>12 DEF JoinInv, Kept
    <3>2. PICK w \in Threads : w = th[v].obj
      BY <3>1 DEF Joiner
    <3>3. th'[v].obj = w /\ role' = role /\ <<v, w>> \in role.joins /\ Exists(w)'
          /\ k'.st[v] \in {"READY", "SUSPENDED"}
      BY <1>1, <1>6, <1>7, <3>1, <3>2 DEF Joiner, Exists
    <3>4. ASSUME k'.st[v] = "SUSPENDED"
          PROVE  /\ th'[w].joining = v /\ ~th'[w].detach
                 /\ k'.st[w] = "FINISHED" => role.irq
      <4>1. v # j /\ k.st[v] = "SUSPENDED"
        BY <1>6, <2>1, <3>4
      <4>2. /\ th[w].joining = v /\ ~th[w].detach
            /\ k.st[w] = "FINISHED" => role.irq
        BY <1>3, <3>1, <3>2, <4>1 DEF Joiner
      <4>3. w # t
        BY <1>5, <4>1, <4>2
      <4>4. w # u
        BY <1>2, <3>2, <4>3
      <4>5. th'[w].joining = th[w].joining /\ th'[w].detach = th[w].detach
        BY <1>7, <4>3, <4>4
      <4>6. k'.st[w] = "FINISHED" => k.st[w] = "FINISHED"
        BY <1>6
      <4>7. ~th'[w].detach
        BY <4>2, <4>5, Zenon
      <4> QED
        BY <4>2, <4>5, <4>6, <4>7
    <3> QED
      BY <3>3, <3>4 DEF Joiner
  <2>3. ASSUME NEW w \in Threads PROVE Joined(w)'
    <3> SUFFICES ASSUME Exists(w)', th'[w].joining # NULL PROVE Joined(w)'
      BY DEF Joined
    <3>1. w # t /\ th'[w].joining = th[w].joining
      BY <1>7
    <3>2. Exists(w) /\ Joined(w)
      BY <1>6, <1>12, <2>1 DEF Exists, JoinInv
    <3>3. PICK v \in Threads : v = th[w].joining /\ pc[v] = "join" /\ th[v].obj = w /\ ~th[w].detach
      BY <3>1, <3>2 DEF Joined
    <3>4. v # t /\ w # u
      BY <1>2, <1>3, <3>1, <3>3
    <3>5. Kept(v) /\ th'[w].detach = th[w].detach
      BY <1>7, <1>8, <3>4
    <3>6. pc'[v] = "join" /\ th'[v].obj = w
      BY <3>3, <3>5 DEF Kept
    <3>7. ~th'[w].detach /\ th'[w].joining = v
      BY <3>1, <3>3, <3>5, Zenon
    <3> QED
      BY <3>6, <3>7 DEF Joined
  <2> QED
    BY <2>2, <2>3 DEF JoinInv
<1> QED
  BY <1>1, <1>8, <1>9, <1>10, <1>11, <1>12 DEF Fine, Inv

(* pthread_exit_sys: the thread leaves the ready queues...                 *)
LEMMA ExitFinishesFine ==
    ASSUME Inv, NEW t \in Threads, ExitFinishes(t)
    PROVE  Fine
<1>1. /\ At(t, "exit0") /\ Goto(t, "exit1") /\ timer' = [timer EXCEPT ![t] = FALSE]
      /\ k' = finish_thread(k, t) /\ UNCHANGED <<role, cur, frames, th, handler, over>>
  BY DEF ExitFinishes
<1>2. k.st[t] = "READY" /\ cur = t /\ pc[t] = "exit0" /\ Records /\ KSound(k)
  BY <1>1, RunnerReady DEF Inv, PCs, LifeInv
<1>3. KSound(k') /\ \A v \in Threads : k'.st[v] = IF v = t THEN "FINISHED" ELSE k.st[v]
  BY <1>1, <1>2, Finished
<1>4. StackOK("exit1", frames'[t], th'[t])
  <2>1. StackOK("exit0", frames[t], th[t])
    BY <1>2 DEF Inv, ThreadSound
  <2>2. "exit1" \in Ends
    BY DEF Ends
  <2> QED
    BY <1>1, <2>1, <2>2, StackEnd
<1>5. timer' \in [Threads -> BOOLEAN] /\ ~timer'[t] /\ \A v \in Threads \ {t} : timer'[v] = timer[v]
  BY <1>1, <1>2 DEF Records
<1>6. /\ Records' /\ \A v \in Threads : ThreadSound(v)'
      /\ pc'[t] = "exit1" /\ \A v \in Threads \ {t} : Kept(v)
  <2>1. /\ "exit1" \in PCs /\ frames' \in [Threads -> Seq(FrameType)] /\ role' = role
        /\ over' \in BOOLEAN /\ handler' = handler /\ th' \in [Threads -> ThreadType]
        /\ th' = th /\ frames' = frames
    BY <1>1, <1>2 DEF PCs, Records
  <2> QED
    BY <1>1, <1>4, <1>5, <2>1, MovesSound
<1>7. LifeInv'
  BY <1>1, <1>2, <1>3, <1>6 DEF LifeInv, Exists, Runs
<1>8. Armed'
  BY <1>3, <1>5 DEF Inv, Armed
<1>9. \A v \in Threads : SigOK(v)
  <2> SUFFICES ASSUME NEW v \in Threads PROVE SigOK(v)
    OBVIOUS
  <2>1. frames[v] \in Seq(FrameType) /\ th[v].pend \subseteq th'[v].pend /\ frames'[v] = frames[v]
    BY <1>1, <1>2 DEF Records
  <2> QED
    BY <2>1, SigGrows
<1>10. ASSUME JoinInv PROVE JoinInv'
  <2>1. ASSUME NEW v \in Threads PROVE Joiner(v)'
    <3> SUFFICES ASSUME pc'[v] = "join" PROVE Joiner(v)'
      BY DEF Joiner
    <3>1. v # t /\ pc[v] = "join" /\ Joiner(v)
      BY <1>6, <1>10 DEF JoinInv, Kept
    <3>2. PICK w \in Threads : w = th[v].obj
      BY <3>1 DEF Joiner
    <3>3. /\ th' = th /\ k'.st[v] = k.st[v] /\ Exists(w)' /\ role' = role
          /\ k'.st[w] = "FINISHED" => (k.st[w] = "FINISHED" /\ w # t) \/ (cur' = w /\ pc'[w] = "exit1")
      BY <1>1, <1>2, <1>3, <1>6, <3>1, <3>2 DEF Joiner, Exists
    <3>4. ~(cur = w /\ pc[w] = "exit1")
      BY <1>2
    <3> QED
      BY <3>1, <3>2, <3>3, <3>4 DEF Joiner
  <2>2. ASSUME NEW w \in Threads PROVE Joined(w)'
    <3> SUFFICES ASSUME Exists(w)', th'[w].joining # NULL PROVE Joined(w)'
      BY DEF Joined
    <3>1. Exists(w) /\ Joined(w) /\ th' = th
      BY <1>1, <1>2, <1>3, <1>10 DEF Exists, JoinInv
    <3>2. PICK v \in Threads : v = th[w].joining /\ pc[v] = "join" /\ th[v].obj = w /\ ~th[w].detach
      BY <3>1 DEF Joined
    <3>3. Kept(v)
      BY <1>2, <1>6, <3>2
    <3> QED
      BY <3>1, <3>2, <3>3 DEF Joined, Kept
  <2> QED
    BY <2>1, <2>2 DEF JoinInv
<1> QED
  BY <1>1, <1>6, <1>7, <1>8, <1>9, <1>10 DEF Fine, Inv

(* ... and wakes its joiner.                                               *)
LEMMA ExitWakesFine ==
    ASSUME Inv, NEW t \in Threads, ExitWakes(t)
    PROVE  Fine
<1>1. /\ At(t, "exit1") /\ Goto(t, "dead") /\ th' = [th EXCEPT ![t].top = 0]
      /\ k' = IF th[t].detach \/ th[t].joining = NULL THEN k
              ELSE activate_thread(k, th[t].joining)
      /\ over' = (t = Main) /\ cur' = IF t = Main THEN cur ELSE scheduling(k')
      /\ UNCHANGED <<role, frames, handler, timer>>
  BY DEF ExitWakes
<1>2. cur = t /\ pc[t] = "exit1" /\ ~over /\ Records /\ KSound(k) /\ th[t] \in ThreadType /\ Exists(t)
  BY <1>1, KThreadsAssumption DEF At, Inv, LifeInv, Records
<1>3. /\ KSound(k')
      /\ \A v \in Threads : \/ k'.st[v] = k.st[v]
                            \/ v = th[t].joining /\ k.st[v] # "FINISHED" /\ k'.st[v] = "READY"
      /\ \A v \in Threads : v = th[t].joining /\ ~th[t].detach /\ k.st[v] # "FINISHED"
                                => k'.st[v] = "READY"
  <2>1. CASE th[t].detach \/ th[t].joining = NULL
    BY <1>1, <1>2, <2>1, KThreadsAssumption
  <2>2. CASE ~(th[t].detach \/ th[t].joining = NULL)
    <3>1. PICK j \in Threads : j = th[t].joining
      BY <1>2, <2>2, ThreadFields
    <3>2. k' = activate_thread(k, j)
      BY <1>1, <2>2, <3>1
    <3>3. /\ KSound(k')
          /\ \A v \in Threads : k'.st[v] = IF v = j /\ k.st[j] # "FINISHED" THEN "READY" ELSE k.st[v]
      BY <1>2, <3>2, Activated
    <3> QED
      BY <3>1, <3>3
  <2> QED
    BY <2>1, <2>2
<1> DEFINE r == [th[t] EXCEPT !.top = 0]
<1>4. th' = [th EXCEPT ![t] = r]
  BY <1>1, <1>2
<1>5. /\ r \in ThreadType /\ r.mask = th[t].mask /\ r.app = th[t].app /\ r.saved = th[t].saved
      /\ r.joining = th[t].joining /\ r.detach = th[t].detach /\ r.pend = th[t].pend
      /\ r.obj = th[t].obj
  BY <1>2, LifeAssumption DEF ThreadType
<1> HIDE DEF r
<1>6. th' \in [Threads -> ThreadType] /\ th'[t] = r /\ \A v \in Threads \ {t} : th'[v] = th[v]
  BY <1>2, <1>4, <1>5 DEF Records
<1>7. \A v \in Threads : Links(v) /\ Masks(v) /\ th'[v].pend = th[v].pend
  BY <1>5, <1>6 DEF Links, Masks
<1>8. StackOK("dead", frames'[t], th'[t])
  <2>1. StackOK("exit1", frames[t], th[t])
    BY <1>2 DEF Inv, ThreadSound
  <2>2. "dead" \in Ends /\ th'[t].app = th[t].app /\ frames' = frames
    BY <1>1, <1>7 DEF Ends, Masks
  <2>3. PICK s : s = th'[t]
    OBVIOUS
  <2>4. StackOK("dead", frames[t], s)
    BY <2>1, <2>2, <2>3, StackEnd
  <2> QED
    BY <2>2, <2>3, <2>4
<1>9. /\ Records' /\ \A v \in Threads : ThreadSound(v)'
      /\ pc'[t] = "dead" /\ \A v \in Threads \ {t} : Kept(v)
  <2>1. /\ "dead" \in PCs /\ frames' \in [Threads -> Seq(FrameType)] /\ role' = role
        /\ over' \in BOOLEAN /\ handler' = handler /\ timer' \in [Threads -> BOOLEAN]
    BY <1>1, <1>2 DEF PCs, Records
  <2>2. \A v \in Threads \ {t} :
               /\ th'[v].mask = th[v].mask /\ th'[v].app = th[v].app
               /\ th'[v].saved = th[v].saved /\ th'[v].obj = th[v].obj
               /\ frames'[v] = frames[v]
    BY <1>1, <1>7 DEF Masks, Links
  <2> QED
    BY <1>1, <1>6, <1>8, <2>1, <2>2, MovesSound
<1>10. LifeInv'
  <2>1. CASE t = Main
    <3>1. cur' = t /\ over' /\ Exists(t)'
      BY <1>1, <1>2, <1>3, <2>1 DEF Exists
    <3> QED
      BY <1>3, <1>9, <3>1 DEF LifeInv, Exists
  <2>2. CASE t # Main
    BY <1>1, <1>3, <1>9, <2>2, Rescheduled
  <2> QED
    BY <2>1, <2>2
<1>11. Armed'
  BY <1>1, <1>3 DEF Inv, Armed
<1>12. \A v \in Threads : SigOK(v)
  <2> SUFFICES ASSUME NEW v \in Threads PROVE SigOK(v)
    OBVIOUS
  <2>1. frames[v] \in Seq(FrameType) /\ th[v].pend \subseteq th'[v].pend /\ frames'[v] = frames[v]
    BY <1>1, <1>2, <1>7 DEF Records
  <2> QED
    BY <2>1, SigGrows
<1>13. ASSUME JoinInv PROVE JoinInv'
  <2>1. ASSUME NEW v \in Threads PROVE Joiner(v)'
    <3> SUFFICES ASSUME pc'[v] = "join" PROVE Joiner(v)'
      BY DEF Joiner
    <3>1. v # t /\ pc[v] = "join" /\ Joiner(v)
      BY <1>9, <1>13 DEF JoinInv, Kept
    <3>2. PICK w \in Threads : w = th[v].obj
      BY <3>1 DEF Joiner
    <3>3. /\ th'[v].obj = w /\ role' = role /\ <<v, w>> \in role.joins /\ Exists(w)'
          /\ k'.st[v] \in {"READY", "SUSPENDED"}
      BY <1>1, <1>3, <1>7, <3>1, <3>2 DEF Joiner, Exists, Links
    <3>4. ASSUME k'.st[v] = "SUSPENDED"
          PROVE  /\ th'[w].joining = v /\ ~th'[w].detach
                 /\ k'.st[w] = "FINISHED" => role.irq
      <4>1. k.st[v] = "SUSPENDED"
        BY <1>3, <3>4
      <4>2. /\ th[w].joining = v /\ ~th[w].detach
            /\ k.st[w] = "FINISHED" => role.irq \/ cur = w
        BY <3>1, <3>2, <4>1 DEF Joiner
      <4>3. w # t
        BY <1>3, <3>4, <4>1, <4>2
      <4>4. th'[w] = th[w]
        BY <1>6, <4>3
      <4>5. k'.st[w] = "FINISHED" => role.irq
        BY <1>2, <1>3, <4>2, <4>3
      <4> QED
        BY <4>2, <4>4, <4>5
    <3> QED
      BY <3>3, <3>4 DEF Joiner
  <2>2. ASSUME NEW w \in Threads PROVE Joined(w)'
    <3> SUFFICES ASSUME Exists(w)', th'[w].joining # NULL PROVE Joined(w)'
      BY DEF Joined
    <3>1. Joined(t) /\ Joined(w) /\ \A v \in Threads : Joiner(v)
      BY <1>13 DEF JoinInv
    <3>2. ASSUME w = th[t].joining PROVE Exists(w)
      <4>1. pc[w] = "join"
        BY <1>2, <3>1, <3>2, KThreadsAssumption DEF Joined
      <4> QED
        BY <3>1, <4>1 DEF Joiner, Exists
    <3>3. Exists(w)
      BY <1>3, <3>2 DEF Exists
    <3>4. th'[w].joining = th[w].joining /\ th'[w].detach = th[w].detach
      BY <1>7 DEF Links
    <3>5. PICK v \in Threads : v = th[w].joining /\ pc[v] = "join" /\ th[v].obj = w /\ ~th[w].detach
      BY <3>1, <3>3, <3>4 DEF Joined
    <3>6. Kept(v)
      BY <1>2, <1>9, <3>5
    <3>7. pc'[v] = "join" /\ th'[v].obj = w
      BY <3>5, <3>6 DEF Kept
    <3>8. ~th'[w].detach /\ th'[w].joining = v
      BY <3>4, <3>5, Zenon
    <3> QED
      BY <3>7, <3>8 DEF Joined
  <2> QED
    BY <2>1, <2>2 DEF JoinInv
<1> QED
  BY <1>1, <1>9, <1>10, <1>11, <1>12, <1>13 DEF Fine, Inv

-----------------------------------------------------------------------------
LEMMA LifeInit ==
    ASSUME LInit
    PROVE  Inv /\ JoinInv
<1> DEFINE ks == Asleep({Main}, Base)
<1>1. Main \in Threads /\ Base \in [Threads -> Prios] /\ Idle \notin Threads
  BY LifeAssumption, KThreadsAssumption
<1>2. KSound(ks) /\ \A t \in Threads : ks.st[t] = IF t = Main THEN "SUSPENDED" ELSE "FREE"
  <2>1. KSound(ks)
    BY <1>1, AsleepSound
  <2> QED
    BY <2>1 DEF Asleep
<1>3. k = activate_thread(ks, Main)
  BY DEF LInit
<1> HIDE DEF ks
<1>4. /\ KSound(activate_thread(ks, Main))
      /\ \A t \in Threads : activate_thread(ks, Main).st[t] =
             IF t = Main /\ ks.st[Main] # "FINISHED" THEN "READY" ELSE ks.st[t]
  BY <1>1, <1>2, Activated
<1>5. KSound(k) /\ \A t \in Threads : k.st[t] = IF t = Main THEN "READY" ELSE "FREE"
  BY <1>1, <1>2, <1>3, <1>4
<1>6. Records
  <2>1. pc \in [Threads -> PCs] /\ frames \in [Threads -> Seq(FrameType)]
    BY DEF LInit, PCs
  <2>2. th \in [Threads -> ThreadType]
    BY NewThreadType DEF LInit
  <2>3. handler \in [UserSigs -> Actions]
    BY DEF LInit, Actions
  <2> QED
    BY <2>1, <2>2, <2>3 DEF LInit, Records
<1>7. LifeInv
  BY <1>1, <1>5, <1>6 DEF LInit, LifeInv, Exists, Runs
<1>8. Armed
  BY DEF Armed, LInit
<1>9. \A t \in Threads : ThreadSound(t)
  <2>1. NewThread.mask = NewThread.app
    BY DEF NewThread
  <2>2. StackOK("run", <<>>, NewThread)
    BY <2>1, StackBase
  <2> QED
    BY <2>2 DEF ThreadSound, LInit
<1>10. JoinInv
  BY DEF JoinInv, Joiner, Joined, LInit, NewThread
<1> QED
  BY <1>7, <1>8, <1>9, <1>10 DEF Inv

LEMMA LifeNext ==
    ASSUME Inv, [LNext]_lvars
    PROVE  /\ (\A u \in Threads : SigOK(u)) \/ UNCHANGED lvars
           /\ Inv' /\ role' = role /\ (OneJoiner /\ JoinInv => JoinInv')
<1>1. CASE UNCHANGED lvars
  BY <1>1 DEF lvars, Inv, LifeInv, Armed, ThreadSound, Records, Runs, Exists, JoinInv, Joiner, Joined
<1>2. ASSUME NEW t \in Threads, do_irq(t) PROVE Fine
  BY <1>2, IrqGood, GoodFine
<1>3. ASSUME NEW t \in Threads, LStep(t) PROVE Fine
  <2>1. CASE pthread_create_sys(t)
    BY <2>1, CreateFine
  <2>2. CASE pthread_join_sys(t) \/ pthread_join_resumes(t)
    BY <2>2, JoinFine
  <2>3. CASE pthread_detach_sys(t)
    BY <2>3, DetachFine
  <2>4. CASE OwnCall(t)
    BY <2>4, OwnCallGood, GoodFine
  <2>5. CASE pthread_yield_sys(t) \/ LSleep(t)
    BY <2>5, GivesUpGood, GoodFine
  <2>6. CASE HandlerReturns(t) \/ SLEEP_THREAD_handler(t) \/ pthread_exit_sys(t)
    BY <2>6, GoesOnGood, GoodFine
  <2>7. CASE ExitFinishes(t)
    BY <2>7, ExitFinishesFine
  <2>8. CASE ExitWakes(t)
    BY <2>8, ExitWakesFine
  <2>9. CASE pthread_kill_sys(t) \/ pthread_cancel_sys(t)
    BY <2>9, KillGood, GoodFine
  <2>10. CASE sigwait_sys(t) \/ sigsuspend_sys(t)
    BY <2>10, SigwaitGood, GoodFine
  <2>11. CASE sigsuspend_resumes(t)
    BY <2>11, SigsuspendResumesGood, GoodFine
  <2>12. CASE do_signals(t)
    BY <2>12, DoSignalsGood, GoodFine
  <2>13. CASE SignalHandled(t)
    BY <2>13, SignalHandledGood, GoodFine
  <2>14. CASE SignalsDone(t)
    BY <2>14, SignalsDoneGood, GoodFine
  <2> QED
    BY <1>3, <2>1, <2>2, <2>3, <2>4, <2>5, <2>6, <2>7, <2>8, <2>9, <2>10, <2>11, <2>12, <2>13, <2>14
       DEF LStep, OwnCall
<1> QED
  BY <1>1, <1>2, <1>3 DEF LNext, Fine

(* Through nested handlers, sigsuspend and sigwait the application always  *)
(* runs with the signal mask that it set: do_signals restores the mask     *)
(* that its outermost started activation saved.                            *)
THEOREM MaskRestoredHolds == LSpec => []MaskRestored
<1>1. LInit => Inv
  BY LifeInit
<1>2. Inv /\ [LNext]_lvars => Inv'
  BY LifeNext
<1>3. Inv => MaskRestored
  <2> SUFFICES ASSUME Inv, NEW t \in Threads, pc[t] = "run" PROVE th[t].mask = th[t].app
    BY DEF MaskRestored
  <2>1. StackOK("run", frames[t], th[t])
    BY DEF Inv, ThreadSound
  <2>2. frames[t] = <<>>
    BY <2>1, StackEmpty
  <2> QED
    BY <2>1, <2>2 DEF StackOK, OwnMask
<1> QED
  BY <1>1, <1>2, <1>3, PTL DEF LSpec

(* A signal sent to a thread is forgotten only when its handler is called, *)
(* sigwait returns it, or the thread is gone.                              *)
THEOREM SignalsKeptHolds == LSpec => SignalsKept
<1> DEFINE Step == \A t \in Threads : SigOK(t)
<1>1. LInit => Inv
  BY LifeInit
<1>2. Inv /\ [LNext]_lvars => Inv'
  BY LifeNext
<1>3. Inv /\ [LNext]_lvars => [Step]_lvars
  BY LifeNext
<1>4. [][Step]_lvars => SignalsKept
  BY DEF SignalsKept, SigOK
<1> HIDE DEF Step
<1> QED
  BY <1>1, <1>2, <1>3, <1>4, PTL DEF LSpec

(* A joiner that sleeps is known to the thread it joins, whose structure   *)
(* is there and which is not FINISHED except on its way to wake it; what   *)
(* was freed is neither running nor in a queue.  Said of uses in which a   *)
(* thread is joined by one other at most: joining_thread has room for one. *)
THEOREM JoinerKnownHolds == LSpec => [](OneJoiner => JoinerKnown)
<1> DEFINE J == OneJoiner => JoinInv
<1>1. LInit => Inv /\ J
  BY LifeInit
<1>2. Inv /\ J /\ [LNext]_lvars => (Inv /\ J)'
  <2> SUFFICES ASSUME Inv, J, [LNext]_lvars PROVE Inv' /\ J'
    OBVIOUS
  <2>1. Inv' /\ role' = role /\ (OneJoiner /\ JoinInv => JoinInv')
    BY LifeNext
  <2>2. OneJoiner' => OneJoiner
    BY <2>1 DEF OneJoiner
  <2> QED
    BY <2>1, <2>2
<1>3. Inv /\ J => (OneJoiner => JoinerKnown)
  <2> SUFFICES ASSUME Inv, JoinInv, NEW t \in Threads
               PROVE  /\ pc[t] = "join" /\ k.st[t] = "SUSPENDED" =>
                             LET u == th[t].obj
                             IN  /\ Exists(u) /\ th[u].joining = t
                                 /\ k.st[u] = "FINISHED" => cur = u \/ role.irq
                      /\ ~Exists(t) => t # cur /\ \A l \in Prios : \A i \in DOMAIN k.rq[l] : k.rq[l][i] # t
    BY DEF JoinerKnown
  <2>1. Joiner(t)
    BY DEF JoinInv
  <2>2. ASSUME ~Exists(t) PROVE t # cur
    BY <2>2, KThreadsAssumption DEF Inv, LifeInv
  <2>3. ASSUME ~Exists(t), NEW l \in Prios, NEW i \in DOMAIN k.rq[l] PROVE k.rq[l][i] # t
    <3>1. k \in KType /\ QueuesSound(k)
      BY DEF Inv, LifeInv, KSound
    <3>2. k.rq[l] \in Seq(Threads)
      BY <3>1 DEF KType
    <3>3. ~InQueue(k.rq[l], t)
      BY <2>3, <3>1 DEF QueuesSound, Exists
    <3> QED
      BY <3>2, <3>3 DEF InQueue
  <2> QED
    BY <2>1, <2>2, <2>3 DEF Joiner
<1> HIDE DEF J
<1> QED
  BY <1>1, <1>2, <1>3, PTL DEF LSpec
=============================================================================
