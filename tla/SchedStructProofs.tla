-------------------------- MODULE SchedStructProofs --------------------------
(***************************************************************************)
(* What the functions of sched_struct.h do, for every matrix width and     *)
(* every set of threads: each of them takes a structure that holds a set   *)
(* of threads to one that holds the set it should, and get_head_ss returns *)
(* a member of the highest priority.                                       *)
(***************************************************************************)
EXTENDS SchedStruct, TLAPS, WellFoundedInduction, NaturalsInduction

-----------------------------------------------------------------------------
(* Arithmetic behind prio2ij.                                              *)

(* Quotient and remainder put a number together again.                     *)
LEMMA DivMod ==
    ASSUME NEW n \in Nat, NEW d \in Nat \ {0}
    PROVE  /\ n \div d \in Nat
           /\ n % d \in 0 .. d - 1
           /\ n = (d * (n \div d)) + (n % d)
OBVIOUS

(* The same, with the quotient and the remainder named.                    *)
LEMMA DivModNamed ==
    ASSUME NEW n \in Nat, NEW d \in Nat \ {0}
    PROVE  \E q \in Nat, r \in 0 .. d - 1 : n = (d * q) + r /\ r = n % d
BY DivMod

(* Quotient and remainder are determined by the number.                    *)
LEMMA DivModUnique ==
    ASSUME NEW d \in Nat \ {0}, NEW a \in Int, NEW b \in Int,
           NEW r \in 0 .. d - 1, NEW s \in 0 .. d - 1,
           (d * a) + r = (d * b) + s
    PROVE  a = b /\ r = s
<1>1. CASE a < b
  <2>1. d * (b - a) = r - s
    OBVIOUS
  <2>2. d * (b - a) >= d
    BY <1>1
  <2> QED
    BY <1>1, <2>1, <2>2
<1>2. CASE b < a
  <2>1. d * (a - b) = s - r
    OBVIOUS
  <2>2. d * (a - b) >= d
    BY <1>2
  <2> QED
    BY <1>2, <2>1, <2>2
<1>3. CASE a = b
  BY <1>3
<1> QED
  BY <1>1, <1>2, <1>3

(* The arithmetic of a remainder taken twice: b*(w*w) regroups as (b*w)*w. *)
LEMMA Regroup ==
    ASSUME NEW d \in Nat, NEW a \in Nat, NEW m \in Nat, NEW r \in Nat
    PROVE  ((d * d) * a) + ((d * m) + r) = (d * ((d * a) + m)) + r
OBVIOUS

(* Masking the low bits after masking more of them changes nothing.        *)
LEMMA ModMod ==
    ASSUME NEW n \in Nat, NEW d \in Nat \ {0}, NEW D \in Nat \ {0}, D = d * d
    PROVE  (n % D) % d = n % d
<1>1. PICK a \in Nat, l \in 0 .. D - 1 : n = (D * a) + l /\ l = n % D
  BY DivModNamed
<1>2. PICK m \in Nat, r \in 0 .. d - 1 : l = (d * m) + r /\ r = l % d
  BY DivModNamed
<1>3. PICK m2 \in Nat, r2 \in 0 .. d - 1 : n = (d * m2) + r2 /\ r2 = n % d
  BY DivModNamed
<1>4. n = ((d * d) * a) + ((d * m) + r)
  BY <1>1, <1>2
<1>5. PICK c \in Int : c = (d * a) + m
  OBVIOUS
<1>6. n = (d * c) + r
  BY <1>4, <1>5, Regroup
<1>7. (d * c) + r = (d * m2) + r2
  BY <1>3, <1>6
<1>8. r = r2
  BY <1>7, DivModUnique
<1> QED
  BY <1>1, <1>2, <1>3, <1>8

(* A smaller row is a higher priority, whatever the columns are.           *)
LEMMA RowFirst ==
    ASSUME NEW d \in Nat, NEW a \in Nat, NEW b \in Nat, a < b,
           NEW c \in 0 .. d - 1, NEW e \in Nat
    PROVE  (d * a) + c <= (d * b) + e
<1>1. PICK f \in Nat : b = (a + 1) + f
  <2>1. b - (a + 1) \in Nat
    OBVIOUS
  <2> QED
    BY <2>1
<1>2. d * b = ((d * a) + d) + (d * f)
  BY <1>1
<1>3. d * f \in Nat /\ d * a \in Nat
  OBVIOUS
<1> QED
  BY <1>2, <1>3

(* There is at least one priority level.                                   *)
LEMMA LevelsNat == Levels \in Nat \ {0}
BY WidthAssumption DEF Levels

(* The place of a priority is in the matrix and determines its level.      *)
LEMMA Place ==
    ASSUME NEW p \in Nat
    PROVE  /\ prio2ij(p) \in Slots
           /\ prio2ij(p) = <<prio2ij(p)[1], prio2ij(p)[2]>>
           /\ prio2ij(p)[1] \in Idx /\ prio2ij(p)[2] \in Idx
           /\ Level(p) \in 0 .. Levels - 1
           /\ Level(p) = (Width * prio2ij(p)[1]) + prio2ij(p)[2]
<1>1. Width \in Nat \ {0} /\ Levels \in Nat \ {0} /\ Levels = Width * Width
  BY WidthAssumption, LevelsNat DEF Levels
<1>2. Level(p) \in 0 .. Levels - 1
  BY <1>1, DivMod DEF Level
<1>3. Level(p) = (Width * (Level(p) \div Width)) + (Level(p) % Width)
  <2>1. PICK l \in Nat : l = Level(p)
    BY <1>1, <1>2
  <2>2. l = (Width * (l \div Width)) + (l % Width)
    BY <1>1, DivMod
  <2> QED
    BY <2>1, <2>2
<1>4. Level(p) % Width = p % Width
  BY <1>1, ModMod DEF Level
<1>5. p % Width \in Idx
  BY <1>1, DivMod DEF Idx
<1>6. Level(p) \div Width \in Nat
  BY <1>1, <1>2, DivMod
<1>7. Level(p) \div Width < Width
  <2>1. SUFFICES ASSUME Level(p) \div Width >= Width PROVE FALSE
    BY <1>1, <1>6
  <2>2. Width * (Level(p) \div Width) >= Width * Width
    BY <1>1, <1>6, <2>1
  <2> QED
    BY <1>1, <1>2, <1>3, <1>4, <1>5, <1>6, <2>2 DEF Idx
<1>8. Level(p) \div Width \in Idx
  BY <1>1, <1>6, <1>7 DEF Idx
<1> QED
  BY <1>2, <1>3, <1>4, <1>5, <1>8 DEF prio2ij, Slots

(* Every nonempty set of numbers has a least element, which _ffs chooses.  *)
LEMMA LeastElement ==
    ASSUME NEW T \in SUBSET Nat, T # {}
    PROVE  \E x \in T : \A y \in T : x <= y
<1>1. IsWellFoundedOn({e \in Nat \X Nat : e[1] < e[2]}, Nat)
  BY NatLessThanWellFounded DEF OpToRel
<1>2. PICK x \in T : \A y \in T : ~(<<y, x>> \in {e \in Nat \X Nat : e[1] < e[2]})
  BY <1>1, WFMin
<1>3. ASSUME NEW y \in T PROVE x <= y
  <2>1. <<y, x>> \notin {e \in Nat \X Nat : e[1] < e[2]}
    BY <1>2
  <2>2. <<y, x>> \in Nat \X Nat
    OBVIOUS
  <2>3. ~(y < x)
    BY <2>1, <2>2
  <2> QED
    BY <2>3
<1> QED
  BY <1>3

(* _ffs of a nonempty bitmap is its least bit.                             *)
LEMMA FirstBit ==
    ASSUME NEW T \in SUBSET Idx, T # {}
    PROVE  _ffs(T) \in T /\ \A y \in T : _ffs(T) <= y
<1>1. T \in SUBSET Nat
  BY WidthAssumption DEF Idx
<1>2. \E x \in T : \A y \in T : x <= y
  BY <1>1, LeastElement
<1> QED
  BY <1>2 DEF _ffs

-----------------------------------------------------------------------------
(* The invariant of the structure.  The ranks and the tails are what the   *)
(* code does not store: they exist for every structure the functions of    *)
(* the header can build.                                                   *)

Tails(q, S, tail) ==
    \A s \in Slots : q.head[s] # NULL =>
        tail[s] \in S /\ q.pos[tail[s]] = s /\ q.next[tail[s]] = NULL

Linked(q, S, prio) ==
    \E rank \in [Threads -> Int], tail \in [Slots -> Ptr] :
        Holds(q, S, prio, rank) /\ Tails(q, S, tail)

(* Places are pairs of indices, and NoPos is none of them.                 *)
LEMMA SlotFacts ==
    /\ NoPos \notin Slots
    /\ \A s \in Slots : s[1] \in Idx /\ s[2] \in Idx /\ s = <<s[1], s[2]>>
    /\ \A i \in Idx, j \in Idx : /\ <<i, j>> \in Slots
                               /\ <<i, j>>[1] = i
                               /\ <<i, j>>[2] = j
BY WidthAssumption DEF Slots, NoPos, Idx

(* A new structure holds no thread.                                        *)
LEMMA InitHolds ==
    ASSUME NEW prio
    PROVE  init_ss \in StructType /\ Linked(init_ss, {}, prio)
<1>1. init_ss \in StructType
  BY DEF init_ss, StructType, Ptr
<1>2. PICK rank \in [Threads -> Int], tail \in [Slots -> Ptr] : TRUE
  <2>1. [t \in Threads |-> 0] \in [Threads -> Int]
    OBVIOUS
  <2>2. [s \in Slots |-> NULL] \in [Slots -> Ptr]
    BY DEF Ptr
  <2> QED
    BY <2>1, <2>2
<1>3. BitmapExact(init_ss)
  BY SlotFacts DEF init_ss, BitmapExact
<1>4. OutsideClean(init_ss, {})
  BY NullAssumption DEF init_ss, OutsideClean
<1>5. LinksAgree(init_ss, {}, prio) /\ Tails(init_ss, {}, tail)
  BY DEF init_ss, LinksAgree, Tails
<1>6. Ranked(init_ss, {}, rank)
  BY DEF Ranked
<1> QED
  BY <1>1, <1>2, <1>3, <1>4, <1>5, <1>6 DEF Linked, Holds

(* What remove_ss leaves in each field, when the thread has a place.       *)
RemovedLinks(q, t, r) ==
    /\ \A s \in Slots : r.head[s] =
          IF s = q.pos[t] /\ q.head[s] = t THEN q.next[t] ELSE q.head[s]
    /\ \A u \in Threads :
          /\ r.next[u] = IF u = t THEN NULL
                         ELSE IF u = q.prev[t] THEN q.next[t] ELSE q.next[u]
          /\ r.prev[u] = IF u = t THEN NULL
                         ELSE IF u = q.next[t] THEN q.prev[t] ELSE q.prev[u]
          /\ r.pos[u] = IF u = t THEN NoPos ELSE q.pos[u]

RemovedBits(q, t, r) ==
    \A i \in Idx :
        /\ \A j \in Idx :
              j \in r.sl[i] <=> /\ j \in q.sl[i]
                                /\ ~(<<i, j>> = q.pos[t] /\ r.head[q.pos[t]] = NULL)
        /\ i \in r.fl <=> /\ i \in q.fl
                          /\ ~(/\ i = q.pos[t][1]
                               /\ r.head[q.pos[t]] = NULL
                               /\ r.sl[i] = {})

(* The fields remove_ss writes, one by one.                                *)
LEMMA RemoveFields ==
    ASSUME NEW q \in StructType, NEW t \in Threads, q.pos[t] \in Slots,
           NEW r, r = remove_ss(q, t)
    PROVE  r \in StructType /\ RemovedLinks(q, t, r) /\ RemovedBits(q, t, r)
<1> DEFINE s == q.pos[t]
           hd == IF q.head[s] = t THEN q.next[t] ELSE q.head[s]
           row == IF hd = NULL THEN q.sl[s[1]] \ {s[2]} ELSE q.sl[s[1]]
<1>0. s \in Slots /\ s # NoPos /\ s[1] \in Idx /\ s[2] \in Idx
  BY SlotFacts
<1>1. r = [head |-> [q.head EXCEPT ![s] = hd],
           next |-> [u \in Threads |-> IF u = t THEN NULL
                            ELSE IF u = q.prev[t] THEN q.next[t] ELSE q.next[u]],
           prev |-> [u \in Threads |-> IF u = t THEN NULL
                            ELSE IF u = q.next[t] THEN q.prev[t] ELSE q.prev[u]],
           pos  |-> [q.pos EXCEPT ![t] = NoPos],
           fl   |-> IF hd = NULL /\ row = {} THEN q.fl \ {s[1]} ELSE q.fl,
           sl   |-> [q.sl EXCEPT ![s[1]] = row]]
  BY <1>0 DEF remove_ss
<1>2. hd \in Ptr /\ row \in SUBSET Idx
  BY <1>0 DEF StructType
<1>3. r \in StructType
  BY <1>0, <1>1, <1>2 DEF StructType, Ptr
<1>4. \A x \in Slots : r.head[x] = IF x = s THEN hd ELSE q.head[x]
  BY <1>0, <1>1 DEF StructType
<1>5. \A i \in Idx : r.sl[i] = IF i = s[1] THEN row ELSE q.sl[i]
  BY <1>0, <1>1 DEF StructType
<1>6. r.fl = IF hd = NULL /\ row = {} THEN q.fl \ {s[1]} ELSE q.fl
  BY <1>1
<1>7. \A u \in Threads :
        /\ r.next[u] = IF u = t THEN NULL
                       ELSE IF u = q.prev[t] THEN q.next[t] ELSE q.next[u]
        /\ r.prev[u] = IF u = t THEN NULL
                       ELSE IF u = q.next[t] THEN q.prev[t] ELSE q.prev[u]
        /\ r.pos[u] = IF u = t THEN NoPos ELSE q.pos[u]
  BY <1>1 DEF StructType
<1>8. r.head[s] = hd
  BY <1>0, <1>4
<1>9. RemovedLinks(q, t, r)
  BY <1>4, <1>7 DEF RemovedLinks
<1>10. ASSUME NEW i \in Idx, NEW j \in Idx
       PROVE  j \in r.sl[i] <=> /\ j \in q.sl[i]
                                /\ ~(<<i, j>> = s /\ r.head[s] = NULL)
  <2>1. <<i, j>> = s <=> i = s[1] /\ j = s[2]
    BY <1>0, SlotFacts
  <2>2. j \in row <=> j \in q.sl[s[1]] /\ ~(hd = NULL /\ j = s[2])
    OBVIOUS
  <2>3. r.sl[i] = IF i = s[1] THEN row ELSE q.sl[i]
    BY <1>5
  <2> HIDE DEF s, hd, row
  <2> QED
    BY <1>8, <2>1, <2>2, <2>3
<1>11. ASSUME NEW i \in Idx
       PROVE  i \in r.fl <=> /\ i \in q.fl
                             /\ ~(i = s[1] /\ r.head[s] = NULL /\ r.sl[i] = {})
  <2>1. r.sl[s[1]] = row
    BY <1>0, <1>5
  <2> HIDE DEF s, hd, row
  <2> QED
    BY <1>6, <1>8, <2>1
<1>12. RemovedBits(q, t, r)
  <2> HIDE DEF hd, row
  <2> QED
    BY <1>10, <1>11 DEF RemovedBits
<1> QED
  BY <1>3, <1>9, <1>12

(* remove_ss of a thread that is in no list only touches its place.        *)
LEMMA RemoveOutside ==
    ASSUME NEW q \in StructType, NEW S \in SUBSET Threads,
           NEW prio \in [Threads -> Nat], NEW rank, NEW tail,
           Holds(q, S, prio, rank), Tails(q, S, tail),
           NEW t \in Threads \ S
    PROVE  /\ remove_ss(q, t) \in StructType
           /\ Holds(remove_ss(q, t), S, prio, rank)
           /\ Tails(remove_ss(q, t), S, tail)
<1>1. CASE q.pos[t] = NoPos
  BY <1>1 DEF remove_ss
<1>2. CASE q.pos[t] \in Slots
  <2> DEFINE r == remove_ss(q, t)
  <2>1. /\ q.next[t] = NULL /\ q.prev[t] = NULL
        /\ \A s \in Slots : q.head[s] # t
    BY DEF Holds, OutsideClean
  <2>2. r \in StructType /\ RemovedLinks(q, t, r) /\ RemovedBits(q, t, r)
    BY <1>2, RemoveFields
  <2> HIDE DEF r
  <2>3. \A s \in Slots : r.head[s] = q.head[s]
    BY <2>1, <2>2 DEF RemovedLinks
  <2>4. \A u \in Threads : r.next[u] = q.next[u] /\ r.prev[u] = q.prev[u]
    BY <2>1, <2>2, NullAssumption DEF RemovedLinks
  <2>5. \A u \in S : r.pos[u] = q.pos[u]
    BY <2>2 DEF RemovedLinks
  <2>6. \A i \in Idx : r.sl[i] = q.sl[i]
    <3>1. \A i, j \in Idx : j \in q.sl[i] <=> q.head[<<i, j>>] # NULL
      BY DEF Holds, BitmapExact
    <3>2. r.head[q.pos[t]] = q.head[q.pos[t]]
      BY <1>2, <2>3
    <3>3. \A i, j \in Idx : j \in r.sl[i] <=> j \in q.sl[i]
      BY <2>2, <3>1, <3>2 DEF RemovedBits
    <3>4. \A i \in Idx : q.sl[i] \in SUBSET Idx /\ r.sl[i] \in SUBSET Idx
      BY <2>2 DEF StructType
    <3> QED
      BY <3>3, <3>4
  <2>7. \A i \in Idx : i \in r.fl <=> i \in q.fl
    <3>1. \A i \in Idx : i \in q.fl <=> q.sl[i] # {}
      BY DEF Holds, BitmapExact
    <3> QED
      BY <2>2, <2>6, <3>1 DEF RemovedBits
  <2>8. BitmapExact(r)
    BY <2>3, <2>6, <2>7, SlotFacts DEF Holds, BitmapExact
  <2>9. OutsideClean(r, S)
    BY <2>3, <2>4 DEF Holds, OutsideClean
  <2>10. \A u \in S : q.pos[u] \in Slots
    BY Place DEF Holds, LinksAgree
  <2>11. LinksAgree(r, S, prio)
    BY <2>3, <2>4, <2>5, <2>10 DEF Holds, LinksAgree
  <2>12. Ranked(r, S, rank)
    BY <2>3, <2>4, <2>5, <2>10 DEF Holds, Ranked
  <2>13. Tails(r, S, tail)
    BY <2>3, <2>4, <2>5 DEF Tails
  <2> QED
    BY <2>2, <2>8, <2>9, <2>11, <2>12, <2>13 DEF Holds, r
<1> QED
  BY <1>1, <1>2 DEF StructType

(* remove_ss unlinks a member, wherever in its list it is.                 *)
LEMMA RemoveMember ==
    ASSUME NEW q \in StructType, NEW S \in SUBSET Threads,
           NEW prio \in [Threads -> Nat], NEW rank \in [Threads -> Int],
           NEW tail \in [Slots -> Ptr],
           Holds(q, S, prio, rank), Tails(q, S, tail),
           NEW t \in S
    PROVE  /\ remove_ss(q, t) \in StructType
           /\ Linked(remove_ss(q, t), S \ {t}, prio)
<1> DEFINE r  == remove_ss(q, t)
           x  == q.pos[t]
           nx == q.next[t]
           pv == q.prev[t]
           T  == S \ {t}
           tl == [tail EXCEPT ![x] = IF tail[x] = t THEN pv ELSE tail[x]]
<1>1. x \in Slots
  BY Place DEF Holds, LinksAgree
<1>2. /\ r \in StructType
      /\ \A s \in Slots : r.head[s] = IF s = x /\ q.head[s] = t THEN nx ELSE q.head[s]
      /\ \A u \in Threads :
            /\ r.next[u] = IF u = t THEN NULL ELSE IF u = pv THEN nx ELSE q.next[u]
            /\ r.prev[u] = IF u = t THEN NULL ELSE IF u = nx THEN pv ELSE q.prev[u]
            /\ r.pos[u] = IF u = t THEN NoPos ELSE q.pos[u]
  BY <1>1, RemoveFields DEF RemovedLinks
<1>3. RemovedBits(q, t, r)
  BY <1>1, RemoveFields
<1>4. /\ \A u \in S : q.pos[u] \in Slots
      /\ pv # t /\ nx # t
      /\ nx # NULL => nx \in S /\ q.prev[nx] = t /\ q.pos[nx] = x
      /\ pv # NULL => pv \in S /\ q.next[pv] = t /\ q.pos[pv] = x
      /\ pv = NULL <=> q.head[x] = t
      /\ \A s \in Slots : q.head[s] = t => s = x
  <2>1. \A u \in S : q.pos[u] \in Slots
    BY Place DEF Holds, LinksAgree
  <2>2. nx # NULL => nx \in S /\ q.prev[nx] = t /\ q.pos[nx] = x /\ rank[t] < rank[nx]
    BY DEF Holds, LinksAgree, Ranked
  <2>3. pv # NULL => pv \in S /\ q.next[pv] = t
    BY DEF Holds, LinksAgree
  <2>4. pv # NULL => q.pos[pv] = x /\ rank[pv] < rank[t]
    BY <2>3, NullAssumption DEF Holds, LinksAgree, Ranked
  <2>5. pv = NULL <=> q.head[x] = t
    BY <1>1, NullAssumption DEF Holds, LinksAgree
  <2>6. \A s \in Slots : q.head[s] = t => s = x
    BY NullAssumption DEF Holds, LinksAgree
  <2>7. rank[t] \in Int
    OBVIOUS
  <2> QED
    BY <2>1, <2>2, <2>3, <2>4, <2>5, <2>6, <2>7, NullAssumption
<1> HIDE DEF r, x, nx, pv
<1>5. BitmapExact(r)
  <2>1. ASSUME NEW i \in Idx, NEW j \in Idx
        PROVE  j \in r.sl[i] <=> r.head[<<i, j>>] # NULL
    <3>1. j \in q.sl[i] <=> q.head[<<i, j>>] # NULL
      BY DEF Holds, BitmapExact
    <3>2. j \in r.sl[i] <=> j \in q.sl[i] /\ ~(<<i, j>> = x /\ r.head[x] = NULL)
      BY <1>3 DEF RemovedBits, x
    <3>3. r.head[<<i, j>>] = IF <<i, j>> = x /\ q.head[x] = t THEN nx ELSE q.head[<<i, j>>]
      BY <1>2, SlotFacts
    <3> QED
      BY <3>1, <3>2, <3>3, NullAssumption
  <2>2. ASSUME NEW i \in Idx
        PROVE  i \in r.fl <=> r.sl[i] # {}
    <3>1. i \in q.fl <=> q.sl[i] # {}
      BY DEF Holds, BitmapExact
    <3>2. i \in r.fl <=> i \in q.fl /\ ~(i = x[1] /\ r.head[x] = NULL /\ r.sl[i] = {})
      BY <1>3 DEF RemovedBits, x
    <3>3. /\ \A j \in Idx : j \in r.sl[i] => j \in q.sl[i]
          /\ ~(i = x[1] /\ r.head[x] = NULL) => r.sl[i] = q.sl[i]
      <4>1. \A j \in Idx : j \in r.sl[i] <=> j \in q.sl[i] /\ ~(<<i, j>> = x /\ r.head[x] = NULL)
        BY <1>3 DEF RemovedBits, x
      <4>2. r.sl[i] \in SUBSET Idx /\ q.sl[i] \in SUBSET Idx
        BY <1>2 DEF StructType
      <4>3. \A j \in Idx : <<i, j>> = x => i = x[1]
        OBVIOUS
      <4> QED
        BY <4>1, <4>2, <4>3
    <3>4. r.sl[i] \in SUBSET Idx
      BY <1>2 DEF StructType
    <3> QED
      BY <3>1, <3>2, <3>3, <3>4
  <2> QED
    BY <2>1, <2>2 DEF BitmapExact
<1>6. OutsideClean(r, T)
  BY <1>2, <1>4, NullAssumption DEF Holds, OutsideClean
<1>7. LinksAgree(r, T, prio)
  <2>1. ASSUME NEW s \in Slots, r.head[s] # NULL
        PROVE  r.head[s] \in T /\ r.pos[r.head[s]] = s /\ r.prev[r.head[s]] = NULL
    BY <1>2, <1>4, <2>1, NullAssumption DEF Holds, LinksAgree
  <2>2. ASSUME NEW u \in T
        PROVE  /\ r.pos[u] = prio2ij(prio[u])
               /\ r.prev[u] = NULL => r.head[r.pos[u]] = u
    BY <1>2, <1>4, NullAssumption DEF Holds, LinksAgree
  <2>3. ASSUME NEW u \in T, r.prev[u] # NULL
        PROVE  r.prev[u] \in T /\ r.next[r.prev[u]] = u
    <3>1. CASE u = nx
      BY <1>2, <1>4, <2>3, <3>1
    <3>2. CASE u # nx
      <4>1. r.prev[u] = q.prev[u] /\ u # t /\ u \in S
        BY <1>2, <3>2
      <4>2. q.prev[u] \in S /\ q.next[q.prev[u]] = u
        BY <2>3, <4>1 DEF Holds, LinksAgree
      <4>3. q.prev[u] # t /\ q.prev[u] # pv
        BY <1>4, <3>2, <4>1, <4>2, NullAssumption DEF nx
      <4> QED
        BY <1>2, <4>1, <4>2, <4>3
    <3> QED
      BY <3>1, <3>2
  <2>4. ASSUME NEW u \in T, r.next[u] # NULL
        PROVE  /\ r.next[u] \in T /\ r.prev[r.next[u]] = u
               /\ r.pos[r.next[u]] = r.pos[u]
    <3>1. CASE u = pv
      BY <1>2, <1>4, <2>4, <3>1, NullAssumption
    <3>2. CASE u # pv
      <4>1. r.next[u] = q.next[u] /\ u # t /\ u \in S
        BY <1>2, <3>2
      <4>2. /\ q.next[u] \in S /\ q.prev[q.next[u]] = u
            /\ q.pos[q.next[u]] = q.pos[u]
        BY <2>4, <4>1 DEF Holds, LinksAgree
      <4>3. q.next[u] # t /\ q.next[u] # nx
        BY <1>4, <3>2, <4>1, <4>2, NullAssumption DEF pv
      <4> QED
        BY <1>2, <4>1, <4>2, <4>3
    <3> QED
      BY <3>1, <3>2
  <2> QED
    BY <2>1, <2>2, <2>3, <2>4 DEF LinksAgree
<1>8. Ranked(r, T, rank)
  <2>1. ASSUME NEW a \in T, NEW u \in T, r.pos[a] = r.pos[u], rank[a] = rank[u]
        PROVE  a = u
    BY <1>2, <2>1 DEF Holds, Ranked
  <2>2. ASSUME NEW a \in T, NEW u \in T, r.pos[a] = r.pos[u]
        PROVE  /\ r.head[r.pos[a]] # NULL
               /\ r.head[r.pos[a]] = a => rank[a] <= rank[u]
               /\ r.next[a] = NULL => rank[u] <= rank[a]
               /\ r.next[a] # NULL =>
                     /\ rank[a] < rank[r.next[a]]
                     /\ rank[u] <= rank[a] \/ rank[u] >= rank[r.next[a]]
    <3>1. /\ r.pos[a] = q.pos[a] /\ q.pos[a] = q.pos[u] /\ q.pos[a] \in Slots
          /\ a # t /\ u # t /\ a \in S /\ u \in S
          /\ rank[a] \in Int /\ rank[u] \in Int /\ rank[t] \in Int
      BY <1>2, <1>4, <2>2
    <3>2. q.pos[u] = x => rank[u] # rank[t]
      BY <3>1 DEF Holds, Ranked, x
    <3>3. q.pos[u] = x =>
            /\ q.head[x] = t => rank[t] <= rank[u]
            /\ nx = NULL => rank[u] <= rank[t]
            /\ nx # NULL => /\ rank[t] < rank[nx]
                            /\ rank[u] <= rank[t] \/ rank[u] >= rank[nx]
      BY <3>1 DEF Holds, Ranked, x, nx
    <3>4. /\ q.head[q.pos[a]] # NULL
          /\ q.head[q.pos[a]] = a => rank[a] <= rank[u]
          /\ q.next[a] = NULL => rank[u] <= rank[a]
          /\ q.next[a] # NULL => /\ rank[a] < rank[q.next[a]]
                                 /\ rank[u] <= rank[a] \/ rank[u] >= rank[q.next[a]]
      BY <3>1 DEF Holds, Ranked
    <3>5. nx # NULL => rank[nx] \in Int
      BY <1>4
    <3>6. r.head[r.pos[a]] # NULL
      BY <1>2, <3>1, <3>2, <3>3, <3>4
    <3>7. r.head[r.pos[a]] = a => rank[a] <= rank[u]
      BY <1>2, <3>1, <3>2, <3>3, <3>4, <3>5
    <3>8. CASE a = pv
      <4>1. r.next[a] = nx /\ q.next[a] = t /\ q.pos[a] = x /\ t # NULL
        BY <1>2, <1>4, <3>1, <3>8, NullAssumption
      <4> QED
        BY <3>1, <3>2, <3>3, <3>4, <3>5, <3>6, <3>7, <4>1
    <3>9. CASE a # pv
      <4>1. r.next[a] = q.next[a]
        BY <1>2, <3>1, <3>9
      <4> QED
        BY <3>4, <3>6, <3>7, <4>1
    <3> QED
      BY <3>8, <3>9
  <2> QED
    BY <2>1, <2>2 DEF Ranked
<1>9. tl \in [Slots -> Ptr]
  <2>1. pv \in Ptr
    BY DEF StructType, pv
  <2> QED
    BY <1>1, <2>1
<1>10. Tails(r, T, tl)
  <2>1. SUFFICES ASSUME NEW s \in Slots, r.head[s] # NULL
                 PROVE  tl[s] \in T /\ r.pos[tl[s]] = s /\ r.next[tl[s]] = NULL
    BY DEF Tails
  <2>2. q.head[s] # NULL
    BY <1>2, <2>1, NullAssumption
  <2>3. tail[s] \in S /\ q.pos[tail[s]] = s /\ q.next[tail[s]] = NULL
    BY <2>2 DEF Tails
  <2>4. CASE s = x /\ tail[x] = t
    <3>1. tl[s] = pv /\ nx = NULL
      BY <1>1, <2>3, <2>4 DEF nx
    <3>2. pv # NULL
      BY <1>2, <1>4, <2>1, <2>4, <3>1
    <3> QED
      BY <1>2, <1>4, <2>4, <3>1, <3>2
  <2>5. CASE ~(s = x /\ tail[x] = t)
    <3>1. tl[s] = tail[s] /\ tail[s] # t
      BY <1>1, <2>3, <2>5 DEF x
    <3> QED
      BY <1>2, <1>4, <2>3, <3>1, NullAssumption
  <2> QED
    BY <2>4, <2>5
<1> QED
  BY <1>2, <1>5, <1>6, <1>7, <1>8, <1>9, <1>10 DEF Linked, Holds, r

(* remove_ss takes a thread out, whether it was in or not.                 *)
LEMMA RemoveLinked ==
    ASSUME NEW q \in StructType, NEW S \in SUBSET Threads,
           NEW prio \in [Threads -> Nat], Linked(q, S, prio), NEW t \in Threads
    PROVE  /\ remove_ss(q, t) \in StructType
           /\ Linked(remove_ss(q, t), S \ {t}, prio)
<1>1. PICK rank \in [Threads -> Int], tail \in [Slots -> Ptr] :
        Holds(q, S, prio, rank) /\ Tails(q, S, tail)
  BY DEF Linked
<1>2. CASE t \in S
  BY <1>1, <1>2, RemoveMember
<1>3. CASE t \notin S
  <2>1. S \ {t} = S
    BY <1>3
  <2>2. t \in Threads \ S
    BY <1>3
  <2> QED
    BY <1>1, <2>1, <2>2, RemoveOutside DEF Linked
<1> QED
  BY <1>2, <1>3

-----------------------------------------------------------------------------
(* Insertions.                                                             *)

(* The bits an insertion into list s sets.                                 *)
SetBits(q, s, r) ==
    \A i \in Idx : /\ i \in r.fl <=> i \in q.fl \/ i = s[1]
                  /\ \A j \in Idx : j \in r.sl[i] <=> j \in q.sl[i] \/ <<i, j>> = s

(* Setting the bits of the list that was inserted into keeps the bitmaps   *)
(* exact.                                                                  *)
LEMMA SetBitsExact ==
    ASSUME NEW q \in StructType, NEW r \in StructType, NEW s \in Slots,
           BitmapExact(q), SetBits(q, s, r),
           \A x \in Slots : (r.head[x] # NULL) <=> (q.head[x] # NULL \/ x = s)
    PROVE  BitmapExact(r)
<1>1. ASSUME NEW i \in Idx, NEW j \in Idx
      PROVE  j \in r.sl[i] <=> r.head[<<i, j>>] # NULL
  BY SlotFacts DEF BitmapExact, SetBits
<1>2. ASSUME NEW i \in Idx
      PROVE  i \in r.fl <=> r.sl[i] # {}
  <2>1. i \in q.fl <=> q.sl[i] # {}
    BY DEF BitmapExact
  <2>2. i \in r.fl <=> i \in q.fl \/ i = s[1]
    BY DEF SetBits
  <2>3. \A j \in Idx : j \in r.sl[i] <=> j \in q.sl[i] \/ <<i, j>> = s
    BY DEF SetBits
  <2>4. q.sl[i] \in SUBSET Idx /\ r.sl[i] \in SUBSET Idx
    BY DEF StructType
  <2>5. s[2] \in Idx /\ (i = s[1] => <<i, s[2]>> = s)
    BY SlotFacts
  <2>6. \A j \in Idx : <<i, j>> = s => i = s[1]
    OBVIOUS
  <2> QED
    BY <2>1, <2>2, <2>3, <2>4, <2>5, <2>6
<1> QED
  BY <1>1, <1>2 DEF BitmapExact

(* The bitmaps insert_ss and insert_ss_tail leave.                         *)
LEMMA SetBitsFields ==
    ASSUME NEW q \in StructType, NEW s \in Slots, NEW r,
           r.fl = q.fl \cup {s[1]},
           r.sl = [q.sl EXCEPT ![s[1]] = q.sl[s[1]] \cup {s[2]}]
    PROVE  SetBits(q, s, r)
<1>1. s[1] \in Idx /\ s[2] \in Idx /\ s = <<s[1], s[2]>>
  BY SlotFacts
<1>2. \A i \in Idx : r.sl[i] = IF i = s[1] THEN q.sl[i] \cup {s[2]} ELSE q.sl[i]
  BY DEF StructType
<1>3. ASSUME NEW i \in Idx, NEW j \in Idx
      PROVE  j \in r.sl[i] <=> j \in q.sl[i] \/ <<i, j>> = s
  <2>1. <<i, j>> = s <=> i = s[1] /\ j = s[2]
    BY <1>1
  <2> QED
    BY <1>2, <2>1
<1> QED
  BY <1>3 DEF SetBits

InsertedLinks(q, t, s, r) ==
    /\ \A x \in Slots : r.head[x] = IF x = s THEN t ELSE q.head[x]
    /\ \A u \in Threads :
          /\ r.next[u] = IF u = t THEN q.head[s] ELSE q.next[u]
          /\ r.prev[u] = IF u = q.head[s] THEN t ELSE IF u = t THEN NULL ELSE q.prev[u]
          /\ r.pos[u] = IF u = t THEN s ELSE q.pos[u]

(* The fields insert_ss writes, one by one.                                *)
LEMMA InsertFields ==
    ASSUME NEW q \in StructType, NEW t \in Threads, NEW p \in Nat,
           NEW r, r = insert_ss(q, t, p)
    PROVE  /\ r \in StructType
           /\ InsertedLinks(q, t, prio2ij(p), r)
           /\ SetBits(q, prio2ij(p), r)
<1> DEFINE s == prio2ij(p)
<1>1. s \in Slots /\ s[1] \in Idx /\ s[2] \in Idx
  BY Place
<1>2. r = [head |-> [q.head EXCEPT ![s] = t],
           next |-> [q.next EXCEPT ![t] = q.head[s]],
           prev |-> [u \in Threads |-> IF u = q.head[s] THEN t
                                       ELSE IF u = t THEN NULL ELSE q.prev[u]],
           pos  |-> [q.pos EXCEPT ![t] = s],
           fl   |-> q.fl \cup {s[1]},
           sl   |-> [q.sl EXCEPT ![s[1]] = q.sl[s[1]] \cup {s[2]}]]
  BY DEF insert_ss
<1> HIDE DEF s
<1>3. r \in StructType
  BY <1>1, <1>2 DEF StructType, Ptr
<1>4. InsertedLinks(q, t, s, r)
  BY <1>1, <1>2 DEF StructType, InsertedLinks
<1>5. SetBits(q, s, r)
  BY <1>1, <1>2, SetBitsFields
<1> QED
  BY <1>3, <1>4, <1>5 DEF s

(* insert_ss puts a thread that was in no list first into its list.        *)
LEMMA InsertLinked ==
    ASSUME NEW q \in StructType, NEW S \in SUBSET Threads,
           NEW prio \in [Threads -> Nat], Linked(q, S, prio),
           NEW t \in Threads \ S
    PROVE  /\ insert_ss(q, t, prio[t]) \in StructType
           /\ Linked(insert_ss(q, t, prio[t]), S \cup {t}, prio)
<1>1. PICK rank \in [Threads -> Int], tail \in [Slots -> Ptr] :
        Holds(q, S, prio, rank) /\ Tails(q, S, tail)
  BY DEF Linked
<1> DEFINE r  == insert_ss(q, t, prio[t])
           s  == prio2ij(prio[t])
           h  == q.head[s]
           T  == S \cup {t}
           rk == [rank EXCEPT ![t] = IF h = NULL THEN 0 ELSE rank[h] - 1]
           tl == [tail EXCEPT ![s] = IF h = NULL THEN t ELSE tail[s]]
<1>2. s \in Slots
  BY Place
<1>3. r \in StructType /\ InsertedLinks(q, t, s, r) /\ SetBits(q, s, r)
  BY InsertFields
<1>4. /\ \A x \in Slots : r.head[x] = IF x = s THEN t ELSE q.head[x]
      /\ \A u \in Threads :
            /\ r.next[u] = IF u = t THEN h ELSE q.next[u]
            /\ r.prev[u] = IF u = h THEN t ELSE IF u = t THEN NULL ELSE q.prev[u]
            /\ r.pos[u] = IF u = t THEN s ELSE q.pos[u]
  BY <1>3 DEF InsertedLinks
<1>5. /\ h # NULL => h \in S /\ q.pos[h] = s /\ q.prev[h] = NULL
      /\ h # t
      /\ q.next[t] = NULL /\ q.prev[t] = NULL
      /\ \A x \in Slots : q.head[x] # t
      /\ \A u \in S : q.pos[u] \in Slots /\ q.next[u] # t /\ q.prev[u] # t
  BY <1>1, <1>2, Place, NullAssumption DEF Holds, LinksAgree, OutsideClean
<1>6. /\ rk \in [Threads -> Int]
      /\ \A u \in S : rk[u] = rank[u]
      /\ h # NULL => rk[t] = rank[h] - 1
  BY <1>5
<1>7. tl \in [Slots -> Ptr]
  BY <1>2 DEF Ptr
<1> HIDE DEF r, s, h, rk
<1>8. BitmapExact(r)
  <2>1. \A x \in Slots : (r.head[x] # NULL) <=> (q.head[x] # NULL \/ x = s)
    BY <1>4, NullAssumption
  <2> QED
    BY <1>1, <1>2, <1>3, <2>1, SetBitsExact DEF Holds
<1>9. OutsideClean(r, T)
  BY <1>1, <1>4, <1>5, NullAssumption DEF Holds, OutsideClean
<1>10. LinksAgree(r, T, prio)
  <2>1. ASSUME NEW x \in Slots, r.head[x] # NULL
        PROVE  r.head[x] \in T /\ r.pos[r.head[x]] = x /\ r.prev[r.head[x]] = NULL
    <3>1. CASE x = s
      BY <1>4, <1>5, <3>1
    <3>2. CASE x # s
      <4>1. r.head[x] = q.head[x] /\ q.head[x] # NULL
        BY <1>4, <2>1, <3>2
      <4>2. q.head[x] \in S /\ q.pos[q.head[x]] = x /\ q.prev[q.head[x]] = NULL
        BY <1>1, <4>1 DEF Holds, LinksAgree
      <4>3. q.head[x] # h /\ q.head[x] # t
        BY <1>5, <3>2, <4>1, <4>2
      <4> QED
        BY <1>4, <4>1, <4>2, <4>3
    <3> QED
      BY <3>1, <3>2
  <2>2. /\ r.pos[t] = prio2ij(prio[t])
        /\ r.prev[t] = NULL /\ r.head[r.pos[t]] = t
        /\ r.next[t] # NULL => /\ r.next[t] \in T
                               /\ r.prev[r.next[t]] = t
                               /\ r.pos[r.next[t]] = r.pos[t]
    BY <1>2, <1>4, <1>5 DEF s
  <2>3. ASSUME NEW u \in S
        PROVE  /\ r.pos[u] = prio2ij(prio[u])
               /\ r.prev[u] = NULL => r.head[r.pos[u]] = u
               /\ r.prev[u] # NULL => r.prev[u] \in T /\ r.next[r.prev[u]] = u
    <3>1. /\ q.pos[u] = prio2ij(prio[u]) /\ r.pos[u] = q.pos[u] /\ u # t
          /\ q.prev[u] = NULL => q.head[q.pos[u]] = u
          /\ q.prev[u] # NULL => q.prev[u] \in S /\ q.next[q.prev[u]] = u
      BY <1>1, <1>4 DEF Holds, LinksAgree
    <3>2. CASE u = h
      BY <1>4, <3>1, <3>2, NullAssumption
    <3>3. CASE u # h
      <4>1. r.prev[u] = q.prev[u]
        BY <1>4, <3>1, <3>3
      <4>2. q.prev[u] = NULL => q.pos[u] # s /\ q.pos[u] \in Slots
        BY <1>5, <3>1, <3>3 DEF h
      <4> QED
        BY <1>4, <3>1, <4>1, <4>2
    <3> QED
      BY <3>2, <3>3
  <2>4. ASSUME NEW u \in S, r.next[u] # NULL
        PROVE  /\ r.next[u] \in T /\ r.prev[r.next[u]] = u
               /\ r.pos[r.next[u]] = r.pos[u]
    <3>1. r.next[u] = q.next[u] /\ u # t
      BY <1>4
    <3>2. /\ q.next[u] \in S /\ q.prev[q.next[u]] = u
          /\ q.pos[q.next[u]] = q.pos[u]
      BY <1>1, <2>4, <3>1 DEF Holds, LinksAgree
    <3>3. q.next[u] # h
      BY <1>5, <3>2, NullAssumption
    <3> QED
      BY <1>4, <3>1, <3>2, <3>3
  <2> QED
    BY <2>1, <2>2, <2>3, <2>4 DEF LinksAgree
<1>11. Ranked(r, T, rk)
  <2>1. \A u \in S : r.pos[u] = q.pos[u] /\ r.next[u] = q.next[u] /\ rk[u] \in Int
    BY <1>4, <1>6
  <2>2. /\ r.pos[t] = s /\ r.next[t] = h /\ r.head[s] = t /\ t # NULL
        /\ rk[t] \in Int
    BY <1>2, <1>4, <1>6, NullAssumption
  <2>3. \A u \in S : q.pos[u] = s => h # NULL /\ rank[h] <= rank[u] /\ rk[t] < rk[u]
    <3>1. SUFFICES ASSUME NEW u \in S, q.pos[u] = s
                   PROVE  h # NULL /\ rank[h] <= rank[u] /\ rk[t] < rk[u]
      OBVIOUS
    <3>2. h # NULL
      BY <1>1, <3>1 DEF Holds, Ranked, h
    <3>3. rank[h] <= rank[u]
      BY <1>1, <1>5, <3>1, <3>2 DEF Holds, Ranked, h
    <3>4. rank[h] \in Int /\ rank[u] \in Int
      BY <1>5, <3>2
    <3> QED
      BY <1>6, <3>2, <3>3, <3>4
  <2>4. \A a, u \in S : q.pos[a] = q.pos[u] =>
          /\ rank[a] = rank[u] => a = u
          /\ q.head[q.pos[a]] # NULL
          /\ q.head[q.pos[a]] = a => rank[a] <= rank[u]
          /\ q.next[a] = NULL => rank[u] <= rank[a]
          /\ q.next[a] # NULL => /\ rank[a] < rank[q.next[a]]
                                 /\ rank[u] <= rank[a] \/ rank[u] >= rank[q.next[a]]
    BY <1>1 DEF Holds, Ranked
  <2>5. \A a \in S : q.next[a] # NULL => q.next[a] \in S
    BY <1>1 DEF Holds, LinksAgree
  <2>6. ASSUME NEW a \in T, NEW u \in T, r.pos[a] = r.pos[u], rk[a] = rk[u]
        PROVE  a = u
    BY <1>6, <2>1, <2>2, <2>3, <2>4, <2>6
  <2>7. ASSUME NEW a \in T, NEW u \in T, r.pos[a] = r.pos[u]
        PROVE  /\ r.head[r.pos[a]] # NULL
               /\ r.head[r.pos[a]] = a => rk[a] <= rk[u]
               /\ r.next[a] = NULL => rk[u] <= rk[a]
               /\ r.next[a] # NULL =>
                     /\ rk[a] < rk[r.next[a]]
                     /\ rk[u] <= rk[a] \/ rk[u] >= rk[r.next[a]]
    <3>1. CASE a = t
      <4>1. CASE u = t
        BY <1>5, <1>6, <2>1, <2>2, <2>3, <3>1, <4>1
      <4>2. CASE u # t
        BY <1>5, <1>6, <2>1, <2>2, <2>3, <2>7, <3>1, <4>2
      <4> QED
        BY <4>1, <4>2
    <3>2. CASE a # t /\ u = t
      <4>1. a \in S /\ q.pos[a] = s /\ rk[t] < rk[a] /\ r.next[a] = q.next[a]
        BY <2>1, <2>2, <2>3, <2>7, <3>2
      <4>2. q.next[a] # NULL => rk[a] < rk[q.next[a]] /\ q.next[a] \in S
        BY <1>6, <2>4, <2>5, <4>1
      <4> QED
        BY <2>1, <2>2, <2>7, <3>2, <4>1, <4>2
    <3>3. CASE a # t /\ u # t
      <4>1. a \in S /\ u \in S /\ q.pos[a] = q.pos[u] /\ r.pos[a] = q.pos[a]
        BY <2>1, <2>7, <3>3
      <4>2. r.head[q.pos[a]] = IF q.pos[a] = s THEN t ELSE q.head[q.pos[a]]
        BY <1>4, <1>5, <4>1
      <4>3. q.next[a] # NULL => rk[q.next[a]] = rank[q.next[a]]
        BY <1>6, <2>5, <4>1
      <4>4. rk[a] = rank[a] /\ rk[u] = rank[u] /\ r.next[a] = q.next[a]
        BY <1>6, <2>1, <4>1
      <4> QED
        BY <2>2, <2>4, <3>3, <4>1, <4>2, <4>3, <4>4
    <3> QED
      BY <3>1, <3>2, <3>3
  <2> QED
    BY <2>6, <2>7 DEF Ranked
<1>12. Tails(r, T, tl)
  <2>1. SUFFICES ASSUME NEW x \in Slots, r.head[x] # NULL
                 PROVE  tl[x] \in T /\ r.pos[tl[x]] = x /\ r.next[tl[x]] = NULL
    BY DEF Tails
  <2>2. CASE x = s /\ h = NULL
    BY <1>2, <1>4, <2>2
  <2>3. CASE ~(x = s /\ h = NULL)
    <3>1. tl[x] = tail[x] /\ q.head[x] # NULL
      BY <1>4, <2>1, <2>3 DEF h
    <3>2. tail[x] \in S /\ q.pos[tail[x]] = x /\ q.next[tail[x]] = NULL
      BY <1>1, <3>1 DEF Tails
    <3> QED
      BY <1>4, <3>1, <3>2
  <2> QED
    BY <2>2, <2>3
<1> QED
  BY <1>3, <1>6, <1>7, <1>8, <1>9, <1>10, <1>11, <1>12 DEF Linked, Holds, r

(* The walk of insert_ss_tail ends at the one tail of the list.            *)
LEMMA TailUnique ==
    ASSUME NEW q \in StructType, NEW S \in SUBSET Threads,
           NEW prio \in [Threads -> Nat], NEW rank \in [Threads -> Int], NEW tail,
           Holds(q, S, prio, rank), Tails(q, S, tail),
           NEW s \in Slots, q.head[s] # NULL
    PROVE  TailOf(q, s) = tail[s]
<1>1. tail[s] \in S /\ q.pos[tail[s]] = s /\ q.next[tail[s]] = NULL
  BY DEF Tails
<1>2. InList(q, tail[s], s)
  BY <1>1 DEF InList, Holds, LinksAgree
<1>3. ASSUME NEW u \in Threads, InList(q, u, s), q.next[u] = NULL
      PROVE  u = tail[s]
  <2>1. u \in S /\ q.pos[u] = s
    BY <1>3, NullAssumption DEF InList, Holds, LinksAgree, OutsideClean
  <2>2. rank[u] <= rank[tail[s]] /\ rank[tail[s]] <= rank[u]
    BY <1>1, <1>3, <2>1 DEF Holds, Ranked
  <2>3. rank[u] = rank[tail[s]]
    BY <1>1, <2>1, <2>2
  <2> QED
    BY <1>1, <2>1, <2>3 DEF Holds, Ranked
<1> QED
  BY <1>1, <1>2, <1>3 DEF TailOf

AppendedLinks(q, t, s, aux, r) ==
    /\ \A x \in Slots : r.head[x] = IF x = s /\ q.head[s] = NULL THEN t ELSE q.head[x]
    /\ \A u \in Threads :
          /\ r.next[u] = IF u = t THEN NULL
                         ELSE IF q.head[s] # NULL /\ u = aux THEN t ELSE q.next[u]
          /\ r.prev[u] = IF u = t THEN IF q.head[s] = NULL THEN NULL ELSE aux
                         ELSE q.prev[u]
          /\ r.pos[u] = IF u = t THEN s ELSE q.pos[u]

(* The fields insert_ss_tail writes, one by one.                           *)
LEMMA AppendFields ==
    ASSUME NEW q \in StructType, NEW t \in Threads, NEW p \in Nat,
           NEW aux, q.head[prio2ij(p)] # NULL => aux \in Threads /\ aux = TailOf(q, prio2ij(p)),
           NEW r, r = insert_ss_tail(q, t, p)
    PROVE  /\ r \in StructType
           /\ AppendedLinks(q, t, prio2ij(p), aux, r)
           /\ SetBits(q, prio2ij(p), r)
<1> DEFINE s    == prio2ij(p)
           none == q.head[s] = NULL
           ta   == TailOf(q, s)
<1>1. s \in Slots /\ s[1] \in Idx /\ s[2] \in Idx
  BY Place
<1>2. r = [head |-> IF none THEN [q.head EXCEPT ![s] = t] ELSE q.head,
           next |-> [u \in Threads |-> IF u = t THEN NULL
                                       ELSE IF ~none /\ u = ta THEN t
                                       ELSE q.next[u]],
           prev |-> [q.prev EXCEPT ![t] = IF none THEN NULL ELSE ta],
           pos  |-> [q.pos EXCEPT ![t] = s],
           fl   |-> q.fl \cup {s[1]},
           sl   |-> [q.sl EXCEPT ![s[1]] = q.sl[s[1]] \cup {s[2]}]]
  BY DEF insert_ss_tail
<1>3. ~none => ta = aux /\ aux \in Threads
  OBVIOUS
<1> HIDE DEF s, ta
<1>4. r \in StructType
  <2>1. (IF none THEN [q.head EXCEPT ![s] = t] ELSE q.head) \in [Slots -> Ptr]
    BY <1>1 DEF StructType, Ptr
  <2>2. [q.prev EXCEPT ![t] = IF none THEN NULL ELSE ta] \in [Threads -> Ptr]
    BY <1>3 DEF StructType, Ptr
  <2>3. [u \in Threads |-> IF u = t THEN NULL ELSE IF ~none /\ u = ta THEN t
                           ELSE q.next[u]] \in [Threads -> Ptr]
    BY DEF StructType, Ptr
  <2> QED
    BY <1>1, <1>2, <2>1, <2>2, <2>3 DEF StructType
<1>5. AppendedLinks(q, t, s, aux, r)
  BY <1>1, <1>2, <1>3 DEF StructType, AppendedLinks
<1>6. SetBits(q, s, r)
  BY <1>1, <1>2, SetBitsFields
<1> QED
  BY <1>4, <1>5, <1>6 DEF s

(* insert_ss_tail puts a thread that was in no list last into its list.    *)
LEMMA AppendLinked ==
    ASSUME NEW q \in StructType, NEW S \in SUBSET Threads,
           NEW prio \in [Threads -> Nat], Linked(q, S, prio),
           NEW t \in Threads \ S
    PROVE  /\ insert_ss_tail(q, t, prio[t]) \in StructType
           /\ Linked(insert_ss_tail(q, t, prio[t]), S \cup {t}, prio)
<1>1. PICK rank \in [Threads -> Int], tail \in [Slots -> Ptr] :
        Holds(q, S, prio, rank) /\ Tails(q, S, tail)
  BY DEF Linked
<1> DEFINE r  == insert_ss_tail(q, t, prio[t])
           s  == prio2ij(prio[t])
           h  == q.head[s]
           z  == tail[s]
           T  == S \cup {t}
           rk == [rank EXCEPT ![t] = IF h = NULL THEN 0 ELSE rank[z] + 1]
           tl == [tail EXCEPT ![s] = t]
<1>2. s \in Slots
  BY Place
<1>3. h # NULL => z \in S /\ q.pos[z] = s /\ q.next[z] = NULL /\ z = TailOf(q, s)
  BY <1>1, <1>2, TailUnique DEF Tails
<1>4. r \in StructType /\ AppendedLinks(q, t, s, z, r) /\ SetBits(q, s, r)
  BY <1>3, AppendFields
<1>5. /\ \A x \in Slots : r.head[x] = IF x = s /\ h = NULL THEN t ELSE q.head[x]
      /\ \A u \in Threads :
            /\ r.next[u] = IF u = t THEN NULL
                           ELSE IF h # NULL /\ u = z THEN t ELSE q.next[u]
            /\ r.prev[u] = IF u = t THEN IF h = NULL THEN NULL ELSE z ELSE q.prev[u]
            /\ r.pos[u] = IF u = t THEN s ELSE q.pos[u]
  BY <1>4 DEF AppendedLinks
<1>6. /\ q.next[t] = NULL /\ q.prev[t] = NULL
      /\ \A x \in Slots : q.head[x] # t
      /\ \A u \in S : q.pos[u] \in Slots /\ q.next[u] # t /\ q.prev[u] # t
  BY <1>1, Place, NullAssumption DEF Holds, LinksAgree, OutsideClean
<1>7. /\ rk \in [Threads -> Int]
      /\ \A u \in S : rk[u] = rank[u]
      /\ h # NULL => rk[t] = rank[z] + 1
  BY <1>3
<1>8. tl \in [Slots -> Ptr] /\ \A x \in Slots : tl[x] = IF x = s THEN t ELSE tail[x]
  BY <1>2 DEF Ptr
<1>9. /\ \A u \in S : q.pos[u] = s => h # NULL
      /\ h # NULL => \A u \in S : q.pos[u] = s => rank[u] <= rank[z]
      /\ h # NULL => \A u \in S : q.pos[u] = s /\ q.next[u] = NULL => u = z
      /\ h # NULL => \A u \in S : q.prev[u] # z
  <2>1. \A u \in S : q.pos[u] = s => h # NULL
    BY <1>1 DEF Holds, Ranked
  <2>2. h # NULL => \A u \in S : q.pos[u] = s => rank[u] <= rank[z]
    BY <1>1, <1>3 DEF Holds, Ranked
  <2>3. h # NULL => \A u \in S : q.pos[u] = s /\ q.next[u] = NULL => u = z
    <3>1. SUFFICES ASSUME h # NULL, NEW u \in S, q.pos[u] = s, q.next[u] = NULL
                   PROVE  u = z
      OBVIOUS
    <3>2. rank[u] <= rank[z] /\ rank[z] <= rank[u]
      BY <1>1, <1>3, <2>2, <3>1 DEF Holds, Ranked
    <3>3. rank[u] = rank[z]
      BY <1>3, <3>1, <3>2
    <3> QED
      BY <1>1, <1>3, <3>1, <3>3 DEF Holds, Ranked
  <2>4. h # NULL => \A u \in S : q.prev[u] # z
    BY <1>1, <1>3, NullAssumption DEF Holds, LinksAgree
  <2> QED
    BY <2>1, <2>2, <2>3, <2>4
<1> HIDE DEF r, s, h, z, rk, tl
<1>10. BitmapExact(r)
  <2>1. \A x \in Slots : (r.head[x] # NULL) <=> (q.head[x] # NULL \/ x = s)
    BY <1>5, NullAssumption DEF h
  <2> QED
    BY <1>1, <1>2, <1>4, <2>1, SetBitsExact DEF Holds
<1>11. OutsideClean(r, T)
  BY <1>1, <1>3, <1>5, <1>6, NullAssumption DEF Holds, OutsideClean
<1>12. LinksAgree(r, T, prio)
  <2>1. ASSUME NEW x \in Slots, r.head[x] # NULL
        PROVE  r.head[x] \in T /\ r.pos[r.head[x]] = x /\ r.prev[r.head[x]] = NULL
    <3>1. CASE x = s /\ h = NULL
      BY <1>5, <3>1
    <3>2. CASE ~(x = s /\ h = NULL)
      <4>1. r.head[x] = q.head[x] /\ q.head[x] # NULL
        BY <1>5, <2>1, <3>2 DEF h
      <4>2. q.head[x] \in S /\ q.pos[q.head[x]] = x /\ q.prev[q.head[x]] = NULL
        BY <1>1, <4>1 DEF Holds, LinksAgree
      <4> QED
        BY <1>5, <4>1, <4>2
    <3> QED
      BY <3>1, <3>2
  <2>2. /\ r.pos[t] = prio2ij(prio[t])
        /\ r.prev[t] = NULL => r.head[r.pos[t]] = t
        /\ r.prev[t] # NULL => r.prev[t] \in T /\ r.next[r.prev[t]] = t
        /\ r.next[t] = NULL
    BY <1>2, <1>3, <1>5, NullAssumption DEF s
  <2>3. ASSUME NEW u \in S
        PROVE  /\ r.pos[u] = prio2ij(prio[u])
               /\ r.prev[u] = NULL => r.head[r.pos[u]] = u
               /\ r.prev[u] # NULL => r.prev[u] \in T /\ r.next[r.prev[u]] = u
    <3>1. /\ q.pos[u] = prio2ij(prio[u]) /\ r.pos[u] = q.pos[u] /\ u # t
          /\ q.prev[u] = NULL => q.head[q.pos[u]] = u
          /\ q.prev[u] # NULL => q.prev[u] \in S /\ q.next[q.prev[u]] = u
          /\ r.prev[u] = q.prev[u] /\ q.pos[u] \in Slots
      BY <1>1, <1>5, <1>6 DEF Holds, LinksAgree
    <3>2. q.prev[u] = NULL => r.head[q.pos[u]] = u
      BY <1>5, <3>1, NullAssumption DEF h
    <3>3. q.prev[u] # NULL => r.next[q.prev[u]] = u
      BY <1>5, <1>6, <1>9, <3>1
    <3> QED
      BY <3>1, <3>2, <3>3
  <2>4. ASSUME NEW u \in S, r.next[u] # NULL
        PROVE  /\ r.next[u] \in T /\ r.prev[r.next[u]] = u
               /\ r.pos[r.next[u]] = r.pos[u]
    <3>1. CASE h # NULL /\ u = z
      BY <1>3, <1>5, <3>1
    <3>2. CASE ~(h # NULL /\ u = z)
      <4>1. r.next[u] = q.next[u] /\ u # t
        BY <1>5, <3>2
      <4>2. /\ q.next[u] \in S /\ q.prev[q.next[u]] = u
            /\ q.pos[q.next[u]] = q.pos[u]
        BY <1>1, <2>4, <4>1 DEF Holds, LinksAgree
      <4> QED
        BY <1>5, <4>1, <4>2
    <3> QED
      BY <3>1, <3>2
  <2> QED
    BY <2>1, <2>2, <2>3, <2>4 DEF LinksAgree
<1>13. Ranked(r, T, rk)
  <2>1. \A u \in S : /\ r.pos[u] = q.pos[u] /\ rk[u] \in Int
                     /\ r.next[u] = IF h # NULL /\ u = z THEN t ELSE q.next[u]
    BY <1>5, <1>7
  <2>2. r.pos[t] = s /\ r.next[t] = NULL /\ t # NULL /\ rk[t] \in Int
    BY <1>2, <1>5, <1>7, NullAssumption
  <2>3. \A u \in S : q.pos[u] = s => rk[u] < rk[t]
    <3>1. h # NULL => rank[z] \in Int
      BY <1>3
    <3>2. \A u \in S : rank[u] \in Int
      OBVIOUS
    <3> QED
      BY <1>7, <1>9, <3>1, <3>2
  <2>4. \A a, u \in S : q.pos[a] = q.pos[u] =>
          /\ rank[a] = rank[u] => a = u
          /\ q.head[q.pos[a]] # NULL
          /\ q.head[q.pos[a]] = a => rank[a] <= rank[u]
          /\ q.next[a] = NULL => rank[u] <= rank[a]
          /\ q.next[a] # NULL => /\ rank[a] < rank[q.next[a]]
                                 /\ rank[u] <= rank[a] \/ rank[u] >= rank[q.next[a]]
    BY <1>1 DEF Holds, Ranked
  <2>5. \A a \in S : q.next[a] # NULL => q.next[a] \in S
    BY <1>1 DEF Holds, LinksAgree
  <2>6. ASSUME NEW a \in T, NEW u \in T, r.pos[a] = r.pos[u], rk[a] = rk[u]
        PROVE  a = u
    BY <1>7, <2>1, <2>2, <2>3, <2>4, <2>6
  <2>7. ASSUME NEW a \in T, NEW u \in T, r.pos[a] = r.pos[u]
        PROVE  /\ r.head[r.pos[a]] # NULL
               /\ r.head[r.pos[a]] = a => rk[a] <= rk[u]
               /\ r.next[a] = NULL => rk[u] <= rk[a]
               /\ r.next[a] # NULL =>
                     /\ rk[a] < rk[r.next[a]]
                     /\ rk[u] <= rk[a] \/ rk[u] >= rk[r.next[a]]
    <3>1. CASE a = t
      <4>1. r.head[s] # NULL
        BY <1>2, <1>5, <2>2 DEF h
      <4>2. r.head[s] = t => h = NULL
        BY <1>2, <1>5, <1>6 DEF h
      <4>3. u # t => h # NULL /\ rk[u] < rk[t]
        BY <1>9, <2>1, <2>2, <2>3, <2>7, <3>1
      <4> QED
        BY <2>1, <2>2, <3>1, <4>1, <4>2, <4>3
    <3>2. CASE a # t
      <4>1. a \in S /\ r.pos[a] = q.pos[a] /\ q.pos[a] \in Slots
        BY <1>6, <2>1, <3>2
      <4>2. r.head[q.pos[a]] = q.head[q.pos[a]] /\ q.head[q.pos[a]] # NULL
        BY <1>5, <1>9, <2>4, <4>1
      <4>3. CASE u = t
        <5>1. q.pos[a] = s /\ rk[a] < rk[t] /\ h # NULL
          BY <1>9, <2>2, <2>3, <2>7, <4>1, <4>3
        <5>2. CASE a = z
          BY <2>1, <2>2, <4>1, <4>2, <4>3, <5>1, <5>2
        <5>3. CASE a # z
          <6>1. r.next[a] = q.next[a] /\ q.next[a] # NULL
            BY <1>9, <2>1, <4>1, <5>1, <5>3
          <6>2. q.next[a] \in S /\ q.pos[q.next[a]] = s /\ rank[a] < rank[q.next[a]]
            BY <1>1, <2>4, <4>1, <5>1, <6>1 DEF Holds, LinksAgree
          <6>3. rk[q.next[a]] < rk[t] /\ rk[a] < rk[q.next[a]] /\ rk[q.next[a]] \in Int
            BY <1>7, <2>1, <2>3, <4>1, <6>2
          <6> QED
            BY <2>1, <2>2, <4>1, <4>2, <4>3, <5>1, <6>1, <6>3
        <5> QED
          BY <5>2, <5>3
      <4>4. CASE u # t
        <5>1. u \in S /\ q.pos[u] = q.pos[a] /\ rk[u] = rank[u] /\ rk[a] = rank[a]
          BY <1>7, <2>1, <2>7, <4>1, <4>4
        <5>2. CASE h # NULL /\ a = z
          <6>1. r.next[a] = t /\ q.pos[a] = s /\ q.next[a] = NULL
            BY <1>3, <2>1, <4>1, <5>2
          <6> QED
            BY <2>1, <2>2, <2>3, <2>4, <4>1, <4>2, <5>1, <6>1
        <5>3. CASE ~(h # NULL /\ a = z)
          <6>1. r.next[a] = q.next[a]
            BY <2>1, <4>1, <5>3
          <6>2. q.next[a] # NULL => rk[q.next[a]] = rank[q.next[a]]
            BY <1>7, <2>5, <4>1
          <6> QED
            BY <2>4, <4>1, <4>2, <5>1, <6>1, <6>2
        <5> QED
          BY <5>2, <5>3
      <4> QED
        BY <4>3, <4>4
    <3> QED
      BY <3>1, <3>2
  <2> QED
    BY <2>6, <2>7 DEF Ranked
<1>14. Tails(r, T, tl)
  <2>1. SUFFICES ASSUME NEW x \in Slots, r.head[x] # NULL
                 PROVE  tl[x] \in T /\ r.pos[tl[x]] = x /\ r.next[tl[x]] = NULL
    BY DEF Tails
  <2>2. CASE x = s
    BY <1>5, <1>8, <2>2
  <2>3. CASE x # s
    <3>1. tl[x] = tail[x] /\ q.head[x] # NULL
      BY <1>5, <1>8, <2>1, <2>3
    <3>2. tail[x] \in S /\ q.pos[tail[x]] = x /\ q.next[tail[x]] = NULL
      BY <1>1, <3>1 DEF Tails
    <3> QED
      BY <1>3, <1>5, <2>3, <3>1, <3>2
  <2> QED
    BY <2>2, <2>3
<1> QED
  BY <1>4, <1>7, <1>8, <1>10, <1>11, <1>12, <1>13, <1>14 DEF Linked, Holds, r

-----------------------------------------------------------------------------
(* A zeroed structure is as good as an unlinked one: its place is never    *)
(* followed while it is in no list.                                        *)
LEMMA ZeroLinked ==
    ASSUME NEW q \in StructType, NEW S \in SUBSET Threads,
           NEW prio \in [Threads -> Nat], Linked(q, S, prio),
           NEW t \in Threads \ S
    PROVE  zero_ss(q, t) \in StructType /\ Linked(zero_ss(q, t), S, prio)
<1>1. PICK rank \in [Threads -> Int], tail \in [Slots -> Ptr] :
        Holds(q, S, prio, rank) /\ Tails(q, S, tail)
  BY DEF Linked
<1> DEFINE r == zero_ss(q, t)
<1>2. <<0, 0>> \in Slots
  BY WidthAssumption DEF Slots, Idx
<1>3. r = [head |-> q.head, next |-> [q.next EXCEPT ![t] = NULL],
           prev |-> [q.prev EXCEPT ![t] = NULL],
           pos |-> [q.pos EXCEPT ![t] = <<0, 0>>], fl |-> q.fl, sl |-> q.sl]
  BY DEF zero_ss, StructType
<1>4. r \in StructType
  BY <1>2, <1>3 DEF StructType, Ptr
<1>5. r.head = q.head /\ r.fl = q.fl /\ r.sl = q.sl
  BY <1>3 DEF StructType
<1>6. \A u \in Threads : /\ r.next[u] = IF u = t THEN NULL ELSE q.next[u]
                         /\ r.prev[u] = IF u = t THEN NULL ELSE q.prev[u]
                         /\ r.pos[u] = IF u = t THEN <<0, 0>> ELSE q.pos[u]
  BY <1>3 DEF StructType
<1>7. q.next[t] = NULL /\ q.prev[t] = NULL
  BY <1>1 DEF Holds, OutsideClean
<1> HIDE DEF r
<1>8. \A u \in Threads : r.next[u] = q.next[u] /\ r.prev[u] = q.prev[u]
  BY <1>6, <1>7
<1>9. \A u \in S : r.pos[u] = q.pos[u]
  BY <1>6
<1>10. BitmapExact(r) /\ OutsideClean(r, S)
  BY <1>1, <1>5, <1>8 DEF Holds, BitmapExact, OutsideClean
<1>11. LinksAgree(r, S, prio)
  BY <1>1, <1>5, <1>8, <1>9 DEF Holds, LinksAgree
<1>12. Ranked(r, S, rank)
  BY <1>1, <1>5, <1>8, <1>9 DEF Holds, Ranked
<1>13. Tails(r, S, tail)
  BY <1>1, <1>5, <1>8, <1>9 DEF Tails
<1> QED
  BY <1>4, <1>10, <1>11, <1>12, <1>13 DEF Linked, Holds, r

(* Only the priorities of the members matter.                              *)
LEMMA PrioLinked ==
    ASSUME NEW q, NEW S, NEW prio, NEW prio2, Linked(q, S, prio),
           \A u \in S : prio2[u] = prio[u]
    PROVE  Linked(q, S, prio2)
<1>1. PICK rank \in [Threads -> Int], tail \in [Slots -> Ptr] :
        Holds(q, S, prio, rank) /\ Tails(q, S, tail)
  BY DEF Linked
<1>2. LinksAgree(q, S, prio2)
  BY <1>1 DEF Holds, LinksAgree
<1> QED
  BY <1>1, <1>2 DEF Linked, Holds

(* get_head_ss returns a member of the highest priority, if there is one.  *)
LEMMA HeadBest ==
    ASSUME NEW q \in StructType, NEW S \in SUBSET Threads,
           NEW prio \in [Threads -> Nat], Linked(q, S, prio)
    PROVE  /\ S = {} => get_head_ss(q) = NULL
           /\ S # {} => /\ get_head_ss(q) \in S
                        /\ \A u \in S : Level(prio[get_head_ss(q)]) <= Level(prio[u])
<1>1. PICK rank \in [Threads -> Int], tail \in [Slots -> Ptr] :
        Holds(q, S, prio, rank) /\ Tails(q, S, tail)
  BY DEF Linked
<1>2. \A s \in Slots : q.head[s] # NULL => q.head[s] \in S /\ q.pos[q.head[s]] = s
  BY <1>1 DEF Holds, LinksAgree
<1>3. /\ \A i \in Idx : i \in q.fl <=> q.sl[i] # {}
      /\ \A i \in Idx, j \in Idx : j \in q.sl[i] <=> q.head[<<i, j>>] # NULL
  BY <1>1 DEF Holds, BitmapExact
<1>4. q.fl \in SUBSET Idx /\ \A i \in Idx : q.sl[i] \in SUBSET Idx
  BY DEF StructType
<1>5. \A u \in S : /\ q.pos[u] = prio2ij(prio[u])
                   /\ q.head[q.pos[u]] # NULL
  BY <1>1 DEF Holds, LinksAgree, Ranked
<1>6. CASE q.fl = {}
  <2>1. ASSUME NEW u \in S PROVE FALSE
    <3>1. q.pos[u] = <<q.pos[u][1], q.pos[u][2]>> /\ q.pos[u][1] \in Idx /\ q.pos[u][2] \in Idx
      BY <1>5, Place
    <3>2. q.pos[u][2] \in q.sl[q.pos[u][1]]
      BY <1>3, <1>5, <3>1
    <3> QED
      BY <1>3, <1>6, <3>1, <3>2
  <2> QED
    BY <1>6, <2>1 DEF get_head_ss
<1>7. CASE q.fl # {}
  <2> DEFINE i == _ffs(q.fl)
             j == _ffs(q.sl[i])
             h == q.head[<<i, j>>]
  <2>1. i \in q.fl /\ \A y \in q.fl : i <= y
    BY <1>4, <1>7, FirstBit
  <2>2. i \in Idx /\ q.sl[i] # {}
    BY <1>3, <1>4, <2>1
  <2>3. j \in q.sl[i] /\ \A y \in q.sl[i] : j <= y
    BY <1>4, <2>2, FirstBit
  <2>4. j \in Idx
    BY <1>4, <2>2, <2>3
  <2>5. get_head_ss(q) = h
    BY <1>7 DEF get_head_ss
  <2> HIDE DEF i, j
  <2>6. h \in S /\ q.pos[h] = <<i, j>>
    BY <1>2, <1>3, <2>2, <2>3, <2>4, SlotFacts
  <2>7. Level(prio[h]) = (Width * i) + j
    <3>1. prio2ij(prio[h]) = <<i, j>>
      BY <1>5, <2>6
    <3>2. prio2ij(prio[h])[1] = i /\ prio2ij(prio[h])[2] = j
      BY <3>1
    <3>3. prio[h] \in Nat
      BY <2>6
    <3>4. Level(prio[h]) = (Width * prio2ij(prio[h])[1]) + prio2ij(prio[h])[2]
      BY <3>3, Place
    <3> QED
      BY <3>2, <3>4
  <2>8. ASSUME NEW u \in S
        PROVE  Level(prio[h]) <= Level(prio[u])
    <3>1. PICK a \in Idx, b \in Idx : prio2ij(prio[u]) = <<a, b>>
                                      /\ Level(prio[u]) = (Width * a) + b
      <4>1. prio[u] \in Nat
        OBVIOUS
      <4> QED
        BY <4>1, Place
    <3>2. b \in q.sl[a] /\ a \in q.fl
      BY <1>3, <1>5, <3>1
    <3>3. CASE i < a
      <4>1. Width \in Nat /\ i \in Nat /\ a \in Nat /\ b \in Nat /\ j \in 0 .. Width - 1
        BY <2>2, <2>4, WidthAssumption DEF Idx
      <4>2. (Width * i) + j <= (Width * a) + b
        BY <3>3, <4>1, RowFirst
      <4> QED
        BY <2>7, <3>1, <4>2
    <3>4. CASE i = a
      <4>1. j <= b
        BY <2>3, <3>2, <3>4
      <4> QED
        BY <2>7, <2>2, <2>4, <3>1, <3>4, <4>1, WidthAssumption DEF Idx
    <3>5. i <= a
      BY <2>1, <3>2
    <3> QED
      BY <2>2, <3>3, <3>4, <3>5, WidthAssumption DEF Idx
  <2> QED
    BY <2>5, <2>6, <2>8
<1> QED
  BY <1>6, <1>7
=============================================================================
