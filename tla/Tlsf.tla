-------------------------------- MODULE Tlsf --------------------------------
(***************************************************************************)
(* The allocator TLSF (core/libc/tlsf.c) with the allocation functions of  *)
(* the user library on top of it (ulibc/stdlib.c), which hold alloc_mutex  *)
(* throughout: every call is one step.                                     *)
(*                                                                         *)
(* Addresses and sizes are bytes.  Address 0 is that of the first block's  *)
(* header: its prev_hdr, then 4 bytes of size and state, then the buffer.  *)
(* The prev_hdr of a block lies in the buffer of the one before it: it is  *)
(* 0 here while that one is in use.                                        *)
(* A free list is the sequence of its blocks; headers of blocks that were  *)
(* merged into another are dropped.                                        *)
(***************************************************************************)
EXTENDS Integers, Sequences, FiniteSets
LOCAL INSTANCE SequencesExt

CONSTANTS
    PoolSize,       \* mem_pool_size - sizeof (tlsf_t)
    MAX_LOG2_SLI,   \* 5
    FLI_OFFSET,     \* 7
    REAL_FLI,       \* 23: first levels
    Requests,       \* sizes that are asked for
    MaxLive         \* bound: allocations at one time

MAX_SLI        == 2 ^ MAX_LOG2_SLI
SMALL_BLOCK    == 2 ^ FLI_OFFSET
MIN_BLOCK_SIZE == 12
BHDR_OVERHEAD  == 4

ASSUME TlsfAssumption ==
    /\ PoolSize \in Nat /\ PoolSize >= 128 + 2 * BHDR_OVERHEAD
    /\ MAX_LOG2_SLI \in Nat /\ FLI_OFFSET \in Nat /\ MAX_LOG2_SLI + 2 <= FLI_OFFSET
    /\ PoolSize < 2 ^ (REAL_FLI + FLI_OFFSET) /\ Requests \subseteq Nat /\ MaxLive \in Nat

VARIABLES
    pool,       \* h: headers; list: free lists; sb, fl, sl: bitmaps
    live,       \* ptr |-> size, for what the application has allocated
    astray      \* memory at address 0 was written to

hvars == <<pool, live, astray>>

ROUNDUP_SIZE(r) == ((r + 3) \div 4) * 4
ROUNDDOWN_SIZE(r) == (r \div 4) * 4
_fls(x) == CHOOSE k \in 0 .. 31 : 2 ^ k <= x /\ x < 2 ^ (k + 1)
_ffs(S) == IF S = {} THEN -1 ELSE CHOOSE i \in S : \A j \in S : i <= j
GET_NEXT_BLOCK(b, size) == b + size + BHDR_OVERHEAD

FLI_SB(r) == r \div 4
MAPPING_INSERT(r) == <<_fls(r) - FLI_OFFSET, r \div 2 ^ (_fls(r) - MAX_LOG2_SLI) - MAX_SLI>>

(* Slip: the size is not rounded up to the next list.                      *)
MAPPING_SEARCH_Down(r) ==
    LET f == _fls(r)
    IN  [size |-> r,
         at |-> IF f < FLI_OFFSET THEN <<0, 0>>
                ELSE <<f - FLI_OFFSET, r \div 2 ^ (f - MAX_LOG2_SLI) - MAX_SLI>>]

(* The size rounded up to that of a list, and the list.                    *)
MAPPING_SEARCH(r) ==
    LET t == 2 ^ (_fls(r) - MAX_LOG2_SLI) - 1
        f == _fls(r + t)
    IN  [size |-> ((r + t) \div (t + 1)) * (t + 1),
         at |-> IF f < FLI_OFFSET THEN <<0, 0>>
                ELSE <<f - FLI_OFFSET, (r + t) \div 2 ^ (f - MAX_LOG2_SLI) - MAX_SLI>>]

(* The list that a free block of a size is in: <<-1, i>> is sb_array [i].  *)
ListOf(size) == IF size < SMALL_BLOCK THEN <<-1, FLI_SB(size)>> ELSE MAPPING_INSERT(size)
Lists == {<<-1, i>> : i \in 0 .. SMALL_BLOCK \div 4 - 1} \cup ((0 .. REAL_FLI - 1) \X (0 .. MAX_SLI - 1))

(* INSERT_BLOCK and INSERT_SMALL_BLOCK.                                    *)
Insert(p, b, l) ==
    [p EXCEPT !.list[l] = <<b>> \o @,
              !.sb = IF l[1] = -1 THEN @ \cup {l[2]} ELSE @,
              !.sl = IF l[1] = -1 THEN @ ELSE @ \cup {l},
              !.fl = IF l[1] = -1 THEN @ ELSE @ \cup {l[1]}]

(* EXTRACT_BLOCK, EXTRACT_SMALL_BLOCK and, for the head of the list, their *)
(* _HDR forms.                                                             *)
Extract(p, b, l) ==
    LET rest == SelectSeq(p.list[l], LAMBDA c : c # b)
        sl == IF l[1] = -1 \/ rest # <<>> THEN p.sl ELSE p.sl \ {l}
    IN  [p EXCEPT !.list[l] = rest, !.sl = sl,
                  !.sb = IF l[1] = -1 /\ rest = <<>> THEN @ \ {l[2]} ELSE @,
                  !.fl = IF \E i \in 0 .. MAX_SLI - 1 : <<l[1], i>> \in sl \/ l[1] = -1
                         THEN @ ELSE @ \ {l[1]}]

Hdr(size, free, pfree, prev) == [size |-> size, free |-> free, pfree |-> pfree, prev |-> prev]
With(h, b, r) == [a \in DOMAIN h \cup {b} |-> IF a = b THEN r ELSE h[a]]
Drop(h, b) == [a \in DOMAIN h \ {b} |-> h[a]]

init_memory_pool ==
    LET size == ROUNDDOWN_SIZE(PoolSize - 2 * BHDR_OVERHEAD)
        h == [a \in {0, GET_NEXT_BLOCK(0, size)} |->
                 IF a = 0 THEN Hdr(size, TRUE, FALSE, 0) ELSE Hdr(0, FALSE, TRUE, 0)]
    IN  Insert([h |-> h, list |-> [l \in Lists |-> <<>>], sb |-> {}, fl |-> {}, sl |-> {}],
               0, MAPPING_INSERT(size))

-----------------------------------------------------------------------------
FIND_SUITABLE_BLOCK(p, at) ==
    LET here == {i \in at[2] .. MAX_SLI - 1 : <<at[1], i>> \in p.sl}
        fl == _ffs({f \in p.fl : f > at[1]})
        up == {i \in 0 .. MAX_SLI - 1 : <<fl, i>> \in p.sl}
    IN  IF here # {} THEN <<at[1], _ffs(here)>>
        ELSE IF fl > 0 THEN <<fl, _ffs(up)>> ELSE <<>>

(* The list whose head malloc_ex takes, <<>> if there is none, and the     *)
(* size it cuts the block to.                                              *)
Find(p, request) ==
    LET size == IF request < MIN_BLOCK_SIZE THEN MIN_BLOCK_SIZE ELSE ROUNDUP_SIZE(request)
        small == {i \in p.sb : i >= FLI_SB(size)}
        s == IF size < MAX_SLI THEN [size |-> size, at |-> <<0, 0>>] ELSE MAPPING_SEARCH(size)
    IN  IF size < SMALL_BLOCK /\ small # {}
        THEN [size |-> size, l |-> <<-1, _ffs(small)>>]
        ELSE [size |-> s.size, l |-> FIND_SUITABLE_BLOCK(p, s.at)]

(* The block malloc_ex cuts a piece off, and the pool afterwards; only if  *)
(* Find finds a list.                                                      *)
Found(p, request) == Head(p.list[Find(p, request).l])
malloc_ex(p, request) ==
    LET f == Find(p, request)
        b == Found(p, request)
        p1 == Extract(p, b, f.l)
        next == GET_NEXT_BLOCK(b, p.h[b].size)
        tmp == p.h[b].size - f.size - BHDR_OVERHEAD
        b2 == GET_NEXT_BLOCK(b, f.size)
    IN  IF tmp >= MIN_BLOCK_SIZE
        THEN Insert([p1 EXCEPT !.h = With([@ EXCEPT ![next].prev = b2,
                                                    ![b] = Hdr(f.size, FALSE, @.pfree, @.prev)],
                                          b2, Hdr(tmp, TRUE, FALSE, 0))],
                    b2, ListOf(tmp))
        ELSE [p1 EXCEPT !.h[next].pfree = FALSE, !.h[next].prev = 0, !.h[b].free = FALSE]

(* Slip: the next block is not told that this one is free.                 *)
free_ex_Untold(p, b) ==
    LET n == GET_NEXT_BLOCK(b, p.h[b].size)
        p1 == IF ~p.h[n].free THEN p
              ELSE [Extract(p, n, ListOf(p.h[n].size)) EXCEPT
                       !.h = Drop([@ EXCEPT ![b].size = @ + p.h[n].size + BHDR_OVERHEAD], n)]
        q == IF p.h[b].pfree THEN p.h[b].prev ELSE b
        p2 == IF q = b THEN p1
              ELSE [Extract(p1, q, ListOf(p.h[q].size)) EXCEPT
                       !.h = Drop([@ EXCEPT ![q].size = @ + p1.h[b].size + BHDR_OVERHEAD], b)]
    IN  Insert([p2 EXCEPT !.h[q].free = TRUE], q, ListOf(p2.h[q].size))

(* The block is merged with its free neighbours; p.h is as if the call had *)
(* set the state of the block first.                                       *)
free_ex(p, b) ==
    LET n == GET_NEXT_BLOCK(b, p.h[b].size)
        p1 == IF ~p.h[n].free THEN p
              ELSE [Extract(p, n, ListOf(p.h[n].size)) EXCEPT
                       !.h = Drop([@ EXCEPT ![b].size = @ + p.h[n].size + BHDR_OVERHEAD], n)]
        q == IF p.h[b].pfree THEN p.h[b].prev ELSE b
        p2 == IF q = b THEN p1
              ELSE [Extract(p1, q, ListOf(p.h[q].size)) EXCEPT
                       !.h = Drop([@ EXCEPT ![q].size = @ + p1.h[b].size + BHDR_OVERHEAD], b)]
        last == GET_NEXT_BLOCK(q, p2.h[q].size)
    IN  Insert([p2 EXCEPT !.h[q].free = TRUE, !.h[last].pfree = TRUE, !.h[last].prev = q],
               q, ListOf(p2.h[q].size))

-----------------------------------------------------------------------------
HInit == pool = init_memory_pool /\ live = <<>> /\ astray = FALSE

Fits(p, n) == Find(p, n).l # <<>>

(* malloc and calloc of the user library.                                  *)
malloc(request) ==
    LET n == IF request = 0 THEN 32 ELSE request
    IN  /\ Cardinality(DOMAIN live) < MaxLive /\ Fits(pool, n)    \* else NULL
        /\ pool' = malloc_ex(pool, n)
        /\ live' = With(live, Found(pool, n), n) /\ UNCHANGED astray

free(b) ==
    /\ b \in DOMAIN live
    /\ pool' = free_ex(pool, b) /\ live' = Drop(live, b) /\ UNCHANGED astray

(* The old block is copied to address 0 if there is no new one: the        *)
(* application does not come back from that.                               *)
realloc(b, request) ==
    \/ request = 0 /\ free(b)
    \/ /\ b \in DOMAIN live /\ request # 0 /\ Fits(pool, request)
       /\ pool' = free_ex(malloc_ex(pool, request), b)
       /\ live' = With(Drop(live, b), Found(pool, request), request) /\ UNCHANGED astray
    \/ /\ b \in DOMAIN live /\ request # 0 /\ ~Fits(pool, request)
       /\ astray' = TRUE /\ UNCHANGED <<pool, live>>

HNext ==
    /\ ~astray
    /\ \/ \E n \in Requests : malloc(n)
       \/ \E b \in DOMAIN live : free(b) \/ \E n \in Requests : realloc(b, n)

HSpec == HInit /\ [][HNext]_hvars
-----------------------------------------------------------------------------
Blocks == DOMAIN pool.h
Sentinel == CHOOSE b \in Blocks : \A c \in Blocks : c <= b

(* The blocks tile the pool; neighbours are never both free, and a block   *)
(* knows whether the one before it is free, and where it begins; every     *)
(* free block is in the list of its size and nothing else is in any list;  *)
(* the bitmaps say which lists have blocks.                                *)
TlsfSound ==
    /\ \A b \in Blocks \ {Sentinel} :
           LET n == GET_NEXT_BLOCK(b, pool.h[b].size)
           IN  /\ n \in Blocks /\ \A c \in Blocks : ~(b < c /\ c < n)
               /\ pool.h[n].pfree = pool.h[b].free
               /\ pool.h[b].free => ~pool.h[n].free /\ pool.h[n].prev = b
    /\ \A b \in Blocks : pool.h[b].free => b \in ToSet(pool.list[ListOf(pool.h[b].size)])
    /\ \A l \in Lists :
           IF pool.list[l] = <<>>
           THEN IF l[1] = -1 THEN l[2] \notin pool.sb ELSE l \notin pool.sl
           ELSE /\ \A b \in ToSet(pool.list[l]) :
                       b \in Blocks /\ pool.h[b].free /\ ListOf(pool.h[b].size) = l
                /\ IsInjective(pool.list[l])
                /\ IF l[1] = -1 THEN l[2] \in pool.sb ELSE l \in pool.sl /\ l[1] \in pool.fl
    /\ \A f \in pool.fl : \E i \in 0 .. MAX_SLI - 1 : <<f, i>> \in pool.sl

(* What was allocated is a block in use of at least the size asked for; so *)
(* with TlsfSound no two allocations share a byte.  A request is refused   *)
(* only if no free block is as long as the request rounded up to a list.   *)
AllocationsKept ==
    /\ DOMAIN live = {b \in Blocks \ {Sentinel} : ~pool.h[b].free}
    /\ \A b \in DOMAIN live : pool.h[b].size >= live[b]
    /\ \A n \in Requests \ {0} :
           IF Fits(pool, n) THEN pool.h[Found(pool, n)].size >= n
           ELSE \A b \in Blocks : pool.h[b].free => pool.h[b].size < Find(pool, n).size
=============================================================================
