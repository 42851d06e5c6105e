------------------------------- MODULE SysMem -------------------------------
(***************************************************************************)
(* System memory (common/l4_sysmem.c): one range of memory from which the  *)
(* kernel takes the pool of its allocator, once, and applications take     *)
(* regions with ualloc.  Addresses are bytes from the start of the range,  *)
(* which is that of a page.  ualloc_sys hands out and clears whole pages   *)
(* of UserSize bytes, from the start of the page its block begins in.      *)
(*                                                                         *)
(* ufree_sys is left out: no code of the repository calls it, and what it  *)
(* takes for the header of the region is memory of the one before.         *)
(***************************************************************************)
EXTENDS Integers, FiniteSets

CONSTANTS
    SYSTEM_MEMORY_SIZE, CONFIG_KDYNAMIC_MEMORY,
    UserSize,       \* VCPU_VMM_SIZE
    L4_PAGESIZE

HEADER_SIZE == 12
MIN_SIZE    == 12

ASSUME SysMemAssumption ==
    /\ L4_PAGESIZE \in Nat /\ L4_PAGESIZE >= HEADER_SIZE
    /\ \A n \in {SYSTEM_MEMORY_SIZE, CONFIG_KDYNAMIC_MEMORY, UserSize} :
           n \in Nat \ {0} /\ n % L4_PAGESIZE = 0
    /\ CONFIG_KDYNAMIC_MEMORY + HEADER_SIZE < SYSTEM_MEMORY_SIZE

VARIABLES
    blocks,     \* addr |-> [size, used, prev, next]: the headers
    head,       \* list.head, -1 for NULL
    memory_pool,
    regions,    \* what ualloc_sys returned
    wiped       \* memory at address 0 was cleared

yvars == <<blocks, head, memory_pool, regions, wiped>>

NIL == -1
NewBlock(size) == [size |-> size, used |-> FALSE, prev |-> NIL, next |-> NIL, free |-> NIL]

init_vmm == [a \in {0} |-> NewBlock(SYSTEM_MEMORY_SIZE - HEADER_SIZE)]

(* The free list from h on: NIL or the first block that is large enough.   *)
FirstFit(bs, h, size) ==
    LET at[i \in 0 .. Cardinality(DOMAIN bs)] ==
            IF i = 0 THEN h
            ELSE IF at[i - 1] = NIL \/ bs[at[i - 1]].size >= size THEN at[i - 1]
            ELSE bs[at[i - 1]].free
    IN  at[Cardinality(DOMAIN bs)]

Unlink(bs, h, b) ==
    [a \in DOMAIN bs |-> IF bs[a].free = b /\ ~bs[a].used
                         THEN [bs[a] EXCEPT !.free = bs[b].free] ELSE bs[a]]

(* A piece is cut off the block; next_phys of the block is set before that *)
(* of the new one is copied from it, so that both links of the new block   *)
(* point to itself.                                                        *)
alloc_region(bs, h, asked) ==
    LET size == IF asked < MIN_SIZE THEN MIN_SIZE ELSE asked
        b == FirstFit(bs, h, size)
        h1 == IF h = b THEN bs[b].free ELSE h
        rest == bs[b].size - size - HEADER_SIZE
        new == b + HEADER_SIZE + size
        bs1 == [Unlink(bs, h, b) EXCEPT ![b] = [@ EXCEPT !.used = TRUE, !.free = NIL]]
    IN  [ptr |-> IF b = NIL THEN NIL ELSE b + HEADER_SIZE,
         head |-> IF b = NIL THEN h ELSE IF rest >= MIN_SIZE THEN new ELSE h1,
         blocks |-> IF b = NIL THEN bs ELSE IF rest < MIN_SIZE THEN bs1
                    ELSE [a \in DOMAIN bs \cup {new} |->
                             IF a = new THEN [size |-> rest, used |-> FALSE, prev |-> new,
                                              next |-> new, free |-> h1]
                             ELSE IF a = b THEN [bs1[b] EXCEPT !.size = size, !.next = new]
                             ELSE bs1[a]]]

(* init_sysmem: the kernel's pool.                                         *)
YInit ==
    LET r == alloc_region(init_vmm, 0, CONFIG_KDYNAMIC_MEMORY)
    IN  /\ blocks = r.blocks /\ head = r.head
        /\ memory_pool = r.ptr /\ regions = {} /\ wiped = FALSE

(* Slip: the next page instead of the one the address is in.               *)
l4_trunc_page_Up(a) == a + (L4_PAGESIZE - 1 - ((a - 1) % L4_PAGESIZE))

l4_trunc_page(a) == a - (a % L4_PAGESIZE)

(* memset clears the headers in the pages it is given, that of the block   *)
(* itself included.                                                        *)
Cleared(bs, lo, n) ==
    [a \in DOMAIN bs |->
        IF lo <= a /\ a < lo + n THEN [NewBlock(0) EXCEPT !.prev = 0, !.next = 0, !.free = 0] ELSE bs[a]]

(* Without a block that is large enough it clears memory at address 0,     *)
(* and the kernel does not come back from that.                            *)
ualloc_sys ==
    LET r == alloc_region(blocks, head, UserSize)
        base == l4_trunc_page(r.ptr)
    IN  /\ ~wiped
        /\ \/ /\ r.ptr # NIL
              /\ blocks' = Cleared(r.blocks, base, UserSize) /\ head' = r.head
              /\ regions' = regions \cup {base}
              /\ UNCHANGED <<memory_pool, wiped>>
           \/ /\ r.ptr = NIL /\ wiped' = TRUE
              /\ UNCHANGED <<blocks, head, memory_pool, regions>>

YSpec == YInit /\ [][ualloc_sys]_yvars
-----------------------------------------------------------------------------
(* The pages given to applications are inside the memory, disjoint, and    *)
(* none of them is cut from the kernel's pool but its last HEADER_SIZE     *)
(* bytes; and every ualloc adds one region.                                *)
RegionsDisjoint ==
    /\ \A r \in regions : /\ r + UserSize <= SYSTEM_MEMORY_SIZE
                          /\ r >= memory_pool + CONFIG_KDYNAMIC_MEMORY - HEADER_SIZE
                          /\ head = NIL \/ head >= r + UserSize
    /\ \A r, s \in regions : r < s => r + UserSize <= s
    /\ Cardinality(DOMAIN blocks) = Cardinality(regions) + IF head = NIL THEN 1 ELSE 2
=============================================================================
