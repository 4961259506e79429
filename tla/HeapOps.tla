------------------------------- MODULE HeapOps -------------------------------
(***************************************************************************)
(* The heap allocator of src/x86_64/kernel/memory.c, written as pure       *)
(* operators on the allocator's whole state, so that a module that calls   *)
(* malloc or free inside one of its own steps (the process table, the      *)
(* allocator's clients) composes the call into that step.                 *)
(*                                                                         *)
(* The allocator state is a record h:                                      *)
(*   h.init   memory_initialized                                           *)
(*   h.mem    the arena, one entry per 8-byte aligned offset from          *)
(*            heap_start: either a block header the allocator wrote there  *)
(*            (size, is_free, next, prev) or Garbage (memory that never    *)
(*            held a header, so its magic word is neither tag).  A header  *)
(*            that a merge absorbed stays in memory, stale, exactly as in  *)
(*            the code: nothing ever clears it.                            *)
(*   h.stats  memory_stats (total_memory is the constant HEAP_SIZE)        *)
(* The magic word is not a separate field: every store of is_free in the   *)
(* code is paired with the store of the matching tag, so a written header  *)
(* carries a valid tag and Garbage carries neither.                        *)
(*                                                                         *)
(* Pointers are byte offsets from heap_start; NULL is -1 because offset 0  *)
(* is heap_start itself, a valid header address.                           *)
(***************************************************************************)
EXTENDS Integers, SequencesExt, FiniteSetsExt

CONSTANTS
    HEAP_SIZE,   \* bytes in the arena (memory.c:13, scaled down)
    HDR,         \* sizeof(memory_block_t): 32 bytes on x86_64
    SIZE_BITS,   \* width of size_t, scaled down with the arena
    Garbage      \* contents of memory that never held a header

ASSUME HEAP_SIZE % 8 = 0 /\ HDR % 8 = 0 /\ HEAP_SIZE > HDR
ASSUME 2^SIZE_BITS > HEAP_SIZE

NULL == -1

\* The 8-byte aligned offsets of the arena; every header lies on one.
Addr == {a \in 0..(HEAP_SIZE - 1) : a % 8 = 0}

Header == [size : 0..HEAP_SIZE, free : BOOLEAN,
           next : Addr \cup {NULL}, prev : Addr \cup {NULL}]

Stats == [used_memory : Int, free_memory : Int, allocated_blocks : Int,
          free_blocks : Int, corrupted_blocks : Int]

(***************************************************************************)
(* ALIGN_UP(size, 8) of kernel.h:231, evaluated in size_t: the addition    *)
(* wraps modulo 2^SIZE_BITS before the low three bits are cleared.         *)
(***************************************************************************)
AlignDown8(n) == LET x == n % (2^SIZE_BITS) IN x - (x % 8)
AlignNoMask(n) == (n + 7) % (2^SIZE_BITS)
AlignUp(n) == LET x == (n + 7) % (2^SIZE_BITS) IN x - (x % 8)

\* Memory and statistics before init_memory_manager: static storage, zeroed.
HeapBoot ==
    [init  |-> FALSE,
     mem   |-> [a \in Addr |-> Garbage],
     stats |-> [used_memory |-> 0, free_memory |-> 0, allocated_blocks |-> 0,
                free_blocks |-> 0, corrupted_blocks |-> 0]]

\* init_memory_manager: the arena becomes one free block.
InitMemoryManager(h) ==
    [init  |-> TRUE,
     mem   |-> [h.mem EXCEPT ![0] = [size |-> HEAP_SIZE - HDR, free |-> TRUE,
                                     next |-> NULL, prev |-> NULL]],
     stats |-> [used_memory |-> HDR, free_memory |-> HEAP_SIZE - HDR,
                allocated_blocks |-> 0, free_blocks |-> 1,
                corrupted_blocks |-> 0]]

\* A header the list may follow (a read of Garbage is never taken).
IsHeader(m, a) == a \in DOMAIN m /\ m[a] # Garbage
IsFreeAt(m, a) == a # NULL /\ IsHeader(m, a) /\ m[a].free

(***************************************************************************)
(* The block list in address order: the chain of next links from          *)
(* heap_start, cut at Cardinality(Addr) links so that a cyclic list gives  *)
(* a finite (and then ill-formed) sequence.                                *)
(***************************************************************************)
RECURSIVE Chain(_, _, _)
Chain(m, a, k) ==
    IF a = NULL \/ k = 0 \/ ~IsHeader(m, a) THEN <<>>
    ELSE <<a>> \o Chain(m, m[a].next, k - 1)

Blocks(h) == IF h.init THEN Chain(h.mem, 0, Cardinality(Addr)) ELSE <<>>

\* find_free_block: first fit in address order while current < heap_end.
FindFreeBlock(h, s) ==
    LET B == Blocks(h)
        i == SelectInSeq(B, LAMBDA a : a < HEAP_SIZE /\ h.mem[a].free
                                        /\ h.mem[a].size >= s)
    IN IF i = 0 THEN NULL ELSE B[i]

\* split_block without the fix-up of the following block's prev link
\* (faulty variant for mutation checks).
SplitNoPrevFix(h, b, s) ==
    LET blk == h.mem[b]
        nb  == b + HDR + s
    IN IF blk.size <= s + HDR THEN h
       ELSE [h EXCEPT
               !.mem = [@ EXCEPT ![nb] = [size |-> blk.size - s - HDR,
                                          free |-> TRUE, next |-> blk.next,
                                          prev |-> b],
                                 ![b].size = s, ![b].next = nb],
               !.stats.free_blocks = @ + 1]

\* split_block without counting the new free block (faulty variant).
SplitNoCount(h, b, s) ==
    LET blk == h.mem[b]
        nb  == b + HDR + s
        m1  == [h.mem EXCEPT ![nb] = [size |-> blk.size - s - HDR,
                                      free |-> TRUE, next |-> blk.next,
                                      prev |-> b],
                             ![b].size = s, ![b].next = nb]
    IN IF blk.size <= s + HDR THEN h
       ELSE [h EXCEPT !.mem = IF blk.next # NULL
                              THEN [m1 EXCEPT ![blk.next].prev = nb] ELSE m1]

(***************************************************************************)
(* split_block: the front keeps exactly s bytes, a new free header is     *)
(* written right after it for the rest and linked in address order.       *)
(***************************************************************************)
SplitBlock(h, b, s) ==
    LET blk == h.mem[b]
        nb  == b + HDR + s
        m1  == [h.mem EXCEPT ![nb] = [size |-> blk.size - s - HDR,
                                      free |-> TRUE, next |-> blk.next,
                                      prev |-> b],
                             ![b].size = s, ![b].next = nb]
    IN IF blk.size <= s + HDR THEN h
       ELSE [h EXCEPT !.mem = IF blk.next # NULL
                              THEN [m1 EXCEPT ![blk.next].prev = nb] ELSE m1,
                      !.stats.free_blocks = @ + 1]

(***************************************************************************)
(* malloc: returns <<new state, pointer>>; the pointer is NULL before     *)
(* init, for a zero request and when no free block is large enough (the   *)
(* state is then unchanged).                                              *)
(***************************************************************************)
Malloc(h, n) ==
    IF ~h.init \/ n = 0 THEN <<h, NULL>>
    ELSE LET s == AlignUp(n)
             b == FindFreeBlock(h, s)
         IN IF b = NULL THEN <<h, NULL>>
            ELSE LET h1 == IF h.mem[b].size > s + HDR + 8
                           THEN SplitBlock(h, b, s) ELSE h
                     sz == h1.mem[b].size
                 IN <<[h1 EXCEPT !.mem[b].free = FALSE,
                                 !.stats.used_memory = @ + sz,
                                 !.stats.free_memory = @ - sz,
                                 !.stats.allocated_blocks = @ + 1,
                                 !.stats.free_blocks = @ - 1],
                      b + HDR>>

\* validate_block: inside [heap_start, heap_end) and carrying either tag.
ValidateBlock(h, b) == b >= 0 /\ b < HEAP_SIZE /\ IsHeader(h.mem, b)

\* coalesce_blocks that absorbs the next block whether or not it is free
\* (faulty variant for mutation checks).
CoalesceAnyNext(h, b) ==
    LET m0  == h.mem
        nx  == m0[b].next
        fwd == nx # NULL /\ IsHeader(m0, nx)
        m1  == IF ~fwd THEN m0
               ELSE LET nn == m0[nx].next
                        ma == [m0 EXCEPT ![b].size = @ + m0[nx].size + HDR,
                                         ![b].next = nn]
                    IN IF nn # NULL THEN [ma EXCEPT ![nn].prev = b] ELSE ma
        pv  == m1[b].prev
        bwd == IsFreeAt(m1, pv)
        bn  == m1[b].next
        m2  == IF ~bwd THEN m1
               ELSE LET mb == [m1 EXCEPT ![pv].size = @ + m1[b].size + HDR,
                                         ![pv].next = bn]
                    IN IF bn # NULL THEN [mb EXCEPT ![bn].prev = pv] ELSE mb
    IN IF ~m0[b].free THEN h
       ELSE [h EXCEPT !.mem = m2,
                      !.stats.free_blocks = @ - (IF fwd THEN 1 ELSE 0)
                                              - (IF bwd THEN 1 ELSE 0)]

\* coalesce_blocks with the forward merge only (faulty variant).
CoalesceForwardOnly(h, b) ==
    LET m0  == h.mem
        nx  == m0[b].next
        fwd == IsFreeAt(m0, nx)
        nn  == IF fwd THEN m0[nx].next ELSE NULL
        ma  == [m0 EXCEPT ![b].size = @ + (IF fwd THEN m0[nx].size + HDR ELSE 0),
                          ![b].next = IF fwd THEN nn ELSE @]
    IN IF ~m0[b].free THEN h
       ELSE [h EXCEPT !.mem = IF fwd /\ nn # NULL THEN [ma EXCEPT ![nn].prev = b]
                              ELSE ma,
                      !.stats.free_blocks = @ - (IF fwd THEN 1 ELSE 0)]

(***************************************************************************)
(* coalesce_blocks: first absorb the next block if it is free, then, with  *)
(* the block as updated, let a free previous block absorb it.              *)
(***************************************************************************)
Coalesce(h, b) ==
    LET m0  == h.mem
        nx  == m0[b].next
        fwd == IsFreeAt(m0, nx)
        m1  == IF ~fwd THEN m0
               ELSE LET nn == m0[nx].next
                        ma == [m0 EXCEPT ![b].size = @ + m0[nx].size + HDR,
                                         ![b].next = nn]
                    IN IF nn # NULL THEN [ma EXCEPT ![nn].prev = b] ELSE ma
        pv  == m1[b].prev
        bwd == IsFreeAt(m1, pv)
        bn  == m1[b].next
        m2  == IF ~bwd THEN m1
               ELSE LET mb == [m1 EXCEPT ![pv].size = @ + m1[b].size + HDR,
                                         ![pv].next = bn]
                    IN IF bn # NULL THEN [mb EXCEPT ![bn].prev = pv] ELSE mb
    IN IF ~m0[b].free THEN h
       ELSE [h EXCEPT !.mem = m2,
                      !.stats.free_blocks = @ - (IF fwd THEN 1 ELSE 0)
                                              - (IF bwd THEN 1 ELSE 0)]

(***************************************************************************)
(* free: a pointer whose header fails validation only bumps the           *)
(* corruption counter; otherwise the block is marked free, the statistics *)
(* move its size across, and it is coalesced.                             *)
(***************************************************************************)
Free(h, p) ==
    IF p = NULL \/ ~h.init THEN h
    ELSE LET b == p - HDR
         IN IF ~ValidateBlock(h, b)
            THEN [h EXCEPT !.stats.corrupted_blocks = @ + 1]
            ELSE LET sz == h.mem[b].size
                 IN Coalesce([h EXCEPT !.mem[b].free = TRUE,
                                       !.stats.used_memory = @ - sz,
                                       !.stats.free_memory = @ + sz,
                                       !.stats.allocated_blocks = @ - 1,
                                       !.stats.free_blocks = @ + 1], b)

\* calloc: the product is computed in size_t, with no overflow check.
Calloc(h, num, size) == Malloc(h, (num * size) % (2^SIZE_BITS))

(***************************************************************************)
(* realloc: returns <<new state, pointer>>.  A request that fits the      *)
(* block's capacity returns the same pointer; otherwise a new block is    *)
(* taken, the data copied (abstracted away) and the old block freed; if   *)
(* malloc fails the old block is untouched.                               *)
(***************************************************************************)
\* A realloc that frees the old block before it takes the new one.
ReallocFreeFirst(h, p, n) ==
    IF p = NULL THEN Malloc(h, n)
    ELSE IF n = 0 THEN <<Free(h, p), NULL>>
    ELSE LET b == p - HDR
         IN IF ~ValidateBlock(h, b) THEN <<h, NULL>>
            ELSE IF n <= h.mem[b].size THEN <<h, p>>
            ELSE Malloc(Free(h, p), n)

Realloc(h, p, n) ==
    IF p = NULL THEN Malloc(h, n)
    ELSE IF n = 0 THEN <<Free(h, p), NULL>>
    ELSE LET b == p - HDR
         IN IF ~ValidateBlock(h, b) THEN <<h, NULL>>
            ELSE IF n <= h.mem[b].size THEN <<h, p>>
            ELSE LET r == Malloc(h, n)
                 IN IF r[2] = NULL THEN <<h, NULL>>
                    ELSE <<Free(r[1], p), r[2]>>

(***************************************************************************)
(* display_memory_info: recompute the block counts and byte totals by     *)
(* walking the list, counting only blocks that pass validation.           *)
(***************************************************************************)
DisplayMemoryInfo(h) ==
    IF ~h.init THEN h
    ELSE LET B   == {a \in ToSet(Blocks(h)) : a < HEAP_SIZE /\ ValidateBlock(h, a)}
             FB  == {a \in B : h.mem[a].free}
             AB  == B \ FB
             Sz(a) == h.mem[a].size
         IN [h EXCEPT !.stats.free_blocks = Cardinality(FB),
                      !.stats.allocated_blocks = Cardinality(AB),
                      !.stats.free_memory = MapThenSumSet(Sz, FB),
                      !.stats.used_memory = MapThenSumSet(Sz, AB)]

=============================================================================
