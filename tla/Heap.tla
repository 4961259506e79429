-------------------------------- MODULE Heap --------------------------------
(***************************************************************************)
(* The heap allocator (src/x86_64/kernel/memory.c) driven by its callers.  *)
(* Each action is one call of the allocator's public API (memory.h) and    *)
(* runs the whole call, as HeapOps defines it, in one step: the kernel is  *)
(* single-threaded and the timer handler never calls into the allocator.   *)
(*                                                                         *)
(* owned maps each pointer a caller holds to the byte count it asked for.  *)
(* Callers free and realloc only pointers they own, free(NULL), and wild   *)
(* pointers (WildPointers) that the allocator must reject.  SpecMisuse     *)
(* adds callers that free a pointer they do not own that lands on a       *)
(* header the allocator wrote (a double free, or a free of a block that a *)
(* merge absorbed): validate_block cannot tell these from a live block.   *)
(***************************************************************************)
EXTENDS HeapOps, Functions

CONSTANTS
    Requests,      \* byte counts passed to malloc and realloc
    CallocArgs,    \* <<num, size>> pairs passed to calloc
    WildPointers,  \* pointers that were never returned by malloc
    MaxCorrupt     \* bound on rejected frees (corrupted_blocks)

VARIABLES heap, owned

vars == <<heap, owned>>

\* A caller now owns pointer p, obtained for a request of n bytes.
Grant(p, n) == IF p = NULL THEN owned ELSE owned @@ (p :> n)

Disown(p) == Restrict(owned, DOMAIN owned \ {p})

Init ==
    /\ heap = HeapBoot
    /\ owned = <<>>

\* kernel_main (kernel.c:37) calls init_memory_manager once, first.
InitMemory ==
    /\ ~heap.init
    /\ heap' = InitMemoryManager(heap)
    /\ UNCHANGED owned

MallocCall(n) ==
    LET r == Malloc(heap, n)
    IN /\ heap' = r[1]
       /\ owned' = Grant(r[2], n)

CallocCall(num, size) ==
    LET r == Calloc(heap, num, size)
    IN /\ heap' = r[1]
       /\ owned' = Grant(r[2], num * size)

FreeCall(p) ==
    /\ heap' = Free(heap, p)
    /\ owned' = Disown(p)

\* A rejected pointer (or NULL): only the corruption counter may move.
FreeWild(p) ==
    /\ heap.stats.corrupted_blocks < MaxCorrupt
    /\ heap' = Free(heap, p)
    /\ UNCHANGED owned

\* A pointer not owned by the caller whose header carries a valid tag.
StalePointers == {a + HDR : a \in {x \in Addr : IsHeader(heap.mem, x)}}
                 \ DOMAIN owned

FreeStale(p) ==
    /\ heap' = Free(heap, p)
    /\ UNCHANGED owned

ReallocCall(p, n) ==
    LET r == Realloc(heap, p, n)
    IN /\ heap' = r[1]
       /\ owned' = IF r[2] = NULL /\ n # 0 /\ p # NULL
                   THEN owned                       \* failed: p still valid
                   ELSE IF r[2] = NULL THEN Disown(p)
                   ELSE (r[2] :> n) @@ Disown(p)

DisplayInfo ==
    /\ heap' = DisplayMemoryInfo(heap)
    /\ UNCHANGED owned

Next ==
    \/ InitMemory
    \/ \E n \in Requests : MallocCall(n)
    \/ \E a \in CallocArgs : CallocCall(a[1], a[2])
    \/ \E p \in DOMAIN owned : FreeCall(p)
    \/ \E p \in WildPointers \cup {NULL} : FreeWild(p)
    \/ \E p \in DOMAIN owned \cup {NULL}, n \in Requests : ReallocCall(p, n)
    \/ DisplayInfo

Spec == Init /\ [][Next]_vars

\* Callers that also free pointers they do not own.
NextMisuse == Next \/ \E p \in StalePointers : FreeStale(p)

SpecMisuse == Init /\ [][NextMisuse]_vars

-----------------------------------------------------------------------------
(* Derived views of the block list. *)

BlockSeq == Blocks(heap)
ListBlocks == ToSet(BlockSeq)
FreeList == {a \in ListBlocks : heap.mem[a].free}
AllocList == ListBlocks \ FreeList
BlockEnd(a) == a + HDR + heap.mem[a].size

(***************************************************************************)
(* The state as far as well-behaved callers can observe it: the headers on *)
(* the list, the statistics and what callers own.  Stale headers left by   *)
(* merges are read only by a free of a pointer the caller does not own,    *)
(* so under Spec this view determines every future step and *)
(* TLC may identify states that agree on it.                               *)
(***************************************************************************)
LiveView == <<heap.init, [a \in ListBlocks |-> heap.mem[a]], heap.stats, owned>>

TypeOK ==
    /\ heap.init \in BOOLEAN
    /\ heap.mem \in [Addr -> Header \cup {Garbage}]
    /\ heap.stats \in Stats
    /\ DOMAIN owned \subseteq {a + HDR : a \in Addr}
    /\ \A p \in DOMAIN owned : owned[p] \in Nat

(***************************************************************************)
(* Spec section 3 and 8: the list of headers from heap_start covers the    *)
(* arena with no gap and no overlap (each block ends where the next one    *)
(* begins, the last one at heap_end, and the list ends there), and every   *)
(* prev link mirrors the next link before it.  split_block and             *)
(* coalesce_blocks relink up to three headers each; this is what they     *)
(* must preserve.                                                          *)
(***************************************************************************)
BlockListTilesArena ==
    heap.init =>
      LET B == BlockSeq IN
      /\ Len(B) > 0
      /\ B[1] = 0
      /\ \A i \in 1..Len(B) :
            /\ heap.mem[B[i]].prev = (IF i = 1 THEN NULL ELSE B[i - 1])
            /\ IF i < Len(B) THEN B[i + 1] = BlockEnd(B[i])
               ELSE /\ BlockEnd(B[i]) = HEAP_SIZE
                    /\ heap.mem[B[i]].next = NULL

(***************************************************************************)
(* Spec section 3: after every call returns, no two neighbouring blocks   *)
(* are both free: free's forward-then-backward coalescing must leave no   *)
(* free neighbour behind, and a split must never leave two free blocks    *)
(* side by side.                                                           *)
(***************************************************************************)
NoAdjacentFreeBlocks ==
    \A i \in 1..(Len(BlockSeq) - 1) :
        ~(heap.mem[BlockSeq[i]].free /\ heap.mem[BlockSeq[i + 1]].free)

(***************************************************************************)
(* The incrementally kept block counts of memory_stats (malloc, free,     *)
(* split_block, coalesce_blocks each adjust them) equal the numbers of     *)
(* free and allocated blocks on the list.                                  *)
(***************************************************************************)
BlockCountsMatchList ==
    heap.init =>
      /\ heap.stats.free_blocks = Cardinality(FreeList)
      /\ heap.stats.allocated_blocks = Cardinality(AllocList)

(***************************************************************************)
(* Ownership is exact: the pointers callers hold are exactly the payloads *)
(* of the allocated blocks on the list, so no block is granted twice, no   *)
(* held block is merged into a free one, and nothing leaks.               *)
(***************************************************************************)
OwnershipExact ==
    DOMAIN owned = {a + HDR : a \in AllocList}

(***************************************************************************)
(* Every pointer malloc, calloc or realloc handed out has at least as many *)
(* payload bytes as the caller asked for (ALIGN_UP rounds up; calloc's     *)
(* product is the caller's count).                                        *)
(***************************************************************************)
GrantCoversRequest ==
    \A p \in DOMAIN owned : heap.mem[p - HDR].size >= owned[p]

(***************************************************************************)
(* The allocator as its callers see it: each held pointer with the bytes  *)
(* of its block and the bytes asked for.                                  *)
(***************************************************************************)
Grants == [p \in DOMAIN owned |-> [len |-> heap.mem[p - HDR].size, req |-> owned[p]]]

Abs == INSTANCE Allocator WITH grants <- Grants

(***************************************************************************)
(* Spec sections 3 and 4: the block-list allocator implements Allocator.  *)
(* Every call the callers make is a step of the abstract allocator: a     *)
(* grant is a fresh payload inside the arena, disjoint from every held    *)
(* one and covering its request; a held payload keeps its place and size  *)
(* until it is freed; realloc takes its new block before it frees the old *)
(* one, so the data it copies never overlaps its destination; a rejected  *)
(* or failed call changes no grant.                                       *)
(***************************************************************************)
ImplementsAllocator == Abs!Spec

(***************************************************************************)
(* Spec 4.1: the free-byte total kept incrementally by malloc and free    *)
(* equals the payload bytes of the free blocks, which is what the scan in *)
(* display_memory_info computes.                                           *)
(***************************************************************************)
FreeBytesMatchList ==
    heap.init =>
      heap.stats.free_memory = MapThenSumSet(LAMBDA a : heap.mem[a].size, FreeList)

=============================================================================
