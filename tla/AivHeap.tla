------------------------------ MODULE AivHeap ------------------------------
(***************************************************************************)
(* The low fragmentation allocator of src/heap/src/AivHeap.c, as operators *)
(* on an arena: one region of memory cut into blocks, each a header, the   *)
(* payload and a footer, with the free ones chained in a list.  A block is *)
(* named by the offset of its header; a footer always repeats the size in  *)
(* its header, so the block to the left is the one that ends at an offset. *)
(* Sizes are scaled down: they are multiples of a small unit.              *)
(***************************************************************************)
EXTENDS Integers, Sequences, SequencesExt

CONSTANTS
    Header, Footer,  \* AIV_ALLOCATION_HEADER_SIZE, AIV_ALLOCATION_FOOTER_SIZE
    MinFree,         \* MIN_FREE_ALLOCATION_SIZE
    Alignment        \* what HEAP_PACKED_SIZE rounds up to

ASSUME BlockAssumption ==
    /\ Header \in Nat \ {0} /\ Footer \in Nat \ {0}
    /\ MinFree \in Nat \ {0} /\ Alignment \in Nat \ {0}
    \* 16 and 8: what is left of a block that may be split is never empty
    /\ Alignment <= MinFree + 1

NoBlock == -1    \* a NULL header
MinFreeBlock == Header + MinFree + Footer

\* HEAP_PACKED_SIZE
Packed(size) == ((size + Alignment - 1) \div Alignment) * Alignment

\* AIV_ALLOCATION_HEADER without its links; an allocated block has the
\* caller's size in alloc
Block(size, alloc, free) == [size |-> size, alloc |-> alloc, free |-> free]

\* aivHeapInit: one free block fills the region
NewArena(limit) ==
    [blocks |-> [o \in {0} |-> Block(limit - Header - Footer, 0, TRUE)],
     chain |-> <<0>>]

Offsets(a) == DOMAIN a.blocks
FreeIn(a) == {o \in Offsets(a) : a.blocks[o].free}
EndOf(a, o) == o + Header + a.blocks[o].size + Footer

\* getLeftBlock, getRightBlock
LeftOf(a, o) == {l \in Offsets(a) : EndOf(a, l) = o}
RightOf(a, o) == {r \in Offsets(a) : r = EndOf(a, o)}

Put(blocks, o, b) == [p \in DOMAIN blocks \cup {o} |-> IF p = o THEN b ELSE blocks[p]]
Drop(blocks, o) == [p \in DOMAIN blocks \ {o} |-> blocks[p]]

\* removeChainedBlock
Unchain(chain, o) == RemoveAt(chain, CHOOSE i \in DOMAIN chain : chain[i] = o)

-----------------------------------------------------------------------------
(* getFreeBlock: the first block of the chain that fits *)
GetFreeBlock(a, size) ==
    LET fits == {i \in DOMAIN a.chain : a.blocks[a.chain[i]].size >= Packed(size)}
    IN  IF fits = {} THEN NoBlock ELSE a.chain[Min(fits)]

\* Mutant: the remainder gets no room for a header
TakesWholeTight(a, o, size) == a.blocks[o].size < Packed(size)

\* the remainder of a free block is too small to stand on its own
TakesWhole(a, o, size) == a.blocks[o].size < Packed(size) + MinFreeBlock

(* splitFreeBlock and addAllocatedBlock: the remainder takes the block's   *)
(* place in the chain.                                                     *)
SplitFreeBlock(a, o, size) ==
    LET b == a.blocks[o]
        n == o + Header + Packed(size) + Footer
    IN  IF TakesWhole(a, o, size)
        THEN [blocks |-> Put(a.blocks, o, Block(b.size, size, FALSE)),
              chain |-> Unchain(a.chain, o)]
        ELSE [blocks |-> Put(Put(a.blocks, o, Block(Packed(size), size, FALSE)),
                             n, Block(b.size - Packed(size) - Header - Footer, 0, TRUE)),
              chain |-> ReplaceAll(a.chain, o, n)]

\* what heapSize is corrected by when the whole block is taken
SplitExcess(a, o, size) ==
    IF TakesWhole(a, o, size) THEN a.blocks[o].size - Packed(size) ELSE 0

\* the right block r becomes part of the block l
Merge(a, l, r) ==
    LET joined == [a.blocks[l] EXCEPT !.size = @ + a.blocks[r].size + Header + Footer]
    IN  [a EXCEPT !.blocks = Drop(Put(@, l, joined), r)]

\* Mutant: only the left neighbour is looked at
AddFreeBlockLeftOnly(a, o) ==
    LET left == {l \in LeftOf(a, o) : a.blocks[l].free}
        freed == [a EXCEPT !.blocks[o] = Block(@.size, 0, TRUE), !.chain = Cons(o, @)]
    IN  IF left = {} THEN freed
        ELSE Merge(a, CHOOSE l \in left : TRUE, o)

(* addFreeBlock of a block on no list: the first free block is just        *)
(* chained; otherwise free neighbours are absorbed, the left one first,    *)
(* and the block is chained at the front unless it joined the left one.    *)
AddFreeBlock(a, o) ==
    LET left == {l \in LeftOf(a, o) : a.blocks[l].free}
        base == IF left = {} THEN o ELSE CHOOSE l \in left : TRUE
        joined == IF left = {} THEN a ELSE Merge(a, base, o)
        right == {r \in RightOf(joined, base) : joined.blocks[r].free}
        r == CHOOSE r \in right : TRUE
        merged == IF right = {} THEN joined
                  ELSE [Merge(joined, base, r) EXCEPT !.chain = Unchain(@, r)]
    IN  IF a.chain = <<>>
        THEN [a EXCEPT !.blocks[o] = Block(@.size, 0, TRUE), !.chain = <<o>>]
        ELSE IF left # {} THEN merged
        ELSE [merged EXCEPT !.blocks[o] = Block(@.size, 0, TRUE), !.chain = Cons(o, @)]

\* removeChainedBlock and addFreeBlock of aivHeapFree
FreeBlock(a, o) == AddFreeBlock([a EXCEPT !.blocks[o].alloc = 0], o)

\* splitAllocatedBlock: the remainder becomes a free block
SplitAllocatedBlock(a, o, size) ==
    LET n == o + Header + Packed(size) + Footer
    IN  AddFreeBlock(
            [a EXCEPT !.blocks =
                Put(Put(@, o, Block(Packed(size), size, FALSE)),
                    n, Block(a.blocks[o].size - Packed(size) - Header - Footer, 0, FALSE))],
            n)

(* coalesceFreeToAllocatedBlock: the free block f to the right is taken    *)
(* whole, or its first part is and the rest keeps its place in the chain.  *)
CoalesceFreeToAllocated(a, o, f, diff) ==
    LET b == a.blocks[o]
        free == a.blocks[f].size
        n == f + Packed(diff)
    IN  IF free < Packed(diff) + MinFree
        THEN [Merge([a EXCEPT !.blocks[o].alloc = b.alloc + diff], o, f) EXCEPT
                !.chain = Unchain(@, f)]
        ELSE [blocks |-> Put(Put(Drop(a.blocks, f), o, Block(b.size + Packed(diff), b.alloc + diff, FALSE)),
                             n, Block(free - Packed(diff), 0, TRUE)),
              chain |-> ReplaceAll(a.chain, f, n)]

-----------------------------------------------------------------------------
(* What aivHeapDebugCheckAllocator looks for: the blocks fill the region   *)
(* without a gap or an overlap, no two free blocks touch, and the chain    *)
(* lists every free block once.                                            *)
WellFormedArena(a, limit) ==
    /\ 0 \in Offsets(a)
    /\ \A o \in Offsets(a) :
          /\ a.blocks[o].size > 0
          /\ EndOf(a, o) = limit \/ EndOf(a, o) \in Offsets(a)
          /\ o = 0 \/ LeftOf(a, o) # {}
          /\ \A p \in Offsets(a) : o < p => EndOf(a, o) <= p
          /\ a.blocks[o].free => \A r \in RightOf(a, o) : ~a.blocks[r].free
    /\ ToSet(a.chain) = FreeIn(a)
    /\ IsInjective(a.chain)
=============================================================================
