------------------------------- MODULE Allocators -------------------------------
(***************************************************************************)
(* The global allocator hooks and the two layers that replace them: the    *)
(* instrumented allocators, which count bytes, and the content store of a  *)
(* client, which takes them from its heap.                                 *)
(***************************************************************************)
EXTENDS Integers, Sequences, FiniteSetsExt

CONSTANTS Blocks,       \* identities of the application's allocations
          Sizes,        \* sizes asked for
          MaxStoreTotal,    \* bound on the total of the content store
          Careless      \* misuse and failures explored: "reset" below the content store, "create" that fails,
                      \* "order": a client freed below the instrumented allocators

ASSUME AllocAssumption == Sizes \subseteq Nat \ {0} /\ Careless \subseteq {"reset", "create", "order"}

VARIABLES hooks,        \* globalMemAlloc (with its align and calloc), globalMemRealloc, globalMemFree
          stored,       \* what the instrumented allocators replaced, NotStored when not set
          store,        \* gKinesisVideoClient: whether there is one, whether its heap lives, what it replaced, its total
          total,        \* gInstrumentedAllocatorsTotalAllocationSize
          blocks        \* live allocations: size, and the layers each one went through

allocVars == <<hooks, stored, store, total, blocks>>

HookSet == [alloc : {"base", "instrumented", "content"}, realloc : {"base", "instrumented"}, free : {"base", "instrumented", "content"}]
Base == [alloc |-> "base", realloc |-> "base", free |-> "base"]
NotStored == [alloc |-> "none", realloc |-> "none", free |-> "none"]
NoStore == [set |-> FALSE, heap |-> FALSE, replaced |-> NotStored, total |-> 0]
Instrumented == [alloc |-> "instrumented", realloc |-> "instrumented", free |-> "instrumented"]

\* The layers that a call of hook h goes through; of says which stored pointer is followed.
Through(h, of) ==
    IF h # "instrumented" THEN <<h>>
    ELSE <<h>> \o (IF stored[of] = "instrumented" THEN << >> ELSE <<stored[of]>>)
Counted(made) == made[1] = "instrumented"
InStore(made) == made[Len(made)] = "content"

AllocInit == hooks = Base /\ stored = NotStored /\ store = NoStore /\ total = 0 /\ blocks = << >>

-----------------------------------------------------------------------------
(* InstrumentedAllocators.c *)

setInstrumentedAllocators ==
    /\ stored = NotStored
    /\ stored' = hooks /\ hooks' = Instrumented
    /\ UNCHANGED <<store, total, blocks>>

\* A refused reset forgets the total as well.
resetInstrumentedAllocators ==
    /\ stored # NotStored
    /\ hooks = Instrumented \/ "reset" \in Careless
    /\ IF hooks = Instrumented THEN hooks' = stored /\ stored' = NotStored ELSE UNCHANGED <<hooks, stored>>
    /\ total' = 0
    /\ blocks' = [b \in {c \in DOMAIN blocks : hooks # Instrumented \/ ~Counted(blocks[c].made)} |-> blocks[b]]
    /\ UNCHANGED store

\* instrumentedAllocatorsMemAlloc, MemAlignAlloc and MemCalloc; the layer below may have no memory.
instrumentedAllocatorsMemAlloc(size, made) == IF Counted(made) THEN total + size ELSE total

\* The handle in front of the block is counted too, and a failed allocation stays counted.
contentStoreMemAlloc(size, made) == IF InStore(made) THEN [store EXCEPT !.total = @ + size + 1] ELSE store

Allocate(b, size, fails) ==
    LET made == Through(hooks.alloc, "alloc")
    IN  /\ b \notin DOMAIN blocks
        /\ store' = contentStoreMemAlloc(size, made) /\ store'.total <= MaxStoreTotal
        /\ total' = IF fails THEN total ELSE instrumentedAllocatorsMemAlloc(size, made)
        /\ blocks' = IF fails THEN blocks
                     ELSE [c \in DOMAIN blocks \cup {b} |-> IF c = b THEN [size |-> size, made |-> made] ELSE blocks[c]]
        /\ UNCHANGED <<hooks, stored>>

\* realloc is not replaced by the content store: a block of the store must not meet it.
instrumentedAllocatorsMemRealloc(b, size, fails) ==
    /\ b \in DOMAIN blocks /\ blocks[b].made = Through(hooks.realloc, "realloc") /\ blocks[b].size # size
    /\ total' = IF fails \/ ~Counted(blocks[b].made) THEN total ELSE total + size - blocks[b].size
    /\ blocks' = IF fails THEN blocks ELSE [blocks EXCEPT ![b].size = size]
    /\ UNCHANGED <<hooks, stored, store>>

MutFree(b) == total - 1

Uncounted(b) == IF Counted(blocks[b].made) THEN total - blocks[b].size ELSE total

\* instrumentedAllocatorsMemFree, contentStoreMemFree: a block is freed by the layers that made it.
Release(b) ==
    LET made == blocks[b].made
    IN  /\ b \in DOMAIN blocks /\ made = Through(hooks.free, "free")
        /\ total' = Uncounted(b)
        /\ store' = IF InStore(made) THEN [store EXCEPT !.total = @ - blocks[b].size - 1] ELSE store
        /\ blocks' = [c \in DOMAIN blocks \ {b} |-> blocks[c]]
        /\ UNCHANGED <<hooks, stored>>

-----------------------------------------------------------------------------
(* The content store of Client.c *)

\* One client at a time.
setContentStoreAllocator ==
    /\ ~store.set
    /\ store' = [set |-> TRUE, heap |-> TRUE, replaced |-> hooks, total |-> 0]
    /\ hooks' = [hooks EXCEPT !.alloc = "content", !.free = "content"]
    /\ UNCHANGED <<stored, total, blocks>>

\* The hooks go back to what they were when the client came, whatever has replaced them
\* since.  A client that could not be created leaves its hooks behind.
freeKinesisVideoClientInternal(failed) ==
    /\ store.set /\ store.heap
    /\ failed => "create" \in Careless
    /\ hooks.alloc = "content" \/ "order" \in Careless
    /\ IF failed THEN store' = [store EXCEPT !.heap = FALSE] /\ UNCHANGED hooks
       ELSE store' = NoStore /\ hooks' = [hooks EXCEPT !.alloc = store.replaced.alloc, !.free = store.replaced.free]
    /\ blocks' = [b \in {c \in DOMAIN blocks : ~InStore(blocks[c].made)} |-> blocks[b]]
    /\ UNCHANGED <<stored, total>>

AllocNext ==
    \/ setInstrumentedAllocators
    \/ resetInstrumentedAllocators
    \/ setContentStoreAllocator
    \/ \E failed \in BOOLEAN : freeKinesisVideoClientInternal(failed)
    \/ \E b \in Blocks, size \in Sizes, fails \in BOOLEAN :
          Allocate(b, size, fails) \/ instrumentedAllocatorsMemRealloc(b, size, fails)
    \/ \E b \in Blocks : Release(b)

AllocSpec == AllocInit /\ [][AllocNext]_allocVars

-----------------------------------------------------------------------------
\* The total of the instrumented allocators is what the live blocks they handed out hold,
\* through failed allocations, reallocations and blocks of other layers, so the leak that
\* resetInstrumentedAllocators reports is real; and a hook never leads to a layer that has
\* been taken away.
AllocationsAccounted ==
    /\ total = FoldSet(LAMBDA b, sum : sum + blocks[b].size, 0, {b \in DOMAIN blocks : Counted(blocks[b].made)})
    /\ \A f \in {"alloc", "realloc", "free"} : hooks[f] = "instrumented" => stored # NotStored
    /\ hooks.free = "content" => store.set /\ store.heap
    /\ hooks \in HookSet
=============================================================================
