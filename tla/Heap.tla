-------------------------------- MODULE Heap --------------------------------
(***************************************************************************)
(* The content store's heap (src/heap/src/Heap.c): a memory heap, system   *)
(* or AIV, alone or below a hybrid heap that spills to video memory or to  *)
(* files what the memory heap cannot hold.                                 *)
(*                                                                         *)
(* Every heap keeps an account (heapSize, numAlloc) that its common part   *)
(* (Common.c) checks against the limit before the allocator is asked.  A   *)
(* hybrid heap accounts for its spilled AND its in-memory allocations and  *)
(* its memory heap accounts for its own.  The client calls the heap under  *)
(* one lock, so a call is one step.  Each operator below maps a heap to    *)
(* the set of outcomes a call may have, as the system may refuse memory,   *)
(* video memory or a file at any moment.                                   *)
(***************************************************************************)
EXTENDS AivHeap, FiniteSets, FiniteSetsExt

CONSTANTS
    Setups,         \* the heaps created: [mem, spill, limit, ratio]
    SpillOverhead,  \* header and footer of a spilled allocation
    Sizes,          \* sizes the client asks for
    MaxAllocs,      \* bound: allocations the client holds at a time
    MaxFiles,       \* bound: files ever created
    MaxResizes,     \* bound: calls of heapSetAllocSize
    MaxFaults       \* bound: calls that fail

Overhead == Header + Footer

(* hybridHeapInit and hybridFileHeapInit give a part of the limit to the   *)
(* memory heap, spillRatio being a percentage; aivHeapInit aligns it.      *)
LimitOf(s) ==
    LET part == IF s.spill # "none" THEN (s.limit * s.ratio) \div 100 ELSE s.limit
    IN  IF s.mem = "aiv" THEN Packed(part) ELSE part

(* commonHeapInit refuses a limit below MIN_HEAP_SIZE, also of the memory  *)
(* heap of a hybrid one, so that there is room for a block.                *)
ASSUME SetupAssumption ==
    /\ Setups \subseteq [mem : {"system", "aiv"}, spill : {"none", "vram", "file"},
                         limit : Nat \ {0}, ratio : 0 .. 100]
    /\ \A s \in Setups : LimitOf(s) > Overhead
ASSUME SizeAssumption ==
    /\ Sizes \subseteq Nat \ {0} /\ SpillOverhead \in Nat
    /\ {MaxAllocs, MaxFiles, MaxResizes, MaxFaults} \subseteq Nat

VARIABLES
    setup,
    released, \* heapRelease was called
    heap,     \* [top, mem: accounts; arena; sys: malloc'd blocks; store: spilled; files]
    owned,    \* the client's handles and the sizes it believes they have
    lost,     \* handles whose free failed: the client forgets them
    resizes,  \* calls of heapSetAllocSize
    faults    \* calls that failed

vars == <<setup, released, heap, owned, lost, resizes, faults>>

NoHandle == <<"invalid", 0>>         \* INVALID_ALLOCATION_HANDLE_VALUE
AivHandle(o) == <<"aiv", o>>         \* TO_AIV_HANDLE
SysHandle(n) == <<"sys", n>>
SpillHandle(n) == <<"spill", n>>     \* FROM_VRAM_HANDLE, FROM_FILE_HANDLE
IsDirect(h) == h[1] # "spill"        \* IS_DIRECT_ALLOCATION_HANDLE

Spills == setup.spill # "none"
MemLimit == LimitOf(setup)

\* the smallest number that names no allocation: malloc and the video
\* memory reuse theirs
Unused(f) == Min((1 .. (Cardinality(DOMAIN f) + 1)) \ DOMAIN f)

\* the outcome of a call: the heap, the handle it returns and its status
Outcome(hp, h, status) == [heap |-> hp, handle |-> h, status |-> status]
Ok(r) == r.status = "ok"

-----------------------------------------------------------------------------
(* Common.c *)
NewAccount == [size |-> 0, count |-> 0]

IncrementUsage(acct, n) == [size |-> acct.size + n, count |-> acct.count + 1]

FloorSub(a, b) == IF a <= b THEN 0 ELSE a - b

DecrementUsage(acct, n) == [size |-> FloorSub(acct.size, n), count |-> acct.count - 1]

\* commonHeapAlloc refuses what would exceed the limit
Fits(acct, n, limit) == acct.size + n <= limit

\* commonHeapFree: a larger allocation than the account means corruption
CommonFreeAllows(acct, n) == acct.size >= n

\* commonHeapSetAllocSize: the account moves by the unaligned difference
CommonResizeAllows(acct, size, new, limit) ==
    new > size => acct.size + (new - size) <= limit

ResizedAccount(acct, size, new) ==
    [acct EXCEPT !.size = IF new > size THEN @ + (new - size) ELSE FloorSub(@, size - new)]

-----------------------------------------------------------------------------
(* The memory heap: SystemHeap.c or AivHeap.c.                             *)
AlignedSize(size) == IF setup.mem = "aiv" THEN Packed(size) ELSE size

\* sysGetAllocationSize, aivGetAllocationSize
MemAllocationSize(hp, h) ==
    Overhead + (IF h[1] = "aiv" THEN hp.arena.blocks[h[2]].size ELSE hp.sys[h[2]].size)

\* sysHeapAlloc; malloc may fail
SysAllocs(hp, size) ==
    LET n == Unused(hp.sys)
        block == [size |-> size, room |-> size]
        counted == IncrementUsage(hp.mem, Overhead + size)
    IN  {Outcome([hp EXCEPT !.mem = counted, !.sys = Put(@, n, block)], SysHandle(n), "ok"),
         Outcome([hp EXCEPT !.mem = DecrementUsage(counted, Overhead + size)], NoHandle, "ok")}

\* Mutant: a whole block is taken without correcting the account
AivAllocsUncorrected(hp, size) ==
    LET o == GetFreeBlock(hp.arena, size)
        counted == IncrementUsage(hp.mem, Overhead + Packed(size))
    IN  IF o = NoBlock
        THEN {Outcome([hp EXCEPT !.mem = DecrementUsage(counted, Overhead + Packed(size))], NoHandle, "ok")}
        ELSE {Outcome([hp EXCEPT !.mem = counted, !.arena = SplitFreeBlock(@, o, size)], AivHandle(o), "ok")}

\* aivHeapAlloc; fragmentation may leave no block that fits
AivAllocs(hp, size) ==
    LET o == GetFreeBlock(hp.arena, size)
        counted == IncrementUsage(hp.mem, Overhead + Packed(size))
    IN  IF o = NoBlock
        THEN {Outcome([hp EXCEPT !.mem = DecrementUsage(counted, Overhead + Packed(size))], NoHandle, "ok")}
        ELSE {Outcome([hp EXCEPT !.mem = [counted EXCEPT !.size = @ + SplitExcess(hp.arena, o, size)],
                                 !.arena = SplitFreeBlock(@, o, size)],
                      AivHandle(o), "ok")}

\* out of memory is a success without a handle
MemAllocs(hp, size) ==
    IF ~Fits(hp.mem, Overhead + AlignedSize(size), MemLimit)
    THEN {Outcome(hp, NoHandle, "ok")}
    ELSE IF setup.mem = "aiv" THEN AivAllocs(hp, size) ELSE SysAllocs(hp, size)

SysFree(hp, h) == Outcome([hp EXCEPT !.sys = Drop(@, h[2])], NoHandle, "ok")
AivFree(hp, h) == Outcome([hp EXCEPT !.arena = FreeBlock(@, h[2])], NoHandle, "ok")

\* heapFreeFn of the memory heap: the account first
MemFree(hp, h) ==
    LET n == MemAllocationSize(hp, h)
        counted == [hp EXCEPT !.mem = DecrementUsage(@, n)]
    IN  IF ~CommonFreeAllows(hp.mem, n) THEN Outcome(hp, h, "failed")
        ELSE IF h[1] = "aiv" THEN AivFree(counted, h) ELSE SysFree(counted, h)

(* sysHeapSetAllocSize reallocates to the OLD size, which never needs a    *)
(* larger block, and then writes the new size into the header.             *)
SysResizes(hp, h, size, new) ==
    LET counted == ResizedAccount(hp.mem, size, new)
        undone == IF new > size THEN DecrementUsage(counted, new - size)
                  ELSE IncrementUsage(counted, size - new)
    IN  {Outcome([hp EXCEPT !.mem = counted, !.sys[h[2]] = [size |-> new, room |-> size]], h, "ok"),
         Outcome([hp EXCEPT !.mem = undone], h, "realloc")}

\* the caller's new size fits in place, or the shrunk rest is too small
FitsInPlace(b, size, new) ==
    \/ new > size /\ new - size <= b.size - b.alloc
    \/ new < size /\ (b.size - b.alloc) + (size - new) <= MinFreeBlock

\* a free block to the right makes room
RightMakesRoom(a, o, diff) ==
    \E r \in RightOf(a, o) :
        /\ a.blocks[r].free
        /\ a.blocks[r].size + Overhead + (a.blocks[o].size - a.blocks[o].alloc) >= diff

\* aivHeapSetAllocSize
AivResizes(hp, h, size, new) ==
    LET o == h[2]
        b == hp.arena.blocks[o]
        counted == [hp EXCEPT !.mem = ResizedAccount(@, size, new)]
        moves == MemAllocs(counted, new)
    IN  IF FitsInPlace(b, size, new)
        THEN {Outcome([counted EXCEPT !.arena.blocks[o].alloc = new], h, "ok")}
        ELSE IF new < size
        THEN {Outcome([counted EXCEPT !.arena = SplitAllocatedBlock(@, o, new)], h, "ok")}
        ELSE IF RightMakesRoom(hp.arena, o, new - size)
        THEN {Outcome([counted EXCEPT !.arena =
                         CoalesceFreeToAllocated(@, o, EndOf(hp.arena, o), new - size)], h, "ok")}
        ELSE {IF r.handle = NoHandle THEN Outcome(r.heap, h, "failed")
              ELSE LET f == MemFree(r.heap, h)
                   IN  IF Ok(f) THEN Outcome(f.heap, r.handle, "ok")
                       ELSE Outcome(MemFree(f.heap, r.handle).heap, h, "failed") : r \in moves}

MemResizes(hp, h, size, new) ==
    IF ~CommonResizeAllows(hp.mem, size, new, MemLimit) THEN {Outcome(hp, h, "failed")}
    ELSE IF h[1] = "aiv" THEN AivResizes(hp, h, size, new) ELSE SysResizes(hp, h, size, new)

-----------------------------------------------------------------------------
(* The hybrid heap: HybridHeap.c and HybridFileHeap.c.  A spilled object   *)
(* is its header, the size and for a file the number it is stored under,   *)
(* and the length of the storage, which the size gives unless a resize     *)
(* broke off.                                                              *)
(* An allocation from video memory may be refused, which keeps its place   *)
(* in the account, or cannot be locked, which gives the place back and     *)
(* forgets the allocation.                                                 *)
VramSpills(hp, size) ==
    LET n == Unused(hp.store)
        stored == [hp EXCEPT !.store = Put(@, n, [size |-> size, file |-> 0, length |-> size])]
    IN  {Outcome(stored, SpillHandle(n), "ok"),
         Outcome(hp, NoHandle, "failed"),
         Outcome([stored EXCEPT !.top = DecrementUsage(@, SpillOverhead + size)], NoHandle, "failed")}

(* A file may not be created, or its header not be written, which leaves   *)
(* the file; both keep their place in the account.                         *)
FileSpills(hp, size) ==
    LET n == hp.files + 1
        stored == [hp EXCEPT !.store = Put(@, n, [size |-> size, file |-> n, length |-> size])]
    IN  {Outcome([stored EXCEPT !.files = n], SpillHandle(n), "ok"),
         Outcome(hp, NoHandle, "failed"),
         Outcome(stored, NoHandle, "failed")}

Spilled(hp, size) == IF setup.spill = "vram" THEN VramSpills(hp, size) ELSE FileSpills(hp, size)

\* Mutant: a hybrid heap forgets to account for what its memory heap took
SpillAllocsUncounted(hp, size) ==
    UNION {IF r.handle # NoHandle THEN {r}
           ELSE Spilled([hp EXCEPT !.top = IncrementUsage(@, SpillOverhead + size)], size) :
           r \in MemAllocs(hp, size)}

\* the account, then memory, then the spill storage
SpillAllocs(hp, size) ==
    LET counted == [hp EXCEPT !.top = IncrementUsage(@, SpillOverhead + size)]
    IN  UNION {IF r.handle # NoHandle THEN {r} ELSE Spilled(counted, size) :
               r \in MemAllocs(counted, size)}

\* hybridGetAllocationSize: a block of the memory heap, with the spill overhead
SpillAllocationSize(hp, h) ==
    IF IsDirect(h) THEN MemAllocationSize(hp, h) - Overhead + SpillOverhead
    ELSE hp.store[h[2]].size + SpillOverhead

\* hybridFileGetAllocationSize takes a file whose header it cannot read for an empty one
SizesFound(hp, h) ==
    {SpillAllocationSize(hp, h)} \cup (IF ~IsDirect(h) /\ setup.spill = "file" THEN {SpillOverhead} ELSE {})

\* a file may refuse to be removed, and so may video memory
FileFrees(hp, h) ==
    {Outcome([hp EXCEPT !.store = Drop(@, h[2])], NoHandle, "ok"), Outcome(hp, h, "failed")}

\* heapFreeFn of a hybrid heap, the size found being n: the account first
FreesFound(hp, h, n) ==
    LET counted == [hp EXCEPT !.top = DecrementUsage(@, n)]
    IN  IF ~CommonFreeAllows(hp.top, n) THEN {Outcome(hp, h, "failed")}
        ELSE IF IsDirect(h) THEN {MemFree(counted, h)}
        ELSE FileFrees(counted, h)

\* a call that fails before it changes anything, as video memory or a file cannot be read
Refused(hp, h) == IF IsDirect(h) THEN {} ELSE {Outcome(hp, h, "failed")}

\* video memory that cannot be locked has no size, and commonHeapFree refuses it
SpillFrees(hp, h) ==
    (UNION {FreesFound(hp, h, n) : n \in SizesFound(hp, h)})
      \cup (IF setup.spill = "vram" THEN Refused(hp, h) ELSE {})

(* hybridHeapSetAllocSize: what is not resized in memory moves to a new    *)
(* allocation, which is accounted for on top of the difference.  Where     *)
(* either cannot be mapped the call fails and leaves the new one behind:   *)
(* the clean-up looks for an INVALID handle to free.                       *)
VramMoves(hp, h, new) ==
    UNION {IF r.handle = NoHandle THEN {Outcome(r.heap, h, "failed")}
           ELSE {IF Ok(f) THEN Outcome(f.heap, r.handle, "ok") ELSE Outcome(f.heap, h, "failed") :
                 f \in SpillFrees(r.heap, h)}
                \cup (IF IsDirect(r.handle) THEN Refused(r.heap, h) ELSE {Outcome(r.heap, h, "failed")}) :
           r \in IF Fits(hp.top, SpillOverhead + new, setup.limit) THEN SpillAllocs(hp, new)
                 ELSE {Outcome(hp, NoHandle, "ok")}}

(* hybridFileHeapSetAllocSize: the file is resized in place and gets a new *)
(* header, without the number of the file; one that is not written leaves  *)
(* the old header in a file of the new length.  A direct allocation that   *)
(* could not be resized is taken for a file, which does not exist.         *)
FileResizes(hp, h, new) ==
    {Outcome([hp EXCEPT !.store[h[2]] = [size |-> new, file |-> 0, length |-> new]], h, "ok"),
     Outcome([hp EXCEPT !.store[h[2]].length = new], h, "failed"),
     Outcome(hp, h, "failed")}

\* heapSetAllocSize has asked for the size of what is spilled, which may fail too
SpillResizes(hp, h, size, new) ==
    LET counted == [hp EXCEPT !.top = ResizedAccount(@, size, new)]
        moves(hq) == IF setup.spill = "vram" THEN VramMoves(hq, h, new)
                     ELSE IF IsDirect(h) THEN {Outcome(hq, h, "failed")}
                     ELSE FileResizes(hq, h, new)
    IN  IF ~CommonResizeAllows(hp.top, size, new, setup.limit) THEN {Outcome(hp, h, "failed")}
        ELSE IF ~IsDirect(h) THEN moves(counted) \cup Refused(hp, h)
        ELSE UNION {IF r.status = "realloc" THEN moves(r.heap) ELSE {r} :
                    r \in MemResizes(counted, h, size, new)}

-----------------------------------------------------------------------------
(* Heap.c *)
Init ==
    /\ setup \in Setups /\ released = FALSE
    /\ heap = [top |-> NewAccount, mem |-> NewAccount, arena |-> NewArena(MemLimit),
               sys |-> <<>>, store |-> <<>>, files |-> 0]
    /\ owned = <<>> /\ lost = {}
    /\ resizes = 0 /\ faults = 0

\* the account of the heap on top, as far as it has one of its own
HeapAllocs(size) ==
    IF ~Spills THEN MemAllocs(heap, size)
    ELSE IF Fits(heap.top, SpillOverhead + size, setup.limit) THEN SpillAllocs(heap, size)
    ELSE {Outcome(heap, NoHandle, "ok")}

\* failures are counted and bounded
Counted(r) ==
    /\ faults' = IF Ok(r) THEN faults ELSE faults + 1
    /\ faults' <= MaxFaults

Alloc(size) ==
    /\ Cardinality(DOMAIN owned) < MaxAllocs /\ heap.files < MaxFiles
    /\ \E r \in HeapAllocs(size) :
          /\ heap' = r.heap
          /\ owned' = IF r.handle = NoHandle THEN owned ELSE Put(owned, r.handle, size)
          /\ Counted(r)
    /\ UNCHANGED <<setup, lost, resizes>>

\* heapFree: viewItemRemoved drops its handle whatever the result
Free(h) ==
    /\ \E r \in IF Spills THEN SpillFrees(heap, h) ELSE {MemFree(heap, h)} :
          /\ heap' = r.heap
          /\ lost' = IF Ok(r) THEN lost ELSE lost \cup {h}
          /\ Counted(r)
    /\ owned' = Drop(owned, h)
    /\ UNCHANGED <<setup, resizes>>

\* heapSetAllocSize asks for the current size first
CurrentSize(h) ==
    CASE h[1] = "aiv" -> heap.arena.blocks[h[2]].alloc
      [] h[1] = "sys" -> heap.sys[h[2]].size
      [] OTHER -> heap.store[h[2]].size

SetAllocSize(h, new) ==
    /\ new # CurrentSize(h) /\ heap.files < MaxFiles /\ resizes < MaxResizes
    /\ \E r \in IF Spills THEN SpillResizes(heap, h, CurrentSize(h), new)
                ELSE MemResizes(heap, h, CurrentSize(h), new) :
          /\ heap' = r.heap
          /\ owned' = IF Ok(r) THEN Put(Drop(owned, h), r.handle, new) ELSE owned
          /\ Counted(r)
    /\ resizes' = resizes + 1
    /\ UNCHANGED <<setup, lost>>

(* heapMap, a change of the content, heapUnmap.  A file whose length is    *)
(* not what its header says is not mapped (STATUS_HEAP_FILE_HEAP_FILE_-    *)
(* CORRUPT); unmapping rewrites the file that the mapped header names.     *)
WriteContent(h) ==
    /\ setup.spill = "file" /\ ~IsDirect(h)
    /\ heap.store[h[2]].length = heap.store[h[2]].size
    /\ heap' = [heap EXCEPT !.store = Put(@, @[h[2]].file, @[h[2]])]
    /\ UNCHANGED <<setup, owned, lost, resizes, faults>>

(* heapRelease, once the client has freed what it held: the arena and the  *)
(* files in the root directory go, whoever forgot them; blocks of the      *)
(* system and video memory do not.                                         *)
Release ==
    /\ ~released /\ owned = <<>>
    /\ released' = TRUE
    /\ heap' = [heap EXCEPT !.top = NewAccount, !.mem = NewAccount, !.arena = NewArena(MemLimit),
                            !.store = IF setup.spill = "file" THEN <<>> ELSE @]
    /\ UNCHANGED <<setup, owned, lost, resizes, faults>>

Use ==
    \/ \E size \in Sizes : Alloc(size)
    \/ \E h \in DOMAIN owned : Free(h)
    \/ \E h \in DOMAIN owned, new \in Sizes : SetAllocSize(h, new)
    \/ \E h \in DOMAIN owned : WriteContent(h)

Next == (Use /\ ~released /\ UNCHANGED released) \/ Release

Spec == Init /\ [][Next]_vars

-----------------------------------------------------------------------------
(* Properties.                                                             *)

Account == [size : Nat, count : Int]

(* Types.                                                                  *)
TypeOK ==
    /\ setup \in Setups /\ released \in BOOLEAN
    /\ heap.top \in Account /\ heap.mem \in Account
    /\ \A h \in DOMAIN owned : owned[h] \in Sizes
    /\ resizes \in 0 .. MaxResizes /\ faults \in 0 .. MaxFaults

(* The AIV arena stays well formed under allocations, frees and resizes in *)
(* any order: splitFreeBlock, addFreeBlock, splitAllocatedBlock and        *)
(* coalesceFreeToAllocatedBlock leave no gap, no overlap, no two adjacent  *)
(* free blocks and a free list that lists each free block once; and every  *)
(* handle of the client names an allocated block that is large enough for  *)
(* the size the client asked for last.                                     *)
ArenaWellFormed ==
    /\ TypeOK
    /\ WellFormedArena(heap.arena, MemLimit)
    /\ \A h \in DOMAIN owned : h[1] = "aiv" =>
        /\ h[2] \in Offsets(heap.arena)
        /\ LET b == heap.arena.blocks[h[2]]
           IN  ~b.free /\ b.alloc = owned[h] /\ b.alloc <= b.size

AivBlocks == {o \in Offsets(heap.arena) : ~heap.arena.blocks[o].free}
SumOver(S, Size(_)) == FoldSet(LAMBDA x, acc : acc + Size(x), 0, S)

(* commonHeapFree finds the account at least as large as what it takes off. *)
FreesCovered ==
    ~(Spills /\ setup.mem = "aiv") =>
        \A h \in DOMAIN owned :
            IF Spills THEN CommonFreeAllows(heap.top, SpillAllocationSize(heap, h))
            ELSE CommonFreeAllows(heap.mem, MemAllocationSize(heap, h))

(* Without resizes the account of the memory heap is exactly what its      *)
(* blocks take, headers, footers and the unused ends of whole blocks       *)
(* included: the corrections of splitFreeBlock and of failed allocations   *)
(* balance what commonHeapAlloc and commonHeapFree add and take.  While no *)
(* call fails, what is allocated is what the client holds: no system       *)
(* block, file or video memory is left behind.  And a free never fails for *)
(* the heap's own reasons, since the account covers each allocation; a     *)
(* hybrid heap over an AIV heap is left out there: it adds the requested   *)
(* size and takes the size of the block.                                   *)
AccountMatchesBlocks ==
    /\ resizes = 0 => FreesCovered
    /\ resizes = 0 /\ ~released =>
        /\ faults = 0 => {SpillHandle(n) : n \in DOMAIN heap.store} \cup {SysHandle(n) : n \in DOMAIN heap.sys}
                           \cup {AivHandle(o) : o \in AivBlocks} = DOMAIN owned
        /\ heap.mem.size =
             SumOver(AivBlocks, LAMBDA o : Overhead + heap.arena.blocks[o].size)
               + SumOver(DOMAIN heap.sys, LAMBDA n : Overhead + heap.sys[n].size)
        /\ heap.mem.count = Cardinality(AivBlocks) + Cardinality(DOMAIN heap.sys)
        /\ heap.mem.size <= MemLimit

(* The block of a handle belongs to its client: an operation on one handle *)
(* leaves the blocks of all the others as they were.                       *)
OthersUntouched ==
    [][\A h \in DOMAIN owned \cap DOMAIN owned' :
          h[1] = "aiv" /\ owned'[h] = owned[h] =>
              /\ h[2] \in DOMAIN heap'.arena.blocks
              /\ heap'.arena.blocks[h[2]] = heap.arena.blocks[h[2]]]_vars
=============================================================================
