-------------------------------- MODULE Heap --------------------------------
(***************************************************************************)
(* The system heap of mem.c: a list of blocks in address order that tiles  *)
(* the memory, first fit from lfree on, neighbours joined when one is      *)
(* freed.  Addresses and sizes count words of RT_ALIGN_SIZE.  The headers  *)
(* are a function from the addresses where one is linked; a header that is *)
(* joined to its neighbour leaves it.  Every walk along next visits the    *)
(* headers in address order (HeapTiled), so a search is a least address.   *)
(*                                                                         *)
(* rt_sem_take(&heap_sem) is the guard Unlocked.  rt_malloc is a search    *)
(* and a commit with the semaphore held in between; rt_realloc gives it    *)
(* back before it allocates, copies and frees.  Left out: magic, which is  *)
(* checked where used is, the high-water mark max_mem, and calls refused   *)
(* before they take the semaphore.                                         *)
(***************************************************************************)
EXTENDS Integers, FiniteSets, FiniteSetsExt

CONSTANTS Callers,      \* the threads that use the heap
          NoThread,
          Nowhere,      \* RT_NULL
          MemSize,      \* mem_size_aligned
          HeaderSize,   \* SIZEOF_STRUCT_MEM
          MinSize,      \* MIN_SIZE_ALIGNED
          Sizes,        \* the sizes callers ask for
          MaxBlocks     \* bound on the blocks a caller holds

ASSUME HeapAssumption ==
    /\ MemSize \in Nat /\ HeaderSize \in Nat \ {0} /\ MinSize \in Nat \ {0}
    /\ MinSize <= MemSize
    /\ Sizes \subseteq 0..MemSize
    /\ MaxBlocks \in Nat
    /\ NoThread \notin Callers /\ Nowhere \notin Nat

VARIABLES heap,       \* address -> header [used, next, prev]
          lfree,
          used_mem,
          heap_sem,   \* who holds the semaphore
          call,       \* the heap call of a caller: [at, size, mem, old]
          blocks      \* header address -> [owner, size]: what callers hold

heapState == <<heap, lfree, used_mem>>
heapVars == <<heapState, heap_sem, call, blocks>>

heap_end == MemSize + HeaderSize

\* at: "malloc" has still to search, "commit" has found mem or Nowhere, "free"
\* has still to free the block old that rt_realloc replaces.
Idle == [at |-> "idle", size |-> 0, mem |-> Nowhere, old |-> Nowhere]

\* rt_system_heap_init
HeapInit ==
    /\ heap = [p \in {0, heap_end} |->
                  IF p = 0 THEN [used |-> FALSE, next |-> heap_end, prev |-> 0]
                  ELSE [used |-> TRUE, next |-> heap_end, prev |-> heap_end]]
    /\ lfree = 0
    /\ used_mem = 0
    /\ heap_sem = NoThread
    /\ call = [t \in Callers |-> Idle]
    /\ blocks = << >>

\* Mutant of Unlocked: the section does not wait for the semaphore.
Unlocked_Not == TRUE

\* rt_sem_take(&heap_sem, RT_WAITING_FOREVER) succeeds.
Unlocked == heap_sem = NoThread

UserSize(h, p) == h[p].next - (p + HeaderSize)

\* lo takes over the space of its neighbour hi.
Join(h, lo, hi) ==
    [p \in DOMAIN h \ {hi} |->
        CASE p = lo /\ p # h[hi].next -> [h[p] EXCEPT !.next = h[hi].next]
          [] p = h[hi].next /\ p # lo -> [h[p] EXCEPT !.prev = lo]
          [] OTHER -> h[p]]

\* A free block begins at ptr2 inside mem.
Split(h, mem, ptr2) ==
    [p \in DOMAIN h \cup {ptr2} |->
        CASE p = ptr2 -> [used |-> FALSE, next |-> h[mem].next, prev |-> mem]
          [] p = mem -> [h[p] EXCEPT !.next = ptr2]
          [] p = h[mem].next /\ p # heap_end -> [h[p] EXCEPT !.prev = ptr2]
          [] OTHER -> h[p]]

PlugForward(h, mem) == ~h[h[mem].next].used /\ h[mem].next \notin {mem, heap_end}

PlugBackward(h, mem) == ~h[h[mem].prev].used /\ h[mem].prev # mem

\* Mutant of plug_holes: the hole behind is not plugged.
plug_holes_ForwardOnly(h, low, mem) ==
    LET f == PlugForward(h, mem)
    IN [heap |-> IF f THEN Join(h, mem, h[mem].next) ELSE h,
        lfree |-> IF f /\ low = h[mem].next THEN mem ELSE low]

\* plug_holes: the headers and lfree after it.
plug_holes(h, low, mem) ==
    LET f    == PlugForward(h, mem)
        h1   == IF f THEN Join(h, mem, h[mem].next) ELSE h
        low1 == IF f /\ low = h[mem].next THEN mem ELSE low
        b    == PlugBackward(h1, mem)
    IN [heap  |-> IF b THEN Join(h1, h1[mem].prev, mem) ELSE h1,
        lfree |-> IF b /\ low1 = mem THEN h1[mem].prev ELSE low1]

\* The blocks the loop of rt_malloc may stop at.
Candidates(size) ==
    {p \in DOMAIN heap : /\ lfree <= p /\ p < MemSize - size
                         /\ ~heap[p].used /\ UserSize(heap, p) >= size}

FirstFit(size) == IF Candidates(size) = {} THEN Nowhere ELSE Min(Candidates(size))

\* Every block is at least MIN_SIZE_ALIGNED long.
AskedSize(size) == IF size < MinSize THEN MinSize ELSE size

\* rt_malloc, up to the end of the search.  old is the block an rt_realloc
\* replaces.
MallocSearch(t, size, old) ==
    /\ Unlocked /\ size # 0
    /\ heap_sem' = t
    /\ call' = [call EXCEPT ![t] = [at |-> "commit", size |-> AskedSize(size),
                                   mem |-> FirstFit(AskedSize(size)), old |-> old]]
    /\ UNCHANGED <<heapState, blocks>>

MustSplit(mem, size) == UserSize(heap, mem) >= size + HeaderSize + MinSize

\* The headers after mem is given to a request for size words.
Carve(mem, size) ==
    LET h == IF MustSplit(mem, size) THEN Split(heap, mem, mem + HeaderSize + size) ELSE heap
    IN [h EXCEPT ![mem].used = TRUE]

\* The first free block from low on, or the end.
NextFree(h, low) == Min({p \in DOMAIN h : low <= p /\ (~h[p].used \/ p = heap_end)})

\* What a block adds to used_mem.
Charge(h, mem, size) ==
    IF MustSplit(mem, size) THEN size + HeaderSize ELSE h[mem].next - mem

\* rt_malloc found a block: it is carved, lfree and the statistics follow.
MallocTakes(t) ==
    LET mem == call[t].mem
        h   == Carve(mem, call[t].size)
    IN /\ heap' = h
       /\ lfree' = IF mem = lfree THEN NextFree(h, lfree) ELSE lfree
       /\ used_mem' = used_mem + Charge(heap, mem, call[t].size)
       /\ blocks' = [p \in DOMAIN blocks \cup {mem} |->
                        IF p = mem THEN [owner |-> t, size |-> call[t].size] ELSE blocks[p]]

\* rt_malloc, from the end of the search on.  An rt_realloc that got a block
\* has its old one to free.
MallocCommit(t) ==
    /\ call[t].at = "commit"
    /\ IF call[t].mem = Nowhere THEN UNCHANGED <<heapState, blocks>> ELSE MallocTakes(t)
    /\ heap_sem' = NoThread
    /\ call' = [call EXCEPT ![t] =
          IF Nowhere \in {call[t].mem, call[t].old} THEN Idle ELSE [Idle EXCEPT !.at = "free", !.old = call[t].old]]

\* rt_free
FreeBlock(p) ==
    LET low == IF p < lfree THEN p ELSE lfree
        r   == plug_holes([heap EXCEPT ![p].used = FALSE], low, p)
    IN /\ Unlocked
       /\ heap' = r.heap /\ lfree' = r.lfree
       /\ used_mem' = used_mem - (heap[p].next - p)
       /\ blocks' = [q \in DOMAIN blocks \ {p} |-> blocks[q]]
       /\ UNCHANGED heap_sem

\* The block may be cut at newsize.
Shrinks(p, newsize) == newsize + HeaderSize + MinSize < UserSize(heap, p)

\* rt_realloc that cuts the end off a block.  lfree moves only with a hole that
\* plug_holes joins.
ReallocShrink(p, newsize) ==
    LET ptr2 == p + HeaderSize + newsize
        r    == plug_holes(Split(heap, p, ptr2), lfree, ptr2)
    IN /\ Unlocked /\ Shrinks(p, newsize)
       /\ heap' = r.heap /\ lfree' = r.lfree
       /\ used_mem' = used_mem - (UserSize(heap, p) - newsize)
       /\ blocks' = [blocks EXCEPT ![p].size = newsize]
       /\ UNCHANGED <<heap_sem, call>>

\* rt_realloc that needs another block gives the semaphore back first.
ReallocMove(t, p, newsize) ==
    /\ Unlocked /\ newsize # 0
    /\ UserSize(heap, p) # newsize /\ ~Shrinks(p, newsize)
    /\ call' = [call EXCEPT ![t] = [at |-> "malloc", size |-> newsize, mem |-> Nowhere, old |-> p]]
    /\ UNCHANGED <<heapState, heap_sem, blocks>>

-----------------------------------------------------------------------------
(* What a caller does with blocks of its own. *)

Held(t) == {p \in DOMAIN blocks : blocks[p].owner = t}

Malloc(t) ==
    /\ call[t] = Idle /\ Cardinality(Held(t)) < MaxBlocks
    /\ \E size \in Sizes : MallocSearch(t, size, Nowhere)

Realloc(t) ==
    /\ call[t] = Idle
    /\ \E p \in Held(t), newsize \in Sizes : ReallocShrink(p, newsize) \/ ReallocMove(t, p, newsize)

ReallocMalloc(t) == call[t].at = "malloc" /\ MallocSearch(t, call[t].size, call[t].old)

Free(t) == call[t] = Idle /\ (\E p \in Held(t) : FreeBlock(p)) /\ UNCHANGED call

\* The end of an rt_realloc that moved: the data is copied, the old block freed.
ReallocFree(t) ==
    /\ call[t].at = "free"
    /\ FreeBlock(call[t].old)
    /\ call' = [call EXCEPT ![t] = Idle]

HeapNext(t) == Malloc(t) \/ MallocCommit(t) \/ Realloc(t) \/ ReallocMalloc(t) \/ Free(t) \/ ReallocFree(t)

-----------------------------------------------------------------------------
(* Properties *)

\* The headers tile the memory: each block ends where the next one begins and
\* knows the one before it, no two free blocks are neighbours, and lfree is a
\* free block or the end.  rt_malloc relies on it when it leaves a near fit
\* whole, plug_holes when it trusts prev.
HeapTiled ==
    /\ {0, heap_end, lfree} \subseteq DOMAIN heap
    /\ heap[heap_end].used
    /\ lfree = heap_end \/ ~heap[lfree].used
    /\ \A p \in DOMAIN heap \ {heap_end} :
          LET n == heap[p].next
          IN /\ n \in DOMAIN heap /\ n >= p + HeaderSize
             /\ \A q \in DOMAIN heap : q <= p \/ n <= q
             /\ heap[n].prev = p \/ n = heap_end
             /\ heap[p].used \/ heap[n].used

\* The words of the used blocks, headers included.
UsedCells == UNION {p..(heap[p].next - 1) : p \in {q \in DOMAIN heap \ {heap_end} : heap[q].used}}

\* used_mem counts them, after any sequence of splits, near fits, shrinks and
\* joins.
UsedMemExact == used_mem = Cardinality(UsedCells)

\* The headers and the statistics agree with the memory.
HeapConsistent == HeapTiled /\ UsedMemExact

\* The user data of a block a caller holds.
DataCells(p) == (p + HeaderSize)..(heap[p].next - 1)

\* What the heap has handed out.
Allocated == [p \in DOMAIN blocks |-> [cells |-> DataCells(p), size |-> blocks[p].size]]

Promise == INSTANCE Allocator WITH Cells <- 0..(heap_end - 1), allocated <- Allocated

\* Whatever the threads do at the same time, the heap is an allocator: the
\* blocks callers hold are disjoint, large enough, and stay as they are until
\* their owner shrinks, moves or frees them.
ImplementsAllocator == Promise!Spec
=============================================================================
