------------------------------- MODULE Memory -------------------------------
(***************************************************************************)
(* The heap, the object container and a memory pool that is created and    *)
(* deleted while threads use both: rt_mp_create takes two blocks from the  *)
(* heap, the control block and the room for the blocks, and gives the      *)
(* first one back when it does not get the second.                         *)
(***************************************************************************)
EXTENDS Heap, MemPool

CONSTANTS Managers,     \* the threads that create and delete the pool
          HeapUsers,    \* the threads with blocks of their own
          ObjectSize,   \* sizeof(struct rt_mempool)
          RoomSize      \* (block_size + a pointer) * block_count

ASSUME MemoryAssumption ==
    /\ Callers = Managers \cup HeapUsers /\ Callers \subseteq Threads
    /\ Managers \cap (HeapUsers \cup Users) = {}
    /\ {ObjectSize, RoomSize} \subseteq 1..MemSize

VARIABLES object_list,   \* rt_object_container[RT_Object_Class_MemPool]
          object,        \* where the control block lies
          start_address, \* mp->start_address
          mp             \* the pool the users know

containerState == <<object_list, object, start_address, mp>>
vars == <<heapVars, ipcVars, poolState, containerState>>

Init ==
    /\ HeapInit /\ IpcInit /\ NoPool
    /\ object_list = <<>>
    /\ object = Nowhere /\ start_address = Nowhere /\ mp = Nowhere

\* rt_mp_create, rt_object_allocate: rt_malloc of the control block.
Create(t) ==
    /\ At(t, "run") /\ object = Nowhere
    /\ MallocSearch(t, ObjectSize, Nowhere)
    /\ Goto(t, "object")
    /\ UNCHANGED <<stat, error, thread_timer, poolState, containerState>>

CreateObject(t) ==
    /\ At(t, "object")
    /\ MallocCommit(t)
    /\ object' = call[t].mem
    /\ Goto(t, IF call[t].mem = Nowhere THEN "run" ELSE "link")
    /\ UNCHANGED <<stat, error, thread_timer, poolState, object_list, start_address, mp>>

\* rt_object_allocate: the object enters the container, not yet initialised.
LinkObject(t) ==
    /\ At(t, "link")
    /\ object_list' = rt_list_insert_after(object_list, object)
    /\ Goto(t, "room")
    /\ UNCHANGED <<heapVars, stat, error, thread_timer, poolState, object, start_address, mp>>

\* rt_mp_create: rt_malloc of the room for the blocks.
CreateRoom(t) ==
    /\ At(t, "room")
    /\ MallocSearch(t, RoomSize, Nowhere)
    /\ Goto(t, "fill")
    /\ UNCHANGED <<stat, error, thread_timer, poolState, containerState>>

\* Mutant of AfterRoom: a failed creation just returns.
AfterRoom_NoDelete == "run"

\* Where rt_mp_create goes on when there is no room.
AfterRoom == "unlink"

\* The pool is initialised and returned, or there was no room.
CreateDone(t) ==
    /\ At(t, "fill")
    /\ MallocCommit(t)
    /\ start_address' = call[t].mem
    /\ IF call[t].mem = Nowhere
       THEN Goto(t, AfterRoom) /\ UNCHANGED <<poolState, mp>>
       ELSE Goto(t, "run") /\ PoolReset /\ mp' = object
    /\ UNCHANGED <<stat, error, thread_timer, object_list, object>>

\* rt_mp_delete: from now on nobody uses the pool or a block of it any more.
Delete(t) ==
    /\ At(t, "run") /\ Urgent(t) /\ mp # Nowhere
    /\ mp' = Nowhere
    /\ Goto(t, "wake")
    /\ UNCHANGED <<heapVars, stat, error, thread_timer, poolState, object_list, object, start_address>>

DeleteWake(t) ==
    /\ At(t, "wake") /\ ~rt_list_isempty(suspend_thread)
    /\ WakeWithError
    /\ UNCHANGED <<heapVars, thread_timer, pc, containerState>>

\* The room goes back to the heap, with the blocks that are still held.
DeleteRoom(t) ==
    /\ At(t, "wake") /\ rt_list_isempty(suspend_thread)
    /\ FreeBlock(start_address) /\ UNCHANGED call
    /\ start_address' = Nowhere
    /\ block_list' = <<>> /\ block_free_count' = 0
    /\ held' = [b \in Blocks |-> NoOwner]
    /\ Goto(t, "unlink")
    /\ UNCHANGED <<stat, error, thread_timer, suspend_thread, suspend_thread_count,
                   object_list, object, mp>>

\* rt_object_delete: the object leaves the container ...
UnlinkObject(t) ==
    /\ At(t, "unlink")
    /\ object_list' = rt_list_remove(object_list, object)
    /\ Goto(t, "release")
    /\ UNCHANGED <<heapVars, stat, error, thread_timer, poolState, object, start_address, mp>>

\* ... and is freed.
FreeObject(t) ==
    /\ At(t, "release")
    /\ FreeBlock(object) /\ UNCHANGED call
    /\ object' = Nowhere
    /\ Goto(t, "run")
    /\ UNCHANGED <<stat, error, thread_timer, poolState, object_list, start_address, mp>>

Manage(t) ==
    \/ Create(t) \/ CreateObject(t) \/ LinkObject(t) \/ CreateRoom(t) \/ CreateDone(t)
    \/ Delete(t) \/ DeleteWake(t) \/ DeleteRoom(t) \/ UnlinkObject(t) \/ FreeObject(t)

\* A thread uses the pool while there is one; a woken one leaves its call.
UsePool(t) ==
    /\ mp # Nowhere \/ pc[t] = "woken"
    /\ t \in Callers => call[t] = Idle
    /\ PoolUse(t)
    /\ UNCHANGED <<heapVars, containerState>>

UseHeap(t) ==
    /\ At(t, "run")
    /\ HeapNext(t)
    /\ UNCHANGED <<ipcVars, poolState, containerState>>

Next ==
    \/ \E t \in Managers : Manage(t)
    \/ \E t \in HeapUsers : UseHeap(t)
    \/ \E t \in Users : UsePool(t)

Spec == Init /\ [][Next]_vars

-----------------------------------------------------------------------------
(* Properties *)

\* The threads rt_mp_free has woken and that have not taken their block yet.
Promised == {t \in Threads : At(t, "woken") /\ error[t] = "EOK"}

\* The counters say what the lists hold, a block is free or held by one thread,
\* and there is a block for every woken thread, which takes the first of the
\* list unseen.
PoolConsistent ==
    /\ block_free_count = Len(block_list)
    /\ suspend_thread_count = Len(suspend_thread)
    /\ start_address # Nowhere =>
          /\ ToSet(block_list) = {b \in Blocks : held[b] = NoOwner}
          /\ IsInjective(block_list)
    /\ Cardinality(Promised) <= block_free_count

\* No thread stays suspended beside a block that nobody was promised.
NoWaiterBesideFreeBlock ==
    suspend_thread # <<>> => block_free_count <= Cardinality(Promised)

\* The objects in the container are allocated, at every step of a creation that
\* fails, of one that succeeds and of a deletion; and when rt_mp_create or
\* rt_mp_delete has returned, the heap holds for the pool just what is in use.
NoLeak ==
    LET ofPool == {p \in DOMAIN blocks : blocks[p].owner \in Managers}
    IN /\ ToSet(object_list) \subseteq ofPool
       /\ (\A t \in Managers : pc[t] = "run") => ofPool = IF mp = Nowhere THEN {} ELSE {object, start_address}
=============================================================================
